--------------------------- MODULE PackagesProofs ---------------------------
(* Proofs about the package reader and its two users, for buffers and      *)
(* segments of any size, any cut of the stream into segments, any frames   *)
(* of the server, any requests of the app, any timeout and any backlog.    *)
EXTENDS Pairing, ServerSession, WellFoundedInduction, FiniteSetTheorems, SequenceTheorems, TLAPS

------------------------------------------------------------------------------
(* Induction: a nonempty set of numbers has a least one, and a function    *)
(* that is defined by a step on what it is at the number before exists and *)
(* has its type.                                                           *)
LEMMA LeastNumber == ASSUME NEW T \in SUBSET Nat, T # {} PROVE \E x \in T : \A y \in T : x <= y
<1>1. IsWellFoundedOn({ss \in Nat \X Nat : ss[1] < ss[2]}, Nat)
  BY NatLessThanWellFounded DEF OpToRel
<1>2. PICK x \in T : \A y \in T : ~ (<<y, x>> \in {ss \in Nat \X Nat : ss[1] < ss[2]})
  BY <1>1, WFMin
<1>3. ASSUME NEW y \in T PROVE x <= y
  <2>1. <<y, x>> \notin {ss \in Nat \X Nat : ss[1] < ss[2]} /\ x \in Nat /\ y \in Nat
    BY <1>2
  <2> QED BY <2>1
<1> QED BY <1>3

LEMMA LeastType == ASSUME NEW T \in SUBSET Nat, T # {} PROVE Min(T) \in T /\ \A y \in T : Min(T) <= y
BY LeastNumber DEF Min

Steps(g, F, x, a, k) == \A n \in a..k : g[n] = IF n = a THEN x ELSE F[<<n, g[n - 1]>>]

LEMMA Induction ==
    ASSUME NEW S, NEW a \in Nat, NEW k \in Nat, NEW g,
           g[a] \in S, \A n \in a + 1..k : g[n - 1] \in S => g[n] \in S
    PROVE  \A n \in a..k : g[n] \in S
<1> DEFINE T == {n \in a..k : g[n] \notin S}
<1>1. SUFFICES ASSUME T # {} PROVE FALSE
  OBVIOUS
<1>2. T \in SUBSET Nat
  OBVIOUS
<1>3. PICK n \in T : \A m \in T : n <= m
  <2> HIDE DEF T
  <2> QED BY <1>1, <1>2, LeastNumber
<1>4. n \in a + 1..k /\ n - 1 \in a..k
  BY <1>3
<1>5. n - 1 \notin T
  BY <1>2, <1>3
<1> QED BY <1>4, <1>5

LEMMA StepsExist ==
    ASSUME NEW S, NEW F \in [Nat \X S -> S], NEW x \in S, NEW a \in Nat, NEW k \in Nat, a <= k
    PROVE  \E g \in [a..k -> S] : Steps(g, F, x, a, k)
<1> DEFINE Good(m) == \E g \in [a..m -> S] : Steps(g, F, x, a, m)
           T == {m \in Nat : a <= m /\ ~Good(m)}
<1>1. SUFFICES ASSUME T # {} PROVE FALSE
  OBVIOUS
<1>2. PICK m \in T : \A j \in T : m <= j
  BY <1>1, LeastNumber
<1>3. m # a
  <2> SUFFICES Good(a)
    BY <1>2
  <2>1. [n \in a..a |-> x] \in [a..a -> S] /\ Steps([n \in a..a |-> x], F, x, a, a)
    BY DEF Steps
  <2> QED BY <2>1
<1>4. m - 1 \in Nat /\ a <= m - 1 /\ m \in Nat /\ m - 1 \notin T
  BY <1>2, <1>3
<1>5. PICK h \in [a..m - 1 -> S] : Steps(h, F, x, a, m - 1)
  BY <1>4
<1> DEFINE g == [n \in a..m |-> IF n = m THEN F[<<m, h[m - 1]>>] ELSE h[n]]
<1>6. g \in [a..m -> S]
  <2>1. h[m - 1] \in S
    BY <1>4, <1>5
  <2> QED BY <1>4, <1>5, <2>1
<1>7. Steps(g, F, x, a, m)
  <2> SUFFICES ASSUME NEW n \in a..m PROVE g[n] = IF n = a THEN x ELSE F[<<n, g[n - 1]>>]
    BY DEF Steps
  <2>1. CASE n = m
    <3>1. g[m] = F[<<m, h[m - 1]>>] /\ g[m - 1] = h[m - 1]
      BY <1>4
    <3> QED BY <1>3, <2>1, <3>1
  <2>2. CASE n # m
    <3>1. n \in a..m - 1 /\ g[n] = h[n] /\ (n # a => g[n - 1] = h[n - 1])
      BY <1>4, <2>2
    <3> QED BY <1>5, <3>1 DEF Steps
  <2> QED BY <2>1, <2>2
<1>8. Good(m)
  BY <1>6, <1>7
<1> QED BY <1>2, <1>8

------------------------------------------------------------------------------
\* What the reader's functions return.
LEMMA WrittenType == ASSUME NEW r \in Reader, NEW data \in Seq(Unit) PROVE Written(r, data) \in Reader
<1> DEFINE top == IF r.index + Len(data) <= Size THEN r.index + Len(data) ELSE Size
           new == [i \in 1..Size |-> IF i \in r.index + 1..top THEN data[i - r.index] ELSE r.cell[i]]
<1>1. /\ r.index \in 0..Size /\ r.cell \in [1..Size -> Unit] /\ Len(data) \in Nat /\ Size \in Nat
      /\ {r.opened, r.armed, r.wild} \subseteq BOOLEAN
  BY ReaderAssumption DEF Reader
<1>2. top \in 0..Size /\ top <= r.index + Len(data)
  BY <1>1
<1>3. new \in [1..Size -> Unit]
  <2> SUFFICES ASSUME NEW i \in 1..Size PROVE new[i] \in Unit
    OBVIOUS
  <2>1. CASE i \in r.index + 1..top
    <3>1. i - r.index \in 1..Len(data)
      BY <1>1, <1>2, <2>1
    <3> QED BY <2>1, <3>1
  <2>2. CASE i \notin r.index + 1..top
    BY <1>1, <2>2
  <2> QED BY <2>1, <2>2
<1>4. Written(r, data) = [r EXCEPT !.cell = new, !.index = top]
  BY DEF Written, Reader
<1> HIDE DEF top, new
<1> QED BY <1>2, <1>3, <1>4 DEF Reader

LEMMA FlushedType == ASSUME NEW r \in Reader PROVE Flushed(r) \in Reader
<1>1. Blank \in [1..Size -> Unit] /\ 0 \in 0..Size
  BY ReaderAssumption DEF Blank, Nul, Unit
<1> QED BY <1>1 DEF Flushed, Reader

LEMMA ReadType == ASSUME NEW r \in Reader, NEW len \in Nat PROVE Read(r, len) \in Reader
<1> DEFINE rest == r.index - len
           new == [i \in 1..Size |-> IF i <= rest THEN r.cell[i + len]
                                     ELSE IF i <= 2 * rest THEN Nul ELSE r.cell[i]]
           wild == r.wild \/ 2 * rest > Size
<1>1. r.index \in 0..Size /\ r.cell \in [1..Size -> Unit] /\ Size \in Nat
  BY ReaderAssumption DEF Reader
<1>2. CASE rest = 0
  BY <1>2, FlushedType DEF Read
<1>3. CASE rest < 0
  BY <1>3, <1>1, FlushedType DEF Read, Reader
<1>4. CASE ~(rest = 0) /\ ~(rest < 0)
  <2>1. rest \in 0..Size
    BY <1>1, <1>4
  <2>2. new \in [1..Size -> Unit]
    <3> SUFFICES ASSUME NEW i \in 1..Size PROVE new[i] \in Unit
      OBVIOUS
    <3>1. i <= rest => i + len \in 1..Size
      BY <1>1
    <3> QED BY <1>1, <3>1 DEF Nul, Unit
  <2>3. Read(r, len) = [r EXCEPT !.cell = new, !.index = rest, !.wild = wild]
    BY <1>1, <1>4 DEF Read, Reader
  <2>4. wild \in BOOLEAN
    OBVIOUS
  <2> HIDE DEF new, rest, wild
  <2> QED BY <2>1, <2>2, <2>3, <2>4 DEF Reader
<1> QED BY <1>2, <1>3, <1>4

LEMMA NewReaderType == NewReader \in Reader /\ NewReader # NoReader
<1>1. Nul \in Unit /\ 0 \in 0..Size
  BY ReaderAssumption DEF Nul, Unit
<1>2. NewReader \in Reader
  BY <1>1 DEF NewReader, Reader, Blank
<1> QED BY <1>2, PairingAssumption

LEMMA WaitingType == ASSUME NEW r \in Reader PROVE Waiting(r) \in Reader
BY DEF Waiting, Reader

LEMMA TextType == ASSUME NEW r \in Reader PROVE Text(r) \in Seq(Unit) /\ Len(Text(r)) \in 0..Size
<1>1. Size \in Nat /\ r.cell \in [1..Size -> Unit]
  BY ReaderAssumption DEF Reader
<1> DEFINE T == {i \in 1..Size : r.cell[i] = Nul}
           first == CHOOSE i \in 1..Size : r.cell[i] = Nul /\ \A j \in 1..i - 1 : r.cell[j] # Nul
           n == IF \E i \in 1..Size : r.cell[i] = Nul THEN first - 1 ELSE Size
<1>2. T # {} => first \in 1..Size
  <2> SUFFICES ASSUME T # {} PROVE \E i \in 1..Size : r.cell[i] = Nul /\ \A j \in 1..i - 1 : r.cell[j] # Nul
    OBVIOUS
  <2>1. T \in SUBSET Nat
    OBVIOUS
  <2>2. PICK i \in T : \A j \in T : i <= j
    <3> HIDE DEF T
    <3> QED BY <2>1, LeastNumber
  <2>3. ASSUME NEW j \in 1..i - 1 PROVE r.cell[j] # Nul
    <3>1. j \in 1..Size /\ ~(i <= j)
      BY <1>1, <2>2, <2>3
    <3> QED BY <2>2, <3>1
  <2> QED BY <2>2, <2>3
<1>3. n \in 0..Size
  BY <1>1, <1>2
<1>4. Text(r) = SubSeq(r.cell, 1, n)
  BY DEF Text
<1>5. r.cell \in Seq(Unit) /\ Len(r.cell) = Size
  BY <1>1
<1> HIDE DEF n
<1> QED BY <1>1, <1>3, <1>4, <1>5

LEMMA IndexOfType == ASSUME NEW r \in Reader, NEW units PROVE IndexOf(r, units) \in 0..Len(Text(r))
<1> DEFINE T == {i \in 1..Len(Text(r)) : Text(r)[i] \in units}
<1>1. Len(Text(r)) \in Nat
  BY TextType
<1>2. T \in SUBSET Nat /\ T \subseteq 1..Len(Text(r))
  BY <1>1
<1>3. IndexOf(r, units) = IF T # {} THEN Min(T) ELSE 0
  BY DEF IndexOf, SelectInSeq
<1> HIDE DEF T
<1>4. CASE T # {}
  <2>1. Min(T) \in T
    BY <1>2, <1>4, LeastType
  <2>2. IndexOf(r, units) = Min(T) /\ Min(T) \in 1..Len(Text(r))
    BY <1>2, <1>3, <1>4, <2>1
  <2> QED BY <1>1, <2>2
<1>5. CASE T = {}
  <2>1. IndexOf(r, units) = 0
    BY <1>3, <1>5
  <2> QED BY <1>1, <2>1
<1> QED BY <1>4, <1>5

LEMMA NumberType == ASSUME NEW u PROVE Number(u) \in Nat
BY DEF Number

CallBack == [r : Reader, len : Int, flag : BOOLEAN]
PassState == [r : Reader, calls : Seq(CallBack), more : BOOLEAN]

LEMMA HttpLengthType == ASSUME NEW r \in Reader PROVE HttpLength(r) \in Nat
<1> DEFINE head == IndexOf(r, {EndOfHead})
           length == IndexOf(r, Lengths)
<1>1. head \in Nat /\ length \in Nat
  BY IndexOfType, TextType
<1>2. Number(r.cell[length]) \in Nat /\ r.index \in Int
  BY NumberType, ReaderAssumption DEF Reader
<1>3. HttpLength(r) = IF length = 0 \/ head < length THEN head
                      ELSE IF Number(r.cell[length]) <= r.index - head
                           THEN Number(r.cell[length]) + head ELSE 0
  BY DEF HttpLength
<1> HIDE DEF head, length
<1> QED BY <1>1, <1>2, <1>3

LEMMA WsLengthType == ASSUME NEW r \in Reader PROVE WsLength(r) \in Nat \cup {-1}
<1>1. \A n \in {2, 3, 4} : Number(r.cell[n]) \in Nat
  BY NumberType
<1> QED BY <1>1 DEF WsLength

LEMMA TimerType ==
    ASSUME NEW r \in Reader, NEW b \in BOOLEAN
    PROVE  [r EXCEPT !.armed = b] \in Reader /\ [r EXCEPT !.armed = b, !.opened = FALSE] \in Reader
BY DEF Reader

LEMMA CalledType ==
    ASSUME NEW calls \in Seq(CallBack), NEW r \in Reader, NEW len \in Int, NEW b \in BOOLEAN
    PROVE  Append(calls, Call(r, len, b)) \in Seq(CallBack)
<1>1. Call(r, len, b) \in CallBack
  BY DEF Call, CallBack
<1> QED BY <1>1

LEMMA HttpPassType == ASSUME NEW s \in PassState PROVE HttpPass(s) \in PassState
<1> DEFINE r == s.r
           len == HttpLength(r)
           calm == [r EXCEPT !.armed = FALSE, !.opened = FALSE]
           taken == Read(calm, len)
           left == [taken EXCEPT !.armed = taken.index > 0]
<1>1. r \in Reader /\ s.calls \in Seq(CallBack) /\ len \in Nat /\ len \in Int /\ Waiting(r) \in Reader
  BY HttpLengthType, WaitingType DEF PassState
<1>2. calm \in Reader
  <2> HIDE DEF r
  <2> QED BY <1>1, TimerType
<1>3. taken \in Reader
  <2> HIDE DEF calm, len
  <2> QED BY <1>1, <1>2, ReadType
<1>4. left \in Reader
  <2>1. (taken.index > 0) \in BOOLEAN
    OBVIOUS
  <2> HIDE DEF taken
  <2> QED BY <1>3, <2>1, TimerType
<1>5. (len <= r.index) \in BOOLEAN
  OBVIOUS
<1>6. Append(s.calls, Call(r, len, TRUE)) \in Seq(CallBack)
  <2> HIDE DEF r, len
  <2> QED BY <1>1, CalledType
<1>7. HttpPass(s) = IF IndexOf(r, {EndOfHead}) = 0 THEN [s EXCEPT !.more = FALSE]
                    ELSE IF len = 0 THEN [s EXCEPT !.r = Waiting(r), !.more = FALSE]
                    ELSE [r |-> left, calls |-> Append(s.calls, Call(r, len, TRUE)), more |-> len <= r.index]
  BY DEF HttpPass
<1> HIDE DEF r, len, calm, taken, left
<1>8. /\ [s EXCEPT !.more = FALSE] \in PassState
      /\ [s EXCEPT !.r = Waiting(r), !.more = FALSE] \in PassState
  BY <1>1 DEF PassState
<1>9. [r |-> left, calls |-> Append(s.calls, Call(r, len, TRUE)), more |-> len <= r.index] \in PassState
  BY <1>4, <1>5, <1>6 DEF PassState
<1> QED BY <1>7, <1>8, <1>9

LEMMA WsPassType == ASSUME NEW s \in PassState PROVE WsPass(s) \in PassState
<1> DEFINE r == s.r
           len == WsLength(r)
           calm == [r EXCEPT !.armed = FALSE, !.opened = FALSE]
           taken == Read(calm, len)
           left == IF taken.index > 0 /\ taken.cell[1] \in {"81", "8a"} THEN Waiting(taken) ELSE taken
<1>1. r \in Reader /\ s.calls \in Seq(CallBack) /\ len \in Nat \cup {-1} /\ Waiting(r) \in Reader /\ Flushed(r) \in Reader
  BY WsLengthType, WaitingType, FlushedType DEF PassState
<1>2. calm \in Reader /\ r.index \in Int
  <2>1. r.index \in Int
    BY <1>1, ReaderAssumption DEF Reader
  <2> HIDE DEF r
  <2> QED BY <1>1, <2>1, TimerType
<1>3. len # -1 => left \in Reader
  <2>1. ASSUME len # -1 PROVE taken \in Reader
    <3>1. len \in Nat
      BY <1>1, <2>1
    <3> HIDE DEF calm, len
    <3> QED BY <1>2, <3>1, ReadType
  <2> HIDE DEF taken
  <2> QED BY <2>1, WaitingType
<1>4. (taken.index > 0) \in BOOLEAN
  OBVIOUS
<1>5. Append(s.calls, Call(r, len, TRUE)) \in Seq(CallBack) /\ Append(s.calls, Call(r, r.index, FALSE)) \in Seq(CallBack)
  <2>1. len \in Int
    BY <1>1
  <2> HIDE DEF r, len
  <2> QED BY <1>1, <1>2, <2>1, CalledType
<1>6. WsPass(s) = IF len = -1 THEN [r |-> Flushed(r), calls |-> Append(s.calls, Call(r, r.index, FALSE)), more |-> FALSE]
                  ELSE IF len = 0 THEN [s EXCEPT !.r = Waiting(r), !.more = FALSE]
                  ELSE [r |-> left, calls |-> Append(s.calls, Call(r, len, TRUE)),
                        more |-> taken.index > 0]
  BY DEF WsPass
<1> HIDE DEF r, len, calm, taken, left
<1>7. [r |-> Flushed(r), calls |-> Append(s.calls, Call(r, r.index, FALSE)), more |-> FALSE] \in PassState
  BY <1>1, <1>5 DEF PassState
<1>8. [s EXCEPT !.r = Waiting(r), !.more = FALSE] \in PassState
  BY <1>1 DEF PassState
<1>9. len # -1 => [r |-> left, calls |-> Append(s.calls, Call(r, len, TRUE)),
                   more |-> taken.index > 0] \in PassState
  BY <1>3, <1>4, <1>5 DEF PassState
<1> QED BY <1>6, <1>7, <1>8, <1>9

\* The passes of the HTTP loop over the buffer r.
HttpRun(after, r) ==
    /\ after \in [0..Size + 1 -> PassState] /\ after[0] = [r |-> r, calls |-> <<>>, more |-> TRUE]
    /\ \A n \in 1..Size + 1 : after[n] = IF after[n - 1].more THEN HttpPass(after[n - 1]) ELSE after[n - 1]

LEMMA HttpLoopRun ==
    ASSUME NEW r \in Reader
    PROVE  \E after : HttpRun(after, r) /\ Loop(HttpPass, r) = after[Size + 1]
<1> DEFINE x == [r |-> r, calls |-> <<>>, more |-> TRUE]
           F == [p \in Nat \X PassState |-> IF p[2].more THEN HttpPass(p[2]) ELSE p[2]]
           Step(f) == [n \in 0..Size + 1 |->
                          LET s == f[n - 1] IN
                          IF n = 0 THEN [r |-> r, calls |-> <<>>, more |-> TRUE]
                          ELSE IF s.more THEN HttpPass(s) ELSE s]
           after == CHOOSE f : f = Step(f)
<1>1. Loop(HttpPass, r) = after[Size + 1]
  BY DEF Loop
<1>2. x \in PassState /\ F \in [Nat \X PassState -> PassState] /\ Size + 1 \in Nat
  BY HttpPassType, ReaderAssumption DEF PassState
<1>3. PICK g \in [0..Size + 1 -> PassState] : Steps(g, F, x, 0, Size + 1)
  <2> HIDE DEF x, F
  <2>1. 0 \in Nat /\ 0 <= Size + 1
    BY <1>2
  <2> QED BY <1>2, <2>1, StepsExist
<1>4. ASSUME NEW n \in 0..Size + 1 PROVE g[n] = Step(g)[n]
  <2>1. CASE n = 0
    BY <1>3, <2>1 DEF Steps
  <2>2. CASE n # 0
    <3>1. n - 1 \in 0..Size + 1 /\ n \in Nat /\ g[n - 1] \in PassState
      BY <1>2, <2>2
    <3>2. g[n] = F[<<n, g[n - 1]>>]
      <4> HIDE DEF F, x
      <4> QED BY <1>3, <2>2 DEF Steps
    <3> QED BY <2>2, <3>1, <3>2
  <2> QED BY <2>1, <2>2
<1>5. g = Step(g)
  <2> HIDE DEF F, x
  <2> QED BY <1>4
<1>6. after = Step(after)
  <2> HIDE DEF Step
  <2> QED BY <1>5
<1>7. after[0] = x /\ \A n \in 1..Size + 1 : after[n] = IF after[n - 1].more THEN HttpPass(after[n - 1]) ELSE after[n - 1]
  <2>1. \A n \in 0..Size + 1 : after[n] = Step(after)[n]
    <3> HIDE DEF after, Step
    <3> QED BY <1>6
  <2>2. 0 \in 0..Size + 1 /\ \A n \in 1..Size + 1 : n \in 0..Size + 1 /\ n # 0
    BY <1>2
  <2>3. after[0] = x
    <3> HIDE DEF after
    <3> QED BY <2>1, <2>2
  <2>4. ASSUME NEW n \in 1..Size + 1
        PROVE  after[n] = IF after[n - 1].more THEN HttpPass(after[n - 1]) ELSE after[n - 1]
    <3> HIDE DEF after
    <3> QED BY <2>1, <2>2
  <2> QED BY <2>3, <2>4
<1>8. \A n \in 0..Size + 1 : after[n] \in PassState
  <2>1. \A n \in 0 + 1..Size + 1 : after[n - 1] \in PassState => after[n] \in PassState
    <3> HIDE DEF after
    <3> QED BY <1>2, <1>7, HttpPassType
  <2> HIDE DEF after, x
  <2>2. 0 \in Nat /\ after[0] \in PassState
    BY <1>2, <1>7
  <2> QED BY <1>2, <2>1, <2>2, Induction
<1>9. after \in [0..Size + 1 -> PassState]
  <2>1. \E Q : after = [n \in 0..Size + 1 |-> Q[n]]
    <3>1. after = [n \in 0..Size + 1 |-> Step(after)[n]]
      BY <1>6
    <3> HIDE DEF after, Step
    <3> QED BY <3>1
  <2> HIDE DEF after
  <2> QED BY <1>8, <2>1
<1> HIDE DEF after
<1> QED BY <1>1, <1>7, <1>9 DEF HttpRun

LEMMA HttpLoopType == ASSUME NEW r \in Reader PROVE Loop(HttpPass, r) \in PassState
<1>1. PICK after : HttpRun(after, r) /\ Loop(HttpPass, r) = after[Size + 1]
  BY HttpLoopRun
<1> QED BY <1>1, ReaderAssumption DEF HttpRun

LEMMA HttpRecvType ==
    ASSUME NEW r \in Reader, NEW data \in Seq(Unit)
    PROVE  Recv(r, "HTTP", data).r \in Reader /\ Recv(r, "HTTP", data).calls \in Seq(CallBack)
<1>1. Written(r, data) \in Reader
  BY WrittenType
<1>2. Loop(HttpPass, Written(r, data)) \in PassState /\ Waiting(Written(r, data)) \in Reader
  BY <1>1, HttpLoopType, WaitingType
<1> DEFINE s == Loop(HttpPass, Written(r, data))
<1>3. Recv(r, "HTTP", data) = IF IndexOf(Written(r, data), {EndOfHead}) = 0
                              THEN [r |-> Waiting(Written(r, data)), calls |-> <<>>]
                              ELSE [r |-> s.r, calls |-> s.calls]
  BY DEF Recv, HttpRecv
<1>4. s.r \in Reader /\ s.calls \in Seq(CallBack)
  BY <1>2 DEF PassState
<1>5. <<>> \in Seq(CallBack)
  OBVIOUS
<1>6. CASE IndexOf(Written(r, data), {EndOfHead}) = 0
  <2>1. Recv(r, "HTTP", data) = [r |-> Waiting(Written(r, data)), calls |-> <<>>]
    BY <1>3, <1>6
  <2>2. Recv(r, "HTTP", data).r = Waiting(Written(r, data)) /\ Recv(r, "HTTP", data).calls = <<>>
    <3>1. \A a, b : [r |-> a, calls |-> b].r = a /\ [r |-> a, calls |-> b].calls = b
      OBVIOUS
    <3> QED BY <2>1, <3>1, Zenon
  <2> QED BY <1>2, <1>5, <2>2, Zenon
<1>7. CASE IndexOf(Written(r, data), {EndOfHead}) # 0
  <2>1. Recv(r, "HTTP", data) = [r |-> s.r, calls |-> s.calls]
    BY <1>3, <1>7
  <2> HIDE DEF s
  <2> QED BY <1>4, <2>1
<1> QED BY <1>6, <1>7

LEMMA ExpiredType ==
    ASSUME NEW r \in Reader
    PROVE  Expired(r).r \in Reader /\ Expired(r).calls \in Seq(CallBack)
<1>1. Flushed(r) \in Reader /\ r.index \in Int
  BY FlushedType, ReaderAssumption DEF Reader
<1>2. Expired(r).r \in Reader
  BY <1>1, TimerType DEF Expired
<1>3. Call(r, r.index, FALSE) \in CallBack
  BY <1>1 DEF Call, CallBack
<1>4. \A c \in CallBack : <<c>> \in Seq(CallBack)
  OBVIOUS
<1> QED BY <1>2, <1>3, <1>4 DEF Expired

\* FlattenSeq joins from the front.
LEMMA FlattenRun ==
    ASSUME NEW S, NEW seqs \in Seq(Seq(S)), seqs # <<>>
    PROVE  \E f : /\ f[1] = seqs[1] /\ FlattenSeq(seqs) = f[Len(seqs)]
                  /\ \A n \in 2..Len(seqs) : f[n] = f[n - 1] \o seqs[n]
<1> DEFINE L == Len(seqs)
           F == [p \in Nat \X Seq(S) |-> IF p[1] \in 1..L THEN p[2] \o seqs[p[1]] ELSE p[2]]
           Step(f) == [i \in 1..L |-> IF i = 1 THEN seqs[i] ELSE f[i - 1] \o seqs[i]]
           flatten == CHOOSE f : f = Step(f)
<1>1. FlattenSeq(seqs) = IF L = 0 THEN seqs ELSE flatten[L]
  BY DEF FlattenSeq
<1>2. L \in Nat /\ L # 0 /\ \A i \in 1..L : seqs[i] \in Seq(S)
  OBVIOUS
<1>3. F \in [Nat \X Seq(S) -> Seq(S)] /\ seqs[1] \in Seq(S) /\ 1 \in Nat /\ 1 <= L
  BY <1>2
<1>4. PICK g \in [1..L -> Seq(S)] : Steps(g, F, seqs[1], 1, L)
  <2> HIDE DEF F, L
  <2> QED BY <1>2, <1>3, StepsExist
<1>5. ASSUME NEW n \in 1..L PROVE g[n] = Step(g)[n]
  <2>1. CASE n = 1
    <3> HIDE DEF F, L
    <3> QED BY <1>4, <2>1 DEF Steps
  <2>2. CASE n # 1
    <3>1. n - 1 \in 1..L /\ n \in Nat /\ g[n - 1] \in Seq(S)
      <4>1. n - 1 \in 1..L /\ n \in Nat
        BY <1>2, <2>2
      <4> HIDE DEF F, L
      <4> QED BY <1>4, <4>1
    <3>2. g[n] = F[<<n, g[n - 1]>>]
      <4> HIDE DEF F
      <4> QED BY <1>4, <2>2 DEF Steps
    <3> HIDE DEF L
    <3> QED BY <2>2, <3>1, <3>2
  <2> QED BY <2>1, <2>2
<1>6. g = Step(g)
  <2> HIDE DEF F, L
  <2> QED BY <1>5
<1>7. flatten = Step(flatten)
  <2> HIDE DEF Step
  <2> QED BY <1>6
<1>8. \A n \in 1..L : flatten[n] = IF n = 1 THEN seqs[n] ELSE flatten[n - 1] \o seqs[n]
  <2>1. \A n \in 1..L : flatten[n] = Step(flatten)[n]
    <3> HIDE DEF flatten, Step
    <3> QED BY <1>7
  <2> HIDE DEF flatten
  <2> QED BY <2>1
<1> HIDE DEF flatten, Step
<1>9. flatten[1] = seqs[1] /\ FlattenSeq(seqs) = flatten[L] /\ \A n \in 2..L : flatten[n] = flatten[n - 1] \o seqs[n]
  <2>1. 1 \in 1..L /\ \A n \in 2..L : n \in 1..L /\ n # 1
    BY <1>2
  <2> HIDE DEF L
  <2> QED BY <1>1, <1>2, <1>8, <2>1
<1> QED BY <1>9, Zenon DEF L

LEMMA FlattenType == ASSUME NEW S, NEW seqs \in Seq(Seq(S)) PROVE FlattenSeq(seqs) \in Seq(S)
<1>1. CASE seqs = <<>>
  <2>1. FlattenSeq(seqs) = seqs /\ <<>> \in Seq(S)
    BY <1>1 DEF FlattenSeq
  <2> QED BY <1>1, <2>1
<1>2. CASE seqs # <<>>
  <2>1. PICK f : /\ f[1] = seqs[1] /\ FlattenSeq(seqs) = f[Len(seqs)]
                 /\ \A n \in 2..Len(seqs) : f[n] = f[n - 1] \o seqs[n]
    BY <1>2, FlattenRun
  <2>2. PICK k \in Nat : k = Len(seqs) /\ k >= 1
    BY <1>2
  <2>3. \A n \in 1..k : seqs[n] \in Seq(S)
    BY <2>2
  <2>4. f[1] \in Seq(S) /\ \A n \in 1 + 1..k : f[n - 1] \in Seq(S) => f[n] \in Seq(S)
    <3>1. f[1] \in Seq(S)
      <4>1. 1 \in 1..k
        BY ONLY <2>2
      <4> QED BY ONLY <2>1, <2>3, <4>1, Zenon
    <3>2. ASSUME NEW n \in 1 + 1..k, f[n - 1] \in Seq(S) PROVE f[n] \in Seq(S)
      <4>1. n \in 2..Len(seqs) /\ n \in 1..k
        BY ONLY <2>2, n \in 1 + 1..k
      <4>2. f[n] = f[n - 1] \o seqs[n] /\ seqs[n] \in Seq(S)
        BY ONLY <2>1, <2>3, <4>1, Zenon
      <4> QED BY ONLY <3>2, <4>2
    <3> QED BY ONLY <3>1, <3>2
  <2>5. \A n \in 1..k : f[n] \in Seq(S)
    BY ONLY <2>2, <2>4, 1 \in Nat, Induction
  <2> QED BY <2>1, <2>2, <2>5
<1> QED BY <1>1, <1>2

LEMMA AnswersType ==
    ASSUME NEW calls \in Seq(CallBack)
    PROVE  FlattenSeq([i \in DOMAIN calls |-> Answer(calls[i])]) \in Seq({"SEND_ID", "RESP"})
<1>1. ASSUME NEW c PROVE Answer(c) \in Seq({"SEND_ID", "RESP"})
  <2>1. {<<"SEND_ID">>, <<"RESP">>, <<>>} \subseteq Seq({"SEND_ID", "RESP"})
    OBVIOUS
  <2>2. Answer(c) \in {<<"SEND_ID">>, <<"RESP">>, <<>>}
    BY Zenon DEF Answer
  <2> QED BY <2>1, <2>2
<1>2. [i \in DOMAIN calls |-> Answer(calls[i])] \in Seq(Seq({"SEND_ID", "RESP"}))
  <2>1. DOMAIN calls = 1..Len(calls) /\ Len(calls) \in Nat
    OBVIOUS
  <2> QED BY <1>1, <2>1
<1> QED BY <1>2, FlattenType

------------------------------------------------------------------------------
(* Pairing: the inductive invariant.  Most of it is about the time before  *)
(* a disturbance and before another handler sets the mode (CalmInv); that  *)
(* who waits for an answer finds the server is about all of the time       *)
(* before a disturbance (AnswerFinds).                                     *)
Enters == {"enter_ap", "enter_touch", "enter_key"}
Searches == {"SC_START", "SC_STOP", "SC_RESTART"}
Changes == {"ENTER_SETTING", "ENTER_SELFAP"}
Has(e) == e \in ToSet(events)
NoSearch == ToSet(events) \cap Searches = {}

\* At most one event of the search and one event that enters a mode wait, and
\* a search that starts too late is handled before the next mode is entered.
OneOfEach(q) ==
    \A j, k \in 1..Len(q) :
        /\ q[j] \in Searches /\ q[k] \in Searches => j = k
        /\ q[j] \in Changes /\ q[k] \in Changes => j = k
        /\ q[j] \in Changes /\ q[k] = "SC_START" => k < j

\* Once it has left, only joining the access point is left to do.
Left == sc = "off" /\ ~Running /\ armed = {} /\ Has("JOIN_AP") /\ ToSet(events) \subseteq Foreign

\* Entering a mode: at work, and never twice.
EnterInv ==
    /\ ToSet(events) \cap Changes # {} => mode = "WORK" /\ \A t \in Enters : due[t] = 0
    /\ \A t, u \in Enters : due[t] > 0 /\ due[u] > 0 => t = u
    /\ \A t \in Enters : due[t] > 0 =>
        /\ mode = "SETTING" => \/ due["exit"] = 0 /\ Has("EXIT_SETTING") /\ due[t] = 4
                               \/ due["exit"] > 0 /\ due[t] = due["exit"] + 1
                               \/ Left /\ due[t] = 2
        /\ mode = "SELFAP" => \/ due["selfap_exit"] = 0 /\ Has("EXIT_SELFAP") /\ due[t] = 4
                              \/ due["selfap_exit"] > 0 /\ due[t] = due["selfap_exit"] + 1

\* At work nothing of pairing is left.
WorkInv ==
    mode = "WORK" =>
        /\ sc = "off" /\ ~Running /\ armed \subseteq {"join_ap"} /\ ~ap
        /\ due["exit"] = 0 /\ due["selfap_exit"] = 0
        /\ ToSet(events) \subseteq {"SC_START", "ENTER_SETTING", "ENTER_SELFAP"} \cup Foreign

\* With its own access point the device serves until the server is stopped.
SelfapInv ==
    mode = "SELFAP" =>
        /\ sc = "off" /\ Running /\ ap /\ due["exit"] = 0
        /\ armed \subseteq {"monitor", "resp"} /\ ("monitor" \in armed <=> due["selfap_exit"] = 0)
        /\ ToSet(events) \subseteq {"EXIT_SELFAP", "SEND_ID", "RESP"} \cup Foreign
        /\ Has("EXIT_SELFAP") => due["selfap_exit"] \in {0, 3}

\* Before the device leaves it is about to search, it serves, or it searches.
Starts == sc = "off" /\ ~Running /\ Has("SC_START") /\ armed \cap {"join", "waiting"} = {}
Serves == sc = "off" /\ Running /\ station /\ NoSearch /\ "monitor" \in armed /\ "join" \notin armed
Looks ==
    /\ sc # "off" /\ ~Running /\ "monitor" \in armed /\ "waiting" \notin armed
    /\ ~Has("SC_START") /\ (Has("SC_STOP") <=> sc = "over")
    /\ Has("SC_RESTART") => sc = "linked" /\ "join" \notin armed
    /\ "join" \in armed => sc \in {"linked", "over"}
    /\ sc = "over" => station

\* While it leaves.
Leaves ==
    /\ sc = "off" /\ armed \cap {"monitor", "join"} = {}
    /\ Has("EXIT_SETTING") \/ Has("SC_RESTART") => due["exit"] = 3
    /\ "waiting" \in armed => Running /\ station /\ NoSearch
    /\ Has("SC_STOP") => station /\ due["exit"] = 3
    /\ Has("SC_START") => due["exit"] = 3 \/ station
    /\ Running => NoSearch

SettingInv ==
    mode = "SETTING" =>
        /\ ~ap /\ due["selfap_exit"] = 0 /\ ~Has("EXIT_SELFAP") /\ "join_ap" \notin armed
        /\ IF due["exit"] > 0 THEN Leaves ELSE Left \/ Starts \/ Serves \/ Looks

\* Who waits for an answer finds the server, and no time passes before it.
OwedInv == Owed => Running /\ {due["exit"], due["selfap_exit"]} \subseteq {0, 3}

CalmInv ==
    /\ ~fault /\ ~leak
    /\ OneOfEach(events) /\ EnterInv /\ WorkInv /\ SelfapInv /\ SettingInv /\ OwedInv

\* Whatever other handlers do to the mode, who waits for an answer finds the
\* server; the attempt to join is over when pairing starts.
AnswerFinds ==
    /\ ~fault /\ (Owed => Running) /\ ("join_ap" \in armed => mode = "WORK")
    /\ due["exit"] = 1 \/ due["selfap_exit"] = 1 => ~Owed

PairingInv ==
    /\ PairingTypeOK
    /\ ~hurry => AnswerFinds
    /\ ~hurry /\ ~ousted => CalmInv

------------------------------------------------------------------------------
(* The queue of the core task.                                             *)
LEMMA SetOf == ASSUME NEW S, NEW q \in Seq(S) PROVE ToSet(q) = {q[j] : j \in 1..Len(q)}
BY DEF ToSet

\* The events that are waiting.
LEMMA QueueTail ==
    ASSUME NEW S, NEW q \in Seq(S), q # <<>>
    PROVE  Tail(q) \in Seq(S) /\ Head(q) \in S /\ ToSet(q) = ToSet(Tail(q)) \cup {Head(q)}
<1>1. /\ Tail(q) \in Seq(S) /\ Len(q) \in Nat \ {0} /\ Len(Tail(q)) = Len(q) - 1
      /\ Head(q) = q[1] /\ Head(q) \in S
      /\ \A j \in 1..Len(Tail(q)) : Tail(q)[j] = q[j + 1]
  OBVIOUS
<1>2. ToSet(q) = {q[j] : j \in 1..Len(q)} /\ ToSet(Tail(q)) = {Tail(q)[j] : j \in 1..Len(Tail(q))}
  BY <1>1, SetOf, ZenonT(30)
<1>3. ASSUME NEW x \in ToSet(q) PROVE x \in ToSet(Tail(q)) \cup {Head(q)}
  <2>1. PICK k \in 1..Len(q) : q[k] = x
    BY <1>2
  <2>2. CASE k # 1
    <3>1. k - 1 \in 1..Len(Tail(q)) /\ Tail(q)[k - 1] = x
      BY <1>1, <2>1, <2>2
    <3> QED BY <1>2, <3>1
  <2> QED BY <1>1, <2>1, <2>2
<1>4. ASSUME NEW x \in ToSet(Tail(q)) \cup {Head(q)} PROVE x \in ToSet(q)
  <2>1. CASE x = Head(q)
    <3>1. 1 \in 1..Len(q)
      BY <1>1
    <3> QED BY <1>1, <1>2, <2>1, <3>1
  <2>2. CASE x \in ToSet(Tail(q))
    <3>1. PICK j \in 1..Len(Tail(q)) : Tail(q)[j] = x
      BY <1>2, <2>2
    <3>2. j + 1 \in 1..Len(q) /\ q[j + 1] = x
      BY <1>1, <3>1
    <3> QED BY <1>2, <3>2
  <2> QED BY <1>4, <2>1, <2>2
<1> QED BY <1>1, <1>3, <1>4

LEMMA QueueBoth ==
    ASSUME NEW S, NEW q \in Seq(S), NEW t \in Seq(S)
    PROVE  q \o t \in Seq(S) /\ ToSet(q \o t) = ToSet(q) \cup ToSet(t) /\ ToSet(t) \subseteq S
<1>1. /\ q \o t \in Seq(S) /\ Len(q \o t) = Len(q) + Len(t) /\ Len(q) \in Nat /\ Len(t) \in Nat
      /\ \A j \in 1..Len(q) : (q \o t)[j] = q[j]
      /\ \A j \in 1..Len(t) : (q \o t)[Len(q) + j] = t[j] /\ t[j] \in S
  OBVIOUS
<1>2. /\ ToSet(q) = {q[j] : j \in 1..Len(q)} /\ ToSet(t) = {t[j] : j \in 1..Len(t)}
      /\ ToSet(q \o t) = {(q \o t)[j] : j \in 1..Len(q \o t)}
  BY <1>1, SetOf
<1>3. ASSUME NEW x \in ToSet(q \o t) PROVE x \in ToSet(q) \cup ToSet(t)
  <2>1. PICK j \in 1..Len(q) + Len(t) : (q \o t)[j] = x
    BY <1>1, <1>2
  <2>2. CASE j <= Len(q)
    <3>1. j \in 1..Len(q)
      BY <1>1, <2>2
    <3> QED BY <1>1, <1>2, <2>1, <3>1
  <2>3. CASE j > Len(q)
    <3>1. j - Len(q) \in 1..Len(t) /\ Len(q) + (j - Len(q)) = j
      BY <1>1, <2>3
    <3>2. t[j - Len(q)] = x
      BY <1>1, <2>1, <3>1
    <3> QED BY <1>2, <3>1, <3>2
  <2> QED BY <1>1, <2>1, <2>2, <2>3
<1>4. ASSUME NEW x \in ToSet(q) \cup ToSet(t) PROVE x \in ToSet(q \o t)
  <2>1. CASE x \in ToSet(q)
    <3>1. PICK j \in 1..Len(q) : q[j] = x
      BY <1>2, <2>1
    <3>2. j \in 1..Len(q \o t) /\ (q \o t)[j] = x
      BY <1>1, <3>1
    <3> QED BY <1>2, <3>2
  <2>2. CASE x \in ToSet(t)
    <3>1. PICK j \in 1..Len(t) : t[j] = x
      BY <1>2, <2>2
    <3>2. Len(q) + j \in 1..Len(q \o t) /\ (q \o t)[Len(q) + j] = x
      BY <1>1, <3>1
    <3> QED BY <1>2, <3>2
  <2> QED BY <1>4, <2>1, <2>2
<1> QED BY <1>1, <1>2, <1>3, <1>4

LEMMA QueueOne == ASSUME NEW x PROVE ToSet(<<x>>) = {x} /\ ToSet(<<>>) = {}
BY DEF ToSet

LEMMA TakenFacts ==
    ASSUME NEW q \in Seq(CoreEvent), q # <<>>, OneOfEach(q)
    PROVE  /\ Tail(q) \in Seq(CoreEvent) /\ OneOfEach(Tail(q))
           /\ Head(q) \in CoreEvent /\ ToSet(q) = ToSet(Tail(q)) \cup {Head(q)}
           /\ Head(q) \in Searches => ToSet(Tail(q)) \cap Searches = {}
           /\ Head(q) \in Changes => ToSet(Tail(q)) \cap (Changes \cup {"SC_START"}) = {}
<1>1. /\ Tail(q) \in Seq(CoreEvent) /\ Len(q) \in Nat \ {0} /\ Len(Tail(q)) = Len(q) - 1
      /\ Head(q) = q[1] /\ Head(q) \in CoreEvent
      /\ \A j \in 1..Len(Tail(q)) : Tail(q)[j] = q[j + 1]
  OBVIOUS
<1>2. OneOfEach(Tail(q))
  <2> SUFFICES ASSUME NEW j \in 1..Len(Tail(q)), NEW k \in 1..Len(Tail(q))
               PROVE  /\ Tail(q)[j] \in Searches /\ Tail(q)[k] \in Searches => j = k
                      /\ Tail(q)[j] \in Changes /\ Tail(q)[k] \in Changes => j = k
                      /\ Tail(q)[j] \in Changes /\ Tail(q)[k] = "SC_START" => k < j
    BY DEF OneOfEach
  <2>1. j + 1 \in 1..Len(q) /\ k + 1 \in 1..Len(q) /\ Tail(q)[j] = q[j + 1] /\ Tail(q)[k] = q[k + 1]
    BY <1>1
  <2> QED BY <2>1 DEF OneOfEach
<1>3. ASSUME NEW x \in ToSet(Tail(q)) PROVE \E j \in 2..Len(q) : q[j] = x
  <2>1. PICK k \in 1..Len(Tail(q)) : Tail(q)[k] = x
    BY <1>1 DEF ToSet
  <2> QED BY <1>1, <2>1
<1>4. ToSet(q) = ToSet(Tail(q)) \cup {Head(q)}
  <2>1. ASSUME NEW x \in ToSet(q) PROVE x \in ToSet(Tail(q)) \cup {Head(q)}
    <3>1. PICK k \in 1..Len(q) : q[k] = x
      BY DEF ToSet
    <3>2. CASE k # 1
      <4>1. k - 1 \in 1..Len(Tail(q)) /\ Tail(q)[k - 1] = x
        BY <1>1, <3>1, <3>2
      <4>2. ToSet(Tail(q)) = {Tail(q)[j] : j \in 1..Len(Tail(q))}
        BY <1>1, SetOf
      <4> QED BY <4>1, <4>2
    <3> QED BY <3>1, <3>2, <1>1
  <2>2. ASSUME NEW x \in ToSet(Tail(q)) \cup {Head(q)} PROVE x \in ToSet(q)
    BY <1>1, <1>3 DEF ToSet
  <2> QED BY <2>1, <2>2
<1>5. ASSUME NEW x \in ToSet(Tail(q))
      PROVE  /\ Head(q) \in Searches => x \notin Searches
             /\ Head(q) \in Changes => x \notin Changes /\ x # "SC_START"
  BY <1>1, <1>3, <1>5 DEF OneOfEach
<1> QED BY <1>1, <1>2, <1>4, <1>5

LEMMA PostedFacts ==
    ASSUME NEW q \in Seq(CoreEvent), NEW e \in CoreEvent, OneOfEach(q),
           e \in Searches => ToSet(q) \cap Searches = {},
           e \in Changes \cup {"SC_START"} => ToSet(q) \cap Changes = {}
    PROVE  /\ Append(q, e) \in Seq(CoreEvent) /\ OneOfEach(Append(q, e))
           /\ ToSet(Append(q, e)) = ToSet(q) \cup {e}
           /\ q \o <<e>> = Append(q, e)
<1>1. /\ Append(q, e) \in Seq(CoreEvent) /\ Len(q) \in Nat /\ Len(Append(q, e)) = Len(q) + 1
      /\ Append(q, e)[Len(q) + 1] = e
      /\ \A j \in 1..Len(q) : Append(q, e)[j] = q[j]
  OBVIOUS
<1>2. \A j \in 1..Len(q) : q[j] \in ToSet(q)
  BY DEF ToSet
<1>3. OneOfEach(Append(q, e))
  <2> SUFFICES ASSUME NEW j \in 1..Len(Append(q, e)), NEW k \in 1..Len(Append(q, e))
               PROVE  /\ Append(q, e)[j] \in Searches /\ Append(q, e)[k] \in Searches => j = k
                      /\ Append(q, e)[j] \in Changes /\ Append(q, e)[k] \in Changes => j = k
                      /\ Append(q, e)[j] \in Changes /\ Append(q, e)[k] = "SC_START" => k < j
    BY DEF OneOfEach
  <2>1. CASE j \in 1..Len(q) /\ k \in 1..Len(q)
    BY <1>1, <2>1 DEF OneOfEach
  <2>2. CASE j = Len(q) + 1 /\ k \in 1..Len(q)
    BY <1>1, <1>2, <2>2 DEF Searches
  <2>3. CASE j \in 1..Len(q) /\ k = Len(q) + 1
    BY <1>1, <1>2, <2>3 DEF Searches
  <2>4. CASE j = Len(q) + 1 /\ k = Len(q) + 1
    BY <1>1, <2>4 DEF Changes
  <2>5. j \in 1..Len(q) + 1 /\ k \in 1..Len(q) + 1
    BY <1>1
  <2> QED BY <1>1, <2>1, <2>2, <2>3, <2>4, <2>5
<1>4. ToSet(Append(q, e)) = ToSet(q) \cup {e}
  <2>1. ToSet(Append(q, e)) = {Append(q, e)[j] : j \in 1..Len(q) + 1}
    BY <1>1 DEF ToSet
  <2>2. ToSet(q) = {q[j] : j \in 1..Len(q)}
    BY DEF ToSet
  <2> QED BY <1>1, <2>1, <2>2
<1> QED BY <1>1, <1>3, <1>4
LEMMA AnsweredFacts ==
    ASSUME NEW q \in Seq(CoreEvent), NEW new \in Seq({"SEND_ID", "RESP"}), OneOfEach(q)
    PROVE  /\ q \o new \in Seq(CoreEvent) /\ OneOfEach(q \o new)
           /\ ToSet(q \o new) = ToSet(q) \cup ToSet(new)
           /\ ToSet(new) \subseteq {"SEND_ID", "RESP"} /\ (new # <<>> <=> ToSet(new) # {})
<1>1. /\ q \o new \in Seq(CoreEvent) /\ Len(q \o new) = Len(q) + Len(new)
      /\ Len(q) \in Nat /\ Len(new) \in Nat
      /\ \A j \in 1..Len(q) : (q \o new)[j] = q[j]
      /\ \A j \in 1..Len(new) : (q \o new)[Len(q) + j] = new[j] /\ new[j] \in {"SEND_ID", "RESP"}
  BY DEF CoreEvent
<1>2. ASSUME NEW j \in Len(q) + 1..Len(q \o new) PROVE (q \o new)[j] \in {"SEND_ID", "RESP"}
  <2>1. j - Len(q) \in 1..Len(new)
    BY <1>1
  <2> QED BY <1>1, <2>1
<1>3. OneOfEach(q \o new)
  <2> SUFFICES ASSUME NEW j \in 1..Len(q \o new), NEW k \in 1..Len(q \o new),
                      (q \o new)[j] \in Searches \cup Changes, (q \o new)[k] \in Searches \cup Changes
               PROVE  /\ (q \o new)[j] \in Searches /\ (q \o new)[k] \in Searches => j = k
                      /\ (q \o new)[j] \in Changes /\ (q \o new)[k] \in Changes => j = k
                      /\ (q \o new)[j] \in Changes /\ (q \o new)[k] = "SC_START" => k < j
    BY DEF OneOfEach, Searches
  <2>1. j \in 1..Len(q) /\ k \in 1..Len(q)
    BY <1>1, <1>2, SMTT(30) DEF Searches, Changes
  <2> QED BY <1>1, <2>1 DEF OneOfEach
<1>4. ToSet(q \o new) = ToSet(q) \cup ToSet(new)
  <2>1. /\ ToSet(q \o new) = {(q \o new)[j] : j \in 1..Len(q \o new)}
        /\ ToSet(q) = {q[j] : j \in 1..Len(q)} /\ ToSet(new) = {new[j] : j \in 1..Len(new)}
    BY <1>1, SetOf, ZenonT(30)
  <2>2. ASSUME NEW x \in ToSet(new) PROVE x \in ToSet(q \o new)
    <3>1. PICK j \in 1..Len(new) : new[j] = x
      BY <2>1
    <3>2. Len(q) + j \in 1..Len(q \o new)
      BY <1>1
    <3> QED BY <1>1, <2>1, <3>1, <3>2
  <2>3. ASSUME NEW x \in ToSet(q \o new), x \notin ToSet(q) PROVE x \in ToSet(new)
    <3>1. PICK j \in 1..Len(q \o new) : (q \o new)[j] = x
      BY <2>1
    <3>2. j \notin 1..Len(q)
      BY <1>1, <2>1, <2>3, <3>1
    <3>3. j - Len(q) \in 1..Len(new) /\ Len(q) + (j - Len(q)) = j
      BY <1>1, <3>2
    <3> QED BY <1>1, <2>1, <3>1, <3>3
  <2>4. ToSet(q) \subseteq ToSet(q \o new)
    BY <1>1, <2>1
  <2> QED BY <2>2, <2>3, <2>4
<1>5. ToSet(new) \subseteq {"SEND_ID", "RESP"} /\ (new # <<>> <=> ToSet(new) # {})
  <2>1. ToSet(new) = {new[j] : j \in 1..Len(new)}
    BY SetOf
  <2>2. ASSUME new # <<>> PROVE new[1] \in ToSet(new)
    BY <2>1, <2>2, <1>1
  <2>3. ToSet(new) # {} => new # <<>>
    BY <2>1
  <2> QED BY <1>1, <2>1, <2>2, <2>3
<1> QED BY <1>1, <1>3, <1>4, <1>5

\* The core task takes an event: what is left, and what it posts.
LEMMA TakesFacts ==
    ASSUME events \in Seq(CoreEvent), OneOfEach(events),
           NEW e, NEW more \in {<<>>, <<"SC_START">>}, Takes(e, more)
    PROVE  \E rest \in SUBSET CoreEvent :
              /\ ToSet(events) = rest \cup {e} /\ e \in CoreEvent
              /\ e \in Searches => rest \cap Searches = {}
              /\ e \in Changes => rest \cap (Changes \cup {"SC_START"}) = {}
              /\ more = <<>> => OneOfEach(events') /\ ToSet(events') = rest
              /\ more = <<"SC_START">> /\ rest \cap (Searches \cup Changes) = {} =>
                     OneOfEach(events') /\ ToSet(events') = rest \cup {"SC_START"}
<1> DEFINE t == Tail(events)
<1>1. /\ t \in Seq(CoreEvent) /\ OneOfEach(t) /\ e \in CoreEvent
      /\ ToSet(events) = ToSet(t) \cup {e}
      /\ e \in Searches => ToSet(t) \cap Searches = {}
      /\ e \in Changes => ToSet(t) \cap (Changes \cup {"SC_START"}) = {}
      /\ events' = t \o more
  BY TakenFacts DEF Takes
<1>2. ToSet(t) \in SUBSET CoreEvent
  BY <1>1, SetOf
<1> HIDE DEF t
<1>3. CASE more = <<>>
  <2>1. events' = t
    BY <1>1, <1>3
  <2> QED BY <1>1, <1>2, <1>3, <2>1
<1>4. CASE more = <<"SC_START">>
  <2>1. "SC_START" \in CoreEvent /\ "SC_START" \in Searches
    BY DEF CoreEvent, Searches
  <2>2. ASSUME ToSet(t) \cap (Searches \cup Changes) = {}
        PROVE  OneOfEach(events') /\ ToSet(events') = ToSet(t) \cup {"SC_START"}
    <3>1. /\ OneOfEach(Append(t, "SC_START")) /\ t \o <<"SC_START">> = Append(t, "SC_START")
          /\ ToSet(Append(t, "SC_START")) = ToSet(t) \cup {"SC_START"}
      <4>1. ToSet(t) \cap Searches = {} /\ ToSet(t) \cap Changes = {}
        BY <2>2
      <4> QED BY <1>1, <2>1, <4>1, PostedFacts
    <3>2. events' = Append(t, "SC_START")
      BY <1>1, <1>4, <3>1
    <3> QED BY <3>1, <3>2
  <2> QED BY <1>1, <1>2, <1>4, <2>2
<1> QED BY <1>3, <1>4

\* It takes the event that the attempt to join failed, and tries again.
LEMMA TakesJoin ==
    ASSUME events \in Seq(CoreEvent), OneOfEach(events), NEW e, Takes(e, <<"JOIN_AP">>)
    PROVE  OneOfEach(events') /\ ToSet(events') \subseteq ToSet(events) \cup {"JOIN_AP"}
<1> DEFINE t == Tail(events)
<1>1. t \in Seq(CoreEvent) /\ OneOfEach(t) /\ ToSet(t) \subseteq ToSet(events) /\ events' = t \o <<"JOIN_AP">>
  BY TakenFacts DEF Takes
<1> HIDE DEF t
<1>2. "JOIN_AP" \in CoreEvent /\ "JOIN_AP" \notin Searches /\ "JOIN_AP" \notin Changes \cup {"SC_START"}
  BY DEF CoreEvent, Foreign, Searches, Changes
<1>3. /\ OneOfEach(Append(t, "JOIN_AP")) /\ t \o <<"JOIN_AP">> = Append(t, "JOIN_AP")
      /\ ToSet(Append(t, "JOIN_AP")) = ToSet(t) \cup {"JOIN_AP"}
  BY <1>1, <1>2, PostedFacts
<1>4. events' = Append(t, "JOIN_AP")
  BY <1>1, <1>3
<1> QED BY <1>1, <1>3, <1>4

\* Another handler, or a package of the server, sets the mode when nothing of
\* pairing is under way.
LEMMA CalmOusts ==
    ASSUME PairingTypeOK, CalmInv, Ousts, ~ousted', UNCHANGED <<due, sc, spro, ap, leak, fault>>,
           armed' \subseteq armed \cup {"join_ap"}, OneOfEach(events'),
           ToSet(events') \subseteq ToSet(events) \cup {"JOIN_AP"}
    PROVE  CalmInv'
<1> USE DEF Short, Has, NoSearch, Owed, Leaving, Running, Searches, Changes, Enters, Foreign
<1>i. /\ mode \in {"WORK", "SETTING", "SELFAP"} /\ due \in [Short -> 0..4] /\ ~fault /\ ~leak
      /\ EnterInv /\ WorkInv /\ SelfapInv /\ SettingInv /\ OwedInv
  BY DEF CalmInv, PairingTypeOK
<1>1. mode' = "WORK" /\ (mode # "WORK" => ~Running /\ sc = "off" /\ ~Leaving /\ NoSearch)
  BY DEF Ousts
<1>2. mode = "WORK" \/ (mode = "SETTING" /\ Left /\ ~ap /\ due["exit"] = 0 /\ due["selfap_exit"] = 0)
  BY <1>i, <1>1 DEF SelfapInv, SettingInv, Starts, Serves, Looks
<1>3. /\ sc = "off" /\ ~Running /\ armed \subseteq {"join_ap"} /\ ~ap
      /\ due["exit"] = 0 /\ due["selfap_exit"] = 0
      /\ ToSet(events) \subseteq {"SC_START", "ENTER_SETTING", "ENTER_SELFAP"} \cup Foreign
  BY <1>i, <1>2 DEF WorkInv, Left
<1>4. EnterInv'
  <2>1. ToSet(events') \cap Changes # {} => \A t \in Enters : due[t] = 0
    BY <1>i DEF EnterInv
  <2>2. \A t, u \in Enters : due[t] > 0 /\ due[u] > 0 => t = u
    BY <1>i DEF EnterInv
  <2> QED BY <1>1, <2>1, <2>2 DEF EnterInv
<1>5. WorkInv' /\ SelfapInv' /\ SettingInv'
  BY <1>1, <1>3 DEF WorkInv, SelfapInv, SettingInv
<1>6. OwedInv'
  BY <1>3 DEF OwedInv
<1> QED BY <1>i, <1>4, <1>5, <1>6 DEF CalmInv

\* Who is about to enter a mode stays so while the timers run on.
LEMMA EnterSame ==
    ASSUME EnterInv, mode' = mode, \A t \in Enters \cup {"exit", "selfap_exit"} : due'[t] = due[t],
           ToSet(events') \cap Changes \subseteq ToSet(events),
           \A e \in {"EXIT_SETTING", "EXIT_SELFAP"} : e \in ToSet(events) => e \in ToSet(events'),
           mode = "SETTING" /\ Left => Left'
    PROVE  EnterInv'
BY DEF EnterInv, Enters, Has

------------------------------------------------------------------------------
LEMMA CalmTask == PairingTypeOK /\ CalmInv /\ ~hurry' /\ ~ousted' /\ Task => CalmInv'
<1>a. SUFFICES ASSUME PairingTypeOK, CalmInv, ~hurry', ~ousted', Task PROVE CalmInv'
  OBVIOUS
<1> USE DEF Short, Has, NoSearch, Owed, Leaving, Running, Searches,
                          Changes, Enters, Foreign, timerVars, settingVars, wifiVars, Arm, Ticks, ServerStart,
                          ServerStop, SmartConfigStop, Disturbed
<1>b. events \in Seq(CoreEvent) /\ OneOfEach(events)
  BY <1>a DEF PairingTypeOK, CalmInv
<1>i. /\ mode \in {"WORK", "SETTING", "SELFAP"} /\ sc \in {"off", "on", "linked", "over"}
      /\ due \in [Short -> 0..4] /\ armed \subseteq Long /\ ~fault /\ ~leak
      /\ EnterInv /\ WorkInv /\ SelfapInv /\ SettingInv /\ OwedInv
  BY <1>a DEF PairingTypeOK, CalmInv
<1>s. \A x, y \in ToSet(events) \cap Searches : x = y
  BY <1>b, SetOf DEF OneOfEach
<1>1. CASE EnterSetting
  <2>1. PICK rest \in SUBSET CoreEvent :
            /\ ToSet(events) = rest \cup {"ENTER_SETTING"} /\ rest \cap (Changes \cup {"SC_START"}) = {}
            /\ (rest \cap (Searches \cup Changes) = {} =>
                   OneOfEach(events') /\ ToSet(events') = rest \cup {"SC_START"})
    BY <1>b, <1>1, TakesFacts DEF EnterSetting
  <2>2. mode = "WORK" /\ rest \subseteq Foreign
    BY <1>i, <2>1 DEF EnterInv, WorkInv
  <2>3. OneOfEach(events') /\ ToSet(events') = rest \cup {"SC_START"}
    BY <2>1, <2>2
  <2>4. EnterInv' /\ WorkInv' /\ SelfapInv' /\ OwedInv'
    BY <1>i, <1>1, <2>1, <2>2, <2>3 DEF EnterSetting, EnterInv, WorkInv, SelfapInv, OwedInv
  <2>5. SettingInv'
    BY <1>i, <1>1, <2>1, <2>2, <2>3 DEF EnterSetting, SettingInv, WorkInv, Left, Starts, Leaves
  <2> QED BY <1>i, <1>1, <2>3, <2>4, <2>5 DEF EnterSetting, CalmInv
<1>2. CASE EnterSelfap
  <2>1. PICK rest \in SUBSET CoreEvent :
            /\ ToSet(events) = rest \cup {"ENTER_SELFAP"} /\ OneOfEach(events') /\ ToSet(events') = rest
            /\ rest \cap (Changes \cup {"SC_START"}) = {}
    BY <1>b, <1>2, TakesFacts DEF EnterSelfap
  <2>2. mode = "WORK" /\ rest \subseteq Foreign /\ ~Running
    BY <1>i, <2>1 DEF EnterInv, WorkInv
  <2>4. EnterInv'
    BY <1>i, <1>2, <2>1, <2>2, NewReaderType DEF EnterSelfap, EnterInv
  <2>5. WorkInv' /\ SelfapInv'
    BY <1>i, <1>2, <2>1, <2>2, NewReaderType DEF EnterSelfap, WorkInv, SelfapInv
  <2>6. SettingInv'
    BY <1>i, <1>2, <2>1, <2>2, NewReaderType DEF EnterSelfap, SettingInv, Left, Starts, Serves, Looks, Leaves
  <2>7. OwedInv'
    BY <1>i, <1>2, <2>1, <2>2, NewReaderType DEF EnterSelfap, OwedInv
  <2>8. ~fault' /\ ~leak'
    BY <1>i, <1>2, <2>2 DEF EnterSelfap
  <2> QED BY <2>1, <2>4, <2>5, <2>6, <2>7, <2>8 DEF CalmInv
<1>3. CASE ExitSetting
  <2>1. PICK rest \in SUBSET CoreEvent :
            /\ ToSet(events) = rest \cup {"EXIT_SETTING"} /\ OneOfEach(events') /\ ToSet(events') = rest
    BY <1>b, <1>3, TakesFacts DEF ExitSetting
  <2>2. mode = "SETTING"
    BY <1>i, <2>1 DEF WorkInv, SelfapInv
  <2>3. ~Left /\ due["exit"] \in {0, 3} /\ (due["exit"] = 3 => Leaves)
        /\ (due["exit"] = 0 => Starts \/ Serves \/ Looks)
    BY <1>i, <2>1, <2>2 DEF SettingInv, Left, Leaves
  <2>c. due'["exit"] = 3 /\ \A t \in Short \ {"exit"} : due'[t] = due[t]
    BY <1>i, <1>3 DEF ExitSetting
  <2>4. EnterInv'
    <3>1. rest \cap Changes = {}
      BY <1>i, <2>1, <2>2 DEF EnterInv
    <3>2. ASSUME NEW t \in Enters, due[t] > 0 PROVE due[t] = 4
      <4>1. due[t] \in 0..4 /\ Has("EXIT_SETTING") /\ ~Left
        BY <1>i, <2>1, <2>3
      <4>2. \/ due["exit"] = 0 /\ due[t] = 4
            \/ due["exit"] > 0 /\ due[t] = due["exit"] + 1
        BY <1>i, <2>2, <3>2, <4>1 DEF EnterInv
      <4> QED BY <2>3, <4>2
    <3>3. mode' = "SETTING"
      BY <1>i, <1>3, <2>2 DEF ExitSetting
    <3> QED BY <1>i, <2>1, <2>c, <3>1, <3>2, <3>3 DEF EnterInv
  <2>5. WorkInv' /\ SelfapInv'
    BY <1>i, <1>3, <2>1, <2>2, <2>3 DEF ExitSetting, WorkInv, SelfapInv
  <2>6. SettingInv'
    <3>1. sc' = "off" /\ armed' \cap {"monitor", "join"} = {} /\ UNCHANGED <<mode, ap, spro, station>>
      BY <1>i, <1>3 DEF ExitSetting
    <3>2. "waiting" \in armed' => "waiting" \in armed
      BY <1>i, <1>3 DEF ExitSetting
    <3>3. /\ "waiting" \in armed => Running /\ station /\ NoSearch
          /\ Has("SC_STOP") => station
          /\ Running => NoSearch
      <4>1. CASE Starts
        BY <1>s, <4>1 DEF Starts
      <4>2. CASE Serves \/ Looks
        BY <4>2 DEF Serves, Looks
      <4>3. CASE Leaves
        BY <4>3 DEF Leaves
      <4> QED BY <2>3, <4>1, <4>2, <4>3
    <3>5. NoSearch => NoSearch'
      BY <2>1
    <3>6. Leaves'
      BY <1>i, <2>1, <2>c, <3>1, <3>2, <3>3, <3>5 DEF Leaves
    <3>7. ap = FALSE /\ due["selfap_exit"] = 0 /\ ~Has("EXIT_SELFAP") /\ "join_ap" \notin armed
      BY <1>i, <2>2 DEF SettingInv
    <3>8. ~ap' /\ due'["selfap_exit"] = 0 /\ ~Has("EXIT_SELFAP")' /\ "join_ap" \notin armed'
      BY <1>3, <2>1, <2>3, <2>c, <3>1, <3>7 DEF ExitSetting
    <3> QED BY <2>c, <3>6, <3>8 DEF SettingInv
  <2>7. OwedInv'
    BY <1>i, <1>3, <2>1, <2>2, <2>3 DEF ExitSetting, OwedInv
  <2>8. ~fault' /\ ~leak'
    BY <1>i, <1>3, <2>2 DEF ExitSetting
  <2> QED BY <2>1, <2>4, <2>5, <2>6, <2>7, <2>8 DEF CalmInv
<1>4. CASE ExitSelfap
  <2>1. PICK rest \in SUBSET CoreEvent :
            /\ ToSet(events) = rest \cup {"EXIT_SELFAP"} /\ OneOfEach(events') /\ ToSet(events') = rest
    BY <1>b, <1>4, TakesFacts DEF ExitSelfap
  <2>2. mode = "SELFAP" /\ due["selfap_exit"] \in {0, 3}
    BY <1>i, <2>1 DEF WorkInv, SelfapInv, SettingInv
  <2>4. EnterInv'
    BY <1>i, <1>4, <2>1, <2>2 DEF ExitSelfap, EnterInv
  <2>5. WorkInv' /\ SelfapInv'
    BY <1>i, <1>4, <2>1, <2>2 DEF ExitSelfap, WorkInv, SelfapInv
  <2>6. SettingInv'
    BY <1>i, <1>4, <2>1, <2>2 DEF ExitSelfap, SettingInv, Left, Starts, Serves, Looks, Leaves
  <2>7. OwedInv'
    BY <1>i, <1>4, <2>1, <2>2 DEF ExitSelfap, OwedInv
  <2>8. ~fault' /\ ~leak'
    BY <1>i, <1>4, <2>2 DEF ExitSelfap
  <2> QED BY <2>1, <2>4, <2>5, <2>6, <2>7, <2>8 DEF CalmInv
<1>5. CASE ScStart
  <2>1. PICK rest \in SUBSET CoreEvent :
            /\ ToSet(events) = rest \cup {"SC_START"} /\ OneOfEach(events') /\ ToSet(events') = rest
            /\ rest \cap Searches = {}
    BY <1>b, <1>5, TakesFacts DEF ScStart
  <2>2. mode = "SETTING" /\ ~Leaving /\ Starts
    BY <1>a, <1>i, <1>5, <2>1 DEF ScStart, SettingInv, Left, Serves, Looks
  <2>4. EnterInv'
    <3>1. ~Left
      BY <2>1, <2>2 DEF Left, Starts
    <3> QED BY <1>i, <1>5, <2>1, <2>2, <3>1, EnterSame DEF ScStart
  <2>5. WorkInv' /\ SelfapInv'
    BY <1>i, <1>5, <2>1, <2>2 DEF ScStart, WorkInv, SelfapInv
  <2>6. SettingInv'
    BY <1>i, <1>5, <2>1, <2>2 DEF ScStart, SettingInv, Left, Starts, Serves, Looks, Leaves
  <2>7. OwedInv'
    BY <1>i, <1>5, <2>1, <2>2 DEF ScStart, OwedInv
  <2>8. ~fault' /\ ~leak'
    BY <1>i, <1>5, <2>2 DEF ScStart
  <2> QED BY <2>1, <2>4, <2>5, <2>6, <2>7, <2>8 DEF CalmInv
<1>6. CASE ScStop
  <2>1. PICK rest \in SUBSET CoreEvent :
            /\ ToSet(events) = rest \cup {"SC_STOP"} /\ OneOfEach(events') /\ ToSet(events') = rest
            /\ rest \cap Searches = {}
    BY <1>b, <1>6, TakesFacts DEF ScStop
  <2>2. mode = "SETTING" /\ ~Running /\ station /\ due["exit"] \in {0, 3}
        /\ (due["exit"] = 0 => Looks)
    BY <1>i, <2>1 DEF WorkInv, SelfapInv, SettingInv, Left, Starts, Serves, Looks, Leaves
  <2>4. EnterInv'
    <3>1. ~Left
      BY <2>1, <2>2 DEF Left
    <3> QED BY <1>i, <1>6, <2>1, <2>2, NewReaderType, <3>1, EnterSame DEF ScStop
  <2>5. WorkInv' /\ SelfapInv'
    BY <1>i, <1>6, <2>1, <2>2, NewReaderType DEF ScStop, WorkInv, SelfapInv
  <2>6. SettingInv'
    BY <1>i, <1>6, <2>1, <2>2, NewReaderType DEF ScStop, SettingInv, Left, Starts, Serves, Looks, Leaves
  <2>7. OwedInv'
    BY <1>i, <1>6, <2>1, <2>2, NewReaderType DEF ScStop, OwedInv
  <2>8. ~fault' /\ ~leak'
    <3>1. fault' = fault /\ leak' = (leak \/ Running)
      BY <1>i, <1>6 DEF ScStop
    <3> QED BY <1>i, <2>2, <3>1
  <2> QED BY <2>1, <2>4, <2>5, <2>6, <2>7, <2>8 DEF CalmInv
<1>7. CASE ScRestart
  <2>1. PICK rest \in SUBSET CoreEvent :
            /\ ToSet(events) = rest \cup {"SC_RESTART"} /\ rest \cap Searches = {}
            /\ (rest \cap (Searches \cup Changes) = {} =>
                   OneOfEach(events') /\ ToSet(events') = rest \cup {"SC_START"})
    BY <1>b, <1>7, TakesFacts DEF ScRestart
  <2>2. mode = "SETTING" /\ ~Running /\ due["exit"] \in {0, 3} /\ rest \cap Changes = {}
        /\ (due["exit"] = 0 => Looks)
    BY <1>i, <2>1 DEF EnterInv, WorkInv, SelfapInv, SettingInv, Left, Starts, Serves, Looks, Leaves
  <2>3. OneOfEach(events') /\ ToSet(events') = rest \cup {"SC_START"}
    <3>1. rest \cap (Searches \cup Changes) = {}
      BY <2>1, <2>2
    <3> QED BY <2>1, <3>1
  <2>4. EnterInv'
    <3>1. ~Left
      BY <2>1, <2>2 DEF Left
    <3> QED BY <1>i, <1>7, <2>1, <2>2, <2>3, <3>1, EnterSame DEF ScRestart
  <2>5. WorkInv' /\ SelfapInv'
    BY <1>i, <1>7, <2>1, <2>2, <2>3 DEF ScRestart, WorkInv, SelfapInv
  <2>6. SettingInv'
    BY <1>i, <1>7, <2>1, <2>2, <2>3 DEF ScRestart, SettingInv, Left, Starts, Serves, Looks, Leaves
  <2>7. OwedInv'
    BY <1>i, <1>7, <2>1, <2>2, <2>3 DEF ScRestart, OwedInv
  <2>8. ~fault' /\ ~leak'
    BY <1>i, <1>7, <2>2, <2>3 DEF ScRestart
  <2> QED BY <2>3, <2>4, <2>5, <2>6, <2>7, <2>8 DEF CalmInv
<1>8. CASE SendId
  <2>1. PICK rest \in SUBSET CoreEvent :
            /\ ToSet(events) = rest \cup {"SEND_ID"} /\ OneOfEach(events') /\ ToSet(events') = rest
    BY <1>b, <1>8, TakesFacts DEF SendId
  <2>2. Running /\ {due["exit"], due["selfap_exit"]} \subseteq {0, 3}
    BY <1>i, <2>1 DEF OwedInv
  <2>4. EnterInv'
    <3>1. ~Left
      BY <2>1, <2>2 DEF Left
    <3> QED BY <1>i, <1>8, <2>1, <2>2, <3>1, EnterSame DEF SendId
  <2>5. WorkInv' /\ SelfapInv'
    BY <1>i, <1>8, <2>1, <2>2 DEF SendId, WorkInv, SelfapInv
  <2>6. SettingInv'
    BY <1>i, <1>8, <2>1, <2>2 DEF SendId, SettingInv, Left, Starts, Serves, Looks, Leaves
  <2>7. OwedInv'
    BY <1>i, <1>8, <2>1, <2>2 DEF SendId, OwedInv
  <2>8. ~fault' /\ ~leak'
    BY <1>i, <1>8, <2>2 DEF SendId
  <2> QED BY <2>1, <2>4, <2>5, <2>6, <2>7, <2>8 DEF CalmInv
<1>9. CASE Resp
  <2>1. PICK rest \in SUBSET CoreEvent :
            /\ ToSet(events) = rest \cup {"RESP"} /\ OneOfEach(events') /\ ToSet(events') = rest
    BY <1>b, <1>9, TakesFacts DEF Resp
  <2>2. Running /\ mode # "WORK" /\ {due["exit"], due["selfap_exit"]} \subseteq {0, 3}
    BY <1>i, <2>1 DEF OwedInv, WorkInv
  <2>4. EnterInv'
    <3>1. ~Left
      BY <2>1, <2>2 DEF Left
    <3> QED BY <1>i, <1>9, <2>1, <2>2, <3>1, EnterSame DEF Resp
  <2>5. WorkInv' /\ SelfapInv'
    BY <1>i, <1>9, <2>1, <2>2 DEF Resp, WorkInv, SelfapInv
  <2>6. SettingInv'
    BY <1>i, <1>9, <2>1, <2>2 DEF Resp, SettingInv, Left, Starts, Serves, Looks, Leaves
  <2>7. OwedInv'
    BY <1>i, <1>9, <2>1, <2>2 DEF Resp, OwedInv
  <2>8. ~fault' /\ ~leak'
    BY <1>i, <1>9, <2>2 DEF Resp
  <2> QED BY <2>1, <2>4, <2>5, <2>6, <2>7, <2>8 DEF CalmInv
<1>10. CASE Others
  <2>1. /\ Ousts /\ armed' \subseteq armed \cup {"join_ap"} /\ UNCHANGED <<due, sc, spro, ap, leak, fault>>
        /\ (\E e : Takes(e, <<>>)) \/ Takes("JOIN_AP_ERR", <<"JOIN_AP">>)
    BY <1>10 DEF Others, JoinAp, JoinApErr, BackToWork
  <2>2. OneOfEach(events') /\ ToSet(events') \subseteq ToSet(events) \cup {"JOIN_AP"}
    <3>1. CASE \E e : Takes(e, <<>>)
      BY <1>b, <3>1, TakesFacts
    <3>2. CASE Takes("JOIN_AP_ERR", <<"JOIN_AP">>)
      BY <1>b, <3>2, TakesJoin
    <3> QED BY <2>1, <3>1, <3>2
  <2> QED BY <1>a, <2>1, <2>2, CalmOusts
<1> QED BY <1>a, <1>1, <1>2, <1>3, <1>4, <1>5, <1>6, <1>7, <1>8, <1>9, <1>10 DEF Task

\* What the proofs about the actions use of the state before them.
LEMMA CalmFacts ==
    ASSUME PairingTypeOK, CalmInv
    PROVE  /\ events \in Seq(CoreEvent) /\ OneOfEach(events)
           /\ mode \in {"WORK", "SETTING", "SELFAP"} /\ sc \in {"off", "on", "linked", "over"}
           /\ due \in [Short -> 0..4] /\ armed \subseteq Long /\ ~fault /\ ~leak
           /\ EnterInv /\ WorkInv /\ SelfapInv /\ SettingInv /\ OwedInv
           /\ \A x, y \in ToSet(events) \cap Searches : x = y
<1>1. \A x, y \in ToSet(events) \cap Searches : x = y
  BY SetOf DEF CalmInv, PairingTypeOK, OneOfEach
<1> QED BY <1>1 DEF CalmInv, PairingTypeOK

LEMMA CalmTick == PairingTypeOK /\ CalmInv /\ Tick => CalmInv'
<1>a. SUFFICES ASSUME PairingTypeOK, CalmInv, Tick PROVE CalmInv'
  OBVIOUS
<1> USE DEF Short, Has, NoSearch, Owed, Running, Searches, Changes, Enters, settingVars, wifiVars
<1>i. /\ mode \in {"WORK", "SETTING", "SELFAP"} /\ due \in [Short -> 0..4] /\ ~fault /\ ~leak
      /\ EnterInv /\ WorkInv /\ SelfapInv /\ SettingInv
  BY <1>a, CalmFacts
<1>1. ToSet(events) = {} /\ events' = events /\ ToSet(events') = {} /\ OneOfEach(events')
  BY <1>a DEF Tick, ToSet, OneOfEach
<1>2. /\ UNCHANGED <<mode, armed, spro, leak, sc, station, ap, fault>> /\ "resp" \notin armed
      /\ \A t \in Short : due[t] # 1 /\ due'[t] = IF due[t] > 0 THEN due[t] - 1 ELSE 0
  BY <1>a DEF Tick
<1>3. \A t \in Short : due[t] \in 0..4 /\ due'[t] \in 0..4 /\ (due'[t] > 0 <=> due[t] > 0)
                       /\ (due[t] > 0 => due'[t] = due[t] - 1)
  BY <1>i, <1>2
<1>4. EnterInv'
  <2>1. ASSUME NEW t \in Enters, due'[t] > 0
        PROVE  /\ mode = "SETTING" => due'["exit"] > 0 /\ due'[t] = due'["exit"] + 1
               /\ mode = "SELFAP" => due'["selfap_exit"] > 0 /\ due'[t] = due'["selfap_exit"] + 1
    <3>1. /\ mode = "SETTING" => due["exit"] > 0 /\ due[t] = due["exit"] + 1
          /\ mode = "SELFAP" => due["selfap_exit"] > 0 /\ due[t] = due["selfap_exit"] + 1
      BY <1>i, <1>1, <1>3, <2>1 DEF EnterInv, Left
    <3> QED BY <1>3, <2>1, <3>1
  <2>2. \A t, u \in Enters : due'[t] > 0 /\ due'[u] > 0 => t = u
    BY <1>i, <1>3 DEF EnterInv
  <2> QED BY <1>1, <1>2, <2>1, <2>2 DEF EnterInv
<1>5. WorkInv' /\ SelfapInv' /\ OwedInv'
  BY <1>i, <1>1, <1>2, <1>3 DEF WorkInv, SelfapInv, OwedInv
<1>6. SettingInv'
  BY <1>i, <1>1, <1>2, <1>3 DEF SettingInv, Left, Starts, Serves, Looks, Leaves
<1> QED BY <1>i, <1>1, <1>2, <1>4, <1>5, <1>6 DEF CalmInv

LEMMA CalmShortTimers == PairingTypeOK /\ CalmInv /\ ShortTimers => CalmInv'
<1>a. SUFFICES ASSUME PairingTypeOK, CalmInv, ShortTimers PROVE CalmInv'
  OBVIOUS
<1> USE DEF Short, Has, NoSearch, Owed, Running, Searches, Changes, Enters, settingVars, wifiVars,
            Fires, Room, ServerStop, Foreign
<1>i. /\ events \in Seq(CoreEvent) /\ OneOfEach(events)
      /\ mode \in {"WORK", "SETTING", "SELFAP"} /\ due \in [Short -> 0..4] /\ armed \subseteq Long
      /\ ~fault /\ ~leak
      /\ EnterInv /\ WorkInv /\ SelfapInv /\ SettingInv /\ OwedInv
  BY <1>a, CalmFacts
<1>q. ToSet(events) \subseteq CoreEvent
  BY <1>i, SetOf
<1>1. CASE SetExit
  <2>1. mode = "SETTING" /\ due["exit"] = 1 /\ Leaves /\ ~ap /\ due["selfap_exit"] = 0
    BY <1>i, <1>1 DEF SetExit, WorkInv, SelfapInv, SettingInv
  <2>2. ToSet(events) \subseteq {"SC_START"} \cup Foreign /\ armed \subseteq {"waiting"} /\ (Has("SC_START") => station)
    BY <1>i, <1>q, <2>1 DEF Leaves, OwedInv, EnterInv, SettingInv, CoreEvent, Long
  <2>3. \A t \in Enters : due[t] > 0 => due[t] = 2
    BY <1>i, <2>1, <2>2 DEF EnterInv
  <2>4. /\ due' = [due EXCEPT !["exit"] = 0] /\ armed' = {} /\ ~Running'
        /\ UNCHANGED <<leak, sc, station, ap, fault>>
    BY <1>1, <2>2 DEF SetExit
  <2>5. CASE station
    <3>1. mode' = "WORK" /\ events' = events
      BY <1>1, <2>5 DEF SetExit
    <3>2. EnterInv'
      BY <1>i, <2>2, <2>3, <2>4, <3>1 DEF EnterInv
    <3>3. WorkInv' /\ SelfapInv' /\ SettingInv' /\ OwedInv'
      BY <1>i, <2>1, <2>2, <2>4, <3>1 DEF WorkInv, SelfapInv, SettingInv, OwedInv, Leaves
    <3> QED BY <1>i, <2>4, <3>1, <3>2, <3>3 DEF CalmInv
  <2>6. CASE ~station
    <3>1. ToSet(events) \subseteq Foreign /\ events' = Append(events, "JOIN_AP") /\ mode' = mode
      BY <1>1, <2>2, <2>6 DEF SetExit, Post
    <3>2. OneOfEach(events') /\ ToSet(events') = ToSet(events) \cup {"JOIN_AP"}
      BY <1>i, <3>1, PostedFacts DEF CoreEvent
    <3>l. Left'
      BY <2>1, <2>4, <3>1, <3>2 DEF Leaves, Left
    <3>3. EnterInv'
      BY <1>i, <2>1, <2>3, <2>4, <3>1, <3>2, <3>l DEF EnterInv
    <3>4. WorkInv' /\ SelfapInv' /\ SettingInv' /\ OwedInv'
      BY <1>i, <2>1, <2>4, <3>1, <3>2 DEF WorkInv, SelfapInv, SettingInv, OwedInv, Left, Leaves
    <3> QED BY <1>i, <2>4, <3>2, <3>3, <3>4 DEF CalmInv
  <2> QED BY <2>5, <2>6
<1>2. CASE SetSelfapExit
  <2>1. mode = "SELFAP" /\ due["selfap_exit"] = 1 /\ due["exit"] = 0
    BY <1>i, <1>2 DEF SetSelfapExit, WorkInv, SelfapInv, SettingInv
  <2>2. ToSet(events) \subseteq Foreign /\ armed = {} /\ sc = "off"
    BY <1>i, <1>q, <2>1 DEF SelfapInv, OwedInv
  <2>3. ToSet(events) \cap Changes = {} /\ \A t, u \in Enters : due[t] > 0 /\ due[u] > 0 => t = u
    BY <1>i, <2>1, <2>2 DEF EnterInv
  <2>4. /\ due' = [due EXCEPT !["selfap_exit"] = 0] /\ armed' = {} /\ ~Running' /\ ~ap'
        /\ mode' = "WORK" /\ events' = Append(events, "JOIN_AP") /\ UNCHANGED <<leak, sc, station, fault>>
    BY <1>2, <2>2 DEF SetSelfapExit, Post
  <2>5. OneOfEach(events') /\ ToSet(events') = ToSet(events) \cup {"JOIN_AP"}
    BY <1>i, <2>2, <2>4, PostedFacts DEF CoreEvent
  <2>6. EnterInv'
    BY <1>i, <2>3, <2>4, <2>5 DEF EnterInv
  <2>7. WorkInv' /\ SelfapInv' /\ SettingInv' /\ OwedInv'
    BY <1>i, <2>1, <2>2, <2>4, <2>5 DEF WorkInv, SelfapInv, SettingInv, OwedInv
  <2> QED BY <1>i, <2>4, <2>5, <2>6, <2>7 DEF CalmInv
<1>3. CASE Enter
  <2>1. PICK t \in Enters, e \in Changes :
            /\ due[t] = 1 /\ due' = [due EXCEPT ![t] = 0] /\ events' = Append(events, e)
            /\ UNCHANGED <<mode, armed, spro, leak, sc, station, ap, fault>>
    BY <1>3 DEF Enter, Post
  <2>2. mode = "WORK"
    BY <1>i, <2>1 DEF EnterInv
  <2>3. ToSet(events) \cap Changes = {} /\ \A u \in Enters : due'[u] = 0
    BY <1>i, <2>1 DEF EnterInv
  <2>4. OneOfEach(events') /\ ToSet(events') = ToSet(events) \cup {e}
    <3>1. e \in CoreEvent /\ e \notin Searches
      BY <2>1 DEF CoreEvent
    <3> QED BY <1>i, <2>1, <2>3, <3>1, PostedFacts
  <2>5. EnterInv'
    BY <1>i, <2>1, <2>2, <2>3, <2>4 DEF EnterInv
  <2>6. WorkInv' /\ SelfapInv' /\ SettingInv' /\ OwedInv'
    BY <1>i, <2>1, <2>2, <2>4 DEF WorkInv, SelfapInv, SettingInv, OwedInv
  <2> QED BY <1>i, <2>1, <2>4, <2>5, <2>6 DEF CalmInv
<1>4. CASE StartTCPListen
  <2>1. /\ due' = [due EXCEPT !["listen"] = 0]
        /\ UNCHANGED <<mode, events, armed, spro, leak, sc, station, ap, fault>>
    BY <1>4 DEF StartTCPListen
  <2>2. EnterInv'
    BY <1>i, <2>1, EnterSame DEF Left
  <2>3. WorkInv' /\ SelfapInv' /\ OwedInv'
    BY <1>i, <2>1 DEF WorkInv, SelfapInv, OwedInv
  <2>4. SettingInv'
    BY <1>i, <2>1 DEF SettingInv, Left, Starts, Serves, Looks, Leaves
  <2> QED BY <1>i, <2>1, <2>2, <2>3, <2>4 DEF CalmInv
<1> QED BY <1>a, <1>1, <1>2, <1>3, <1>4 DEF ShortTimers

\* The event that leaves the mode joins the queue.
LEMMA ExitPosted ==
    ASSUME PairingTypeOK, CalmInv, mode # "WORK", events' = events \o Exit
    PROVE  /\ OneOfEach(events')
           /\ ToSet(events') = ToSet(events) \cup {IF mode = "SETTING" THEN "EXIT_SETTING" ELSE "EXIT_SELFAP"}
<1>i. events \in Seq(CoreEvent) /\ OneOfEach(events) /\ mode \in {"SETTING", "SELFAP"}
  BY CalmFacts
<1>1. PICK e \in {"EXIT_SETTING", "EXIT_SELFAP"} :
         e = (IF mode = "SETTING" THEN "EXIT_SETTING" ELSE "EXIT_SELFAP") /\ events' = events \o <<e>>
  BY <1>i DEF Exit
<1>2. e \in CoreEvent /\ e \notin Searches /\ e \notin Changes \cup {"SC_START"}
  BY <1>1 DEF CoreEvent, Searches, Changes
<1>3. /\ OneOfEach(Append(events, e)) /\ ToSet(Append(events, e)) = ToSet(events) \cup {e}
      /\ events \o <<e>> = Append(events, e)
  BY <1>i, <1>2, PostedFacts
<1> QED BY <1>1, <1>3

LEMMA CalmTimeout == PairingTypeOK /\ CalmInv /\ TimeoutListener => CalmInv'
<1>a. SUFFICES ASSUME PairingTypeOK, CalmInv, TimeoutListener PROVE CalmInv'
  OBVIOUS
<1> USE DEF Short, Has, NoSearch, Owed, Running, Searches, Changes, Enters, settingVars, wifiVars
<1>i. /\ mode \in {"WORK", "SETTING", "SELFAP"} /\ due \in [Short -> 0..4] /\ ~fault /\ ~leak
      /\ OneOfEach(events) /\ EnterInv /\ WorkInv /\ SelfapInv /\ SettingInv /\ OwedInv
  BY <1>a, CalmFacts
<1>1. /\ "monitor" \in armed /\ UNCHANGED <<mode, due, armed, spro, leak, sc, station, ap, fault>>
      /\ events' = events \/ events' = events \o Exit
  BY <1>a DEF TimeoutListener, Expires
<1>2. mode # "WORK" /\ due["exit"] = 0 /\ due["selfap_exit"] = 0 /\ ~Left
  BY <1>i, <1>1 DEF WorkInv, SelfapInv, SettingInv, Leaves, Left
<1>3. /\ OneOfEach(events')
      /\ \/ ToSet(events') = ToSet(events)
         \/ ToSet(events') = ToSet(events) \cup {IF mode = "SETTING" THEN "EXIT_SETTING" ELSE "EXIT_SELFAP"}
  BY <1>a, <1>i, <1>1, <1>2, ExitPosted
<1>4. EnterInv'
  BY <1>i, <1>1, <1>2, <1>3 DEF EnterInv
<1>5. WorkInv' /\ SelfapInv' /\ OwedInv'
  BY <1>i, <1>1, <1>2, <1>3 DEF WorkInv, SelfapInv, OwedInv
<1>6. SettingInv'
  BY <1>i, <1>1, <1>2, <1>3 DEF SettingInv, Left, Starts, Serves, Looks
<1> QED BY <1>i, <1>1, <1>3, <1>4, <1>5, <1>6 DEF CalmInv

LEMMA CalmDelayResp == PairingTypeOK /\ CalmInv /\ DelayResp => CalmInv'
<1>a. SUFFICES ASSUME PairingTypeOK, CalmInv, DelayResp PROVE CalmInv'
  OBVIOUS
<1> USE DEF Short, Has, NoSearch, Owed, Running, Searches, Changes, Enters, settingVars, wifiVars
<1>i. /\ mode \in {"WORK", "SETTING", "SELFAP"} /\ due \in [Short -> 0..4] /\ ~leak
      /\ OneOfEach(events) /\ EnterInv /\ WorkInv /\ SelfapInv /\ SettingInv /\ OwedInv
  BY <1>a, CalmFacts
<1>1. /\ "resp" \in armed /\ armed' = armed \ {"resp"} /\ events' = events \o Exit
      /\ fault' = ~Running /\ UNCHANGED <<mode, due, spro, leak, sc, station, ap>>
  BY <1>a DEF DelayResp, Expires
<1>2. Running /\ mode # "WORK" /\ due["exit"] \in {0, 3} /\ due["selfap_exit"] \in {0, 3} /\ ~Left
  BY <1>i, <1>1 DEF WorkInv, OwedInv, Left
<1>3. /\ OneOfEach(events')
      /\ ToSet(events') = ToSet(events) \cup {IF mode = "SETTING" THEN "EXIT_SETTING" ELSE "EXIT_SELFAP"}
  BY <1>a, <1>1, <1>2, ExitPosted
<1>4. EnterInv'
  BY <1>i, <1>1, <1>2, <1>3 DEF EnterInv
<1>5. WorkInv' /\ SelfapInv' /\ OwedInv'
  BY <1>i, <1>1, <1>2, <1>3 DEF WorkInv, SelfapInv, OwedInv
<1>6. SettingInv'
  BY <1>i, <1>1, <1>2, <1>3 DEF SettingInv, Left, Starts, Serves, Looks, Leaves
<1> QED BY <1>i, <1>1, <1>2, <1>3, <1>4, <1>5, <1>6 DEF CalmInv

LEMMA CalmWaitingClient == PairingTypeOK /\ CalmInv /\ ~hurry' /\ WaitingClient => CalmInv'
<1>a. SUFFICES ASSUME PairingTypeOK, CalmInv, ~hurry', WaitingClient PROVE CalmInv'
  OBVIOUS
<1> USE DEF Short, Has, NoSearch, Running, Searches, Changes, Enters, settingVars, wifiVars
<1>i. /\ mode \in {"WORK", "SETTING", "SELFAP"} /\ due \in [Short -> 0..4] /\ ~fault /\ ~leak
      /\ events \in Seq(CoreEvent) /\ OneOfEach(events)
      /\ EnterInv /\ WorkInv /\ SelfapInv /\ SettingInv /\ OwedInv
  BY <1>a, CalmFacts
<1>1. /\ "waiting" \in armed /\ armed' = armed \ {"waiting"} /\ ~Running' /\ ~Owed
      /\ events' = Append(events, "SC_START") /\ UNCHANGED <<mode, due, leak, sc, station, ap, fault>>
  BY <1>a DEF WaitingClient, Expires, ServerStop, Post, Disturbed
<1>2. mode = "SETTING" /\ (due["exit"] = 0 => Serves) /\ (due["exit"] > 0 => Leaves)
  BY <1>i, <1>1 DEF WorkInv, SelfapInv, SettingInv, Left, Starts, Looks
<1>3. NoSearch /\ ToSet(events) \cap Changes = {} /\ sc = "off" /\ station
  BY <1>i, <1>1, <1>2 DEF EnterInv, Serves, Leaves
<1>4. OneOfEach(events') /\ ToSet(events') = ToSet(events) \cup {"SC_START"}
  BY <1>i, <1>1, <1>3, PostedFacts DEF CoreEvent
<1>5. EnterInv'
  <2>1. ~Left
    BY <1>1 DEF Left
  <2> QED BY <1>i, <1>1, <1>2, <1>3, <1>4, <2>1, EnterSame
<1>6. WorkInv' /\ SelfapInv' /\ OwedInv'
  BY <1>1, <1>2, <1>4 DEF WorkInv, SelfapInv, OwedInv, Owed
<1>7. SettingInv'
  BY <1>i, <1>1, <1>2, <1>3, <1>4 DEF SettingInv, Starts, Serves, Leaves
<1> QED BY <1>i, <1>1, <1>4, <1>5, <1>6, <1>7 DEF CalmInv

LEMMA CalmJoinTimer == PairingTypeOK /\ CalmInv /\ JoinTimer => CalmInv'
<1>a. SUFFICES ASSUME PairingTypeOK, CalmInv, JoinTimer PROVE CalmInv'
  OBVIOUS
<1> USE DEF Short, Has, NoSearch, Owed, Running, Searches, Changes, Enters, settingVars, wifiVars
<1>i. /\ mode \in {"WORK", "SETTING", "SELFAP"} /\ due \in [Short -> 0..4] /\ ~fault /\ ~leak
      /\ events \in Seq(CoreEvent) /\ OneOfEach(events)
      /\ EnterInv /\ WorkInv /\ SelfapInv /\ SettingInv /\ OwedInv
  BY <1>a, CalmFacts
<1>1. /\ "join" \in armed /\ armed' = armed \ {"join"}
      /\ events' = IF sc # "over" /\ mode = "SETTING" THEN Append(events, "SC_RESTART") ELSE events
      /\ UNCHANGED <<mode, due, spro, leak, sc, station, ap, fault>>
  BY <1>a DEF JoinTimer, Expires, Post
<1>2. mode = "SETTING" /\ due["exit"] = 0 /\ Looks /\ ~Has("SC_RESTART")
  BY <1>i, <1>1 DEF WorkInv, SelfapInv, SettingInv, Left, Starts, Serves, Looks, Leaves
<1>3. /\ OneOfEach(events')
      /\ ToSet(events') = IF sc = "over" THEN ToSet(events) ELSE ToSet(events) \cup {"SC_RESTART"}
  <2>1. CASE sc = "over"
    BY <1>i, <1>1, <2>1
  <2>2. CASE sc # "over"
    <3>1. NoSearch /\ events' = Append(events, "SC_RESTART")
      BY <1>1, <1>2, <2>2 DEF Looks
    <3> QED BY <1>i, <2>2, <3>1, PostedFacts DEF CoreEvent
  <2> QED BY <2>1, <2>2
<1>4. EnterInv'
  <2>1. ~Left
    BY <1>1 DEF Left
  <2> QED BY <1>i, <1>1, <1>2, <1>3, <2>1, EnterSame
<1>5. WorkInv' /\ SelfapInv' /\ OwedInv'
  BY <1>i, <1>1, <1>2, <1>3 DEF WorkInv, SelfapInv, OwedInv
<1>6. SettingInv'
  BY <1>i, <1>1, <1>2, <1>3 DEF SettingInv, Looks
<1> QED BY <1>i, <1>1, <1>3, <1>4, <1>5, <1>6 DEF CalmInv

------------------------------------------------------------------------------
LEMMA CalmSearch == PairingTypeOK /\ CalmInv /\ ~hurry' /\ (ScLink \/ StationUp \/ ScLinkOver) => CalmInv'
<1>a. SUFFICES ASSUME PairingTypeOK, CalmInv, ~hurry', ScLink \/ StationUp \/ ScLinkOver PROVE CalmInv'
  OBVIOUS
<1> USE DEF Short, Has, NoSearch, Owed, Running, Searches, Changes, Enters, settingVars, wifiVars, timerVars
<1>i. /\ mode \in {"WORK", "SETTING", "SELFAP"} /\ due \in [Short -> 0..4] /\ ~fault /\ ~leak
      /\ events \in Seq(CoreEvent) /\ OneOfEach(events)
      /\ EnterInv /\ WorkInv /\ SelfapInv /\ SettingInv /\ OwedInv
  BY <1>a, CalmFacts
<1>1. sc # "off" /\ mode = "SETTING" /\ due["exit"] = 0 /\ Looks
  <2>1. sc # "off"
    BY <1>a DEF ScLink, StationUp, ScLinkOver
  <2> QED BY <1>i, <2>1 DEF WorkInv, SelfapInv, SettingInv, Left, Starts, Serves, Leaves
<1>l. ~Left
  BY <1>1 DEF Left
<1>2. CASE ScLink
  <2>1. /\ sc = "on" /\ sc' = "linked" /\ armed' = armed \cup {"join"}
        /\ UNCHANGED <<mode, events, due, spro, leak, ap, fault>>
    BY <1>2 DEF ScLink
  <2>2. EnterInv' /\ WorkInv' /\ SelfapInv' /\ OwedInv'
    BY <1>i, <1>1, <1>l, <2>1, EnterSame DEF WorkInv, SelfapInv, OwedInv
  <2>3. SettingInv'
    BY <1>i, <1>1, <2>1 DEF SettingInv, Looks
  <2> QED BY <1>i, <2>1, <2>2, <2>3 DEF CalmInv
<1>3. CASE StationUp
  <2>1. sc = "linked" /\ station' = TRUE /\ UNCHANGED <<mode, events, due, armed, spro, leak, sc, ap, fault>>
    BY <1>3 DEF StationUp
  <2>2. EnterInv' /\ WorkInv' /\ SelfapInv' /\ OwedInv'
    BY <1>i, <1>1, <1>l, <2>1, EnterSame DEF WorkInv, SelfapInv, OwedInv
  <2>3. SettingInv'
    BY <1>i, <1>1, <2>1 DEF SettingInv, Looks
  <2> QED BY <1>i, <2>1, <2>2, <2>3 DEF CalmInv
<1>4. CASE ScLinkOver
  <2>1. /\ sc = "linked" /\ sc' = "over" /\ station /\ events' = Append(events, "SC_STOP") /\ ~Has("SC_RESTART")
        /\ UNCHANGED <<mode, due, armed, spro, leak, station, ap, fault>>
    BY <1>a, <1>4 DEF ScLinkOver, Post, Disturbed
  <2>2. NoSearch
    BY <1>1, <2>1 DEF Looks
  <2>3. OneOfEach(events') /\ ToSet(events') = ToSet(events) \cup {"SC_STOP"}
    BY <1>i, <2>1, <2>2, PostedFacts DEF CoreEvent
  <2>4. EnterInv' /\ WorkInv' /\ SelfapInv' /\ OwedInv'
    BY <1>i, <1>1, <1>l, <2>1, <2>3, EnterSame DEF WorkInv, SelfapInv, OwedInv
  <2>5. SettingInv'
    BY <1>i, <1>1, <2>1, <2>2, <2>3 DEF SettingInv, Looks
  <2> QED BY <1>i, <2>1, <2>3, <2>4, <2>5 DEF CalmInv
<1> QED BY <1>a, <1>2, <1>3, <1>4

\* Answers that a segment leads to.
LEMMA CalmAnswers ==
    ASSUME PairingTypeOK, CalmInv, ~hurry', Running, Running',
           NEW new \in Seq({"SEND_ID", "RESP"}), events' = events \o new, new # <<>> => ~Changing,
           UNCHANGED <<mode, due, armed, leak, sc, station, ap, fault>>
    PROVE  CalmInv'
<1> USE DEF Short, Has, NoSearch, Owed, Searches, Changes, Enters
<1>i. /\ mode \in {"WORK", "SETTING", "SELFAP"} /\ due \in [Short -> 0..4] /\ ~fault /\ ~leak
      /\ events \in Seq(CoreEvent) /\ OneOfEach(events)
      /\ EnterInv /\ WorkInv /\ SelfapInv /\ SettingInv /\ OwedInv
  BY CalmFacts
<1>1. /\ OneOfEach(events') /\ ToSet(events') = ToSet(events) \cup ToSet(new)
      /\ ToSet(new) \subseteq {"SEND_ID", "RESP"} /\ (new # <<>> <=> ToSet(new) # {})
  BY <1>i, AnsweredFacts
<1>2. mode # "WORK" /\ ~Left
  BY <1>i DEF WorkInv, Left
<1>3. EnterInv'
  BY <1>i, <1>1, <1>2, EnterSame
<1>4. WorkInv' /\ SelfapInv'
  BY <1>i, <1>1, <1>2 DEF WorkInv, SelfapInv, Running
<1>5. OwedInv'
  BY <1>i, <1>1 DEF OwedInv, Changing, Leaving, Running
<1>6. SettingInv'
  BY <1>i, <1>1, <1>2 DEF SettingInv, Left, Starts, Serves, Looks, Leaves, Running
<1> QED BY <1>i, <1>1, <1>3, <1>4, <1>5, <1>6 DEF CalmInv

LEMMA CalmAsks == PairingTypeOK /\ CalmInv /\ ~hurry' /\ Asks => CalmInv'
<1>a. SUFFICES ASSUME PairingTypeOK, CalmInv, ~hurry', Asks PROVE CalmInv'
  OBVIOUS
<1> USE DEF Short, Has, NoSearch, Owed, Running, Searches, Changes, Enters, settingVars, wifiVars
<1>i. /\ mode \in {"WORK", "SETTING", "SELFAP"} /\ due \in [Short -> 0..4] /\ ~fault /\ ~leak
      /\ events \in Seq(CoreEvent) /\ OneOfEach(events)
      /\ EnterInv /\ WorkInv /\ SelfapInv /\ SettingInv /\ OwedInv
  BY <1>a, CalmFacts
<1>1. ~Changing /\ UNCHANGED <<mode, armed, spro, leak, sc, station, ap, fault>>
  BY <1>a DEF Asks, Disturbed
<1>2. /\ due["exit"] = 0 /\ due["selfap_exit"] = 0 /\ \A t \in Enters : due[t] = 0
      /\ ToSet(events) \cap Changes = {} /\ (mode = "SETTING" => ~Left)
  <2>1. \A t \in Short : due[t] \in 0..4
    BY <1>i
  <2> QED BY <1>1, <2>1 DEF Changing, Leaving, Left
<1>3. CASE mode = "WORK"
  <2>1. PICK e \in Changes : events' = Append(events, e) /\ due' = due
    BY <1>a, <1>3 DEF Asks, LongPress, ShortPress, McuAp, McuTouch, Post
  <2>2. e \in CoreEvent /\ e \notin Searches
    BY <2>1 DEF CoreEvent
  <2>3. OneOfEach(events') /\ ToSet(events') = ToSet(events) \cup {e}
    BY <1>i, <1>2, <2>1, <2>2, PostedFacts
  <2>4. EnterInv'
    BY <1>i, <1>1, <1>2, <1>3, <2>1, <2>3 DEF EnterInv
  <2>5. WorkInv' /\ SelfapInv' /\ SettingInv' /\ OwedInv'
    BY <1>i, <1>1, <1>2, <1>3, <2>1, <2>3 DEF WorkInv, SelfapInv, SettingInv, OwedInv
  <2> QED BY <1>i, <1>1, <2>3, <2>4, <2>5 DEF CalmInv
<1>4. CASE mode # "WORK"
  <2>1. /\ events' = events \o Exit
        /\ due' = due \/ \E t \in Enters : due' = [due EXCEPT ![t] = 4]
    <3>1. mode = "SETTING" => Exit = <<"EXIT_SETTING">> /\ Append(events, "EXIT_SETTING") = events \o Exit
      BY <1>i DEF Exit
    <3>2. mode = "SELFAP" => Exit = <<"EXIT_SELFAP">> /\ Append(events, "EXIT_SELFAP") = events \o Exit
      BY <1>i DEF Exit
    <3>3. LongPress \/ ShortPress \/ McuAp \/ McuTouch
      BY <1>a DEF Asks
    <3>4. \A t \in Enters : Arm(due, t) = [due EXCEPT ![t] = 4]
      <4> SUFFICES ASSUME NEW t \in Enters PROVE Arm(due, t) = [due EXCEPT ![t] = 4]
        OBVIOUS
      <4>1. Ticks(t) = 3
        BY DEF Ticks
      <4> QED BY <4>1 DEF Arm
    <3>5. ASSUME mode = "SETTING" PROVE events' = events \o Exit /\ (due' = due \/ \E t \in Enters : due' = Arm(due, t))
      BY <3>1, <3>3, <3>5 DEF LongPress, ShortPress, McuAp, McuTouch, Post
    <3>6. ASSUME mode = "SELFAP" PROVE events' = events \o Exit /\ (due' = due \/ \E t \in Enters : due' = Arm(due, t))
      BY <3>2, <3>3, <3>6 DEF LongPress, ShortPress, McuAp, McuTouch, Post
    <3>7. mode = "SETTING" \/ mode = "SELFAP"
      BY <1>i, <1>4
    <3> QED BY <3>4, <3>5, <3>6, <3>7
  <2>2. /\ OneOfEach(events')
        /\ ToSet(events') = ToSet(events) \cup {IF mode = "SETTING" THEN "EXIT_SETTING" ELSE "EXIT_SELFAP"}
    BY <1>a, <1>4, <2>1, ExitPosted
  <2>3. due'["exit"] = 0 /\ due'["selfap_exit"] = 0
    BY <1>i, <1>2, <2>1
  <2>4. EnterInv'
    <3>1. \A t \in Enters : due'[t] > 0 => due'[t] = 4
      BY <1>i, <1>2, <2>1, SMTT(30)
    <3>2. \A t, u \in Enters : due'[t] > 0 /\ due'[u] > 0 => t = u
      BY <1>i, <1>2, <2>1
    <3>3. mode = "SETTING" \/ mode = "SELFAP"
      BY <1>i, <1>4
    <3> QED BY <1>1, <1>2, <2>2, <2>3, <3>1, <3>2, <3>3 DEF EnterInv
  <2>5. WorkInv' /\ SelfapInv' /\ OwedInv'
    BY <1>i, <1>1, <1>2, <1>4, <2>2, <2>3 DEF WorkInv, SelfapInv, OwedInv
  <2>6. SettingInv'
    BY <1>i, <1>1, <1>2, <1>4, <2>2, <2>3 DEF SettingInv, Left, Starts, Serves, Looks
  <2> QED BY <1>i, <1>1, <2>2, <2>4, <2>5, <2>6 DEF CalmInv
<1> QED BY <1>3, <1>4

------------------------------------------------------------------------------
(* Types are preserved.                                                    *)
LEMMA TakesType ==
    ASSUME events \in Seq(CoreEvent), NEW e, NEW more \in {<<>>, <<"SC_START">>, <<"JOIN_AP">>}, Takes(e, more)
    PROVE  events' \in Seq(CoreEvent)
<1>1. events # <<>> /\ events' = Tail(events) \o more
  BY DEF Takes
<1>2. Tail(events) \in Seq(CoreEvent)
  BY <1>1
<1>3. more \in Seq(CoreEvent)
  <2>1. {<<>>, <<"SC_START">>, <<"JOIN_AP">>} \subseteq Seq(CoreEvent)
    BY DEF CoreEvent, Foreign
  <2> QED BY <2>1
<1> QED BY <1>1, <1>2, <1>3

LEMMA ArmType == ASSUME NEW d \in [Short -> 0..4], NEW t PROVE Arm(d, t) \in [Short -> 0..4]
<1>1. Ticks(t) + 1 \in 0..4
  BY DEF Ticks
<1> QED BY <1>1 DEF Arm

LEMMA PairingTypes == PairingTypeOK /\ PairingNext => PairingTypeOK'
<1>a. SUFFICES ASSUME PairingTypeOK, PairingNext PROVE PairingTypeOK'
  OBVIOUS
<1> USE DEF settingVars, wifiVars, timerVars, history, ServerStop, SmartConfigStop, Disturbed
<1>i. /\ mode \in {"WORK", "SETTING", "SELFAP"} /\ events \in Seq(CoreEvent)
      /\ due \in [Short -> 0..4] /\ armed \subseteq Long /\ counter \in 0..Timeout - 1
      /\ sc \in {"off", "on", "linked", "over"} /\ {listening, leak, station, ap, fault, hurry, ousted} \subseteq BOOLEAN
      /\ spro \in Reader \cup {NoReader} /\ app \in Seq(Unit) /\ asked \in 0..MaxAsked
  BY <1>a DEF PairingTypeOK
<1>c. 0 \in 0..Timeout - 1 /\ (counter + 1) % Timeout \in 0..Timeout - 1
  BY <1>i, PairingAssumption
<1>1. CASE Task
  <2> USE <1>1 DEF Task, EnterSetting, EnterSelfap, ExitSetting, ExitSelfap, ScStart, ScStop, ScRestart,
                   SendId, Resp, Others, JoinAp, JoinApErr, BackToWork, Ousts, ServerStart
  <2>1. events' \in Seq(CoreEvent)
    BY <1>i, TakesType
  <2>2. due' \in [Short -> 0..4]
    BY <1>i, ArmType
  <2>3. spro' \in Reader \cup {NoReader} /\ counter' \in 0..Timeout - 1
    BY <1>i, <1>c, NewReaderType
  <2>4. armed' \subseteq Long /\ mode' \in {"WORK", "SETTING", "SELFAP"} /\ sc' \in {"off", "on", "linked", "over"}
    BY <1>i DEF Long
  <2>5. UNCHANGED <<listening, app, asked>>
    OBVIOUS
  <2>6. {leak', station', ap', fault', hurry', ousted'} \subseteq BOOLEAN
    BY <1>i
  <2> QED BY <1>i, <2>1, <2>2, <2>3, <2>4, <2>5, <2>6 DEF PairingTypeOK
<1>e. Exit \in Seq(CoreEvent) /\ \A e \in CoreEvent : Append(events, e) \in Seq(CoreEvent)
  <2>1. {<<>>, <<"EXIT_SETTING">>, <<"EXIT_SELFAP">>} \subseteq Seq(CoreEvent)
    BY DEF CoreEvent
  <2>2. Exit \in {<<>>, <<"EXIT_SETTING">>, <<"EXIT_SELFAP">>}
    BY Zenon DEF Exit
  <2>3. \A e \in CoreEvent : Append(events, e) \in Seq(CoreEvent)
    BY <1>i
  <2> QED BY <2>1, <2>2, <2>3
<1>2. CASE Timers \/ Tick
  <2> USE <1>2 DEF Timers, ShortTimers, SetExit, SetSelfapExit, Enter, StartTCPListen, TimeoutListener,
                   WaitingClient, JoinTimer, DelayResp, Tick, Fires, Expires, Post
  <2>1. events' \in Seq(CoreEvent)
    <3>1. events \o Exit \in Seq(CoreEvent)
      BY <1>i, <1>e
    <3> QED BY <1>i, <1>e, <3>1 DEF CoreEvent, Foreign
  <2>2. due' \in [Short -> 0..4]
    <3>1. \/ due' = due \/ \E t \in Short : due' = [due EXCEPT ![t] = 0]
          \/ due' = [t \in Short |-> IF due[t] > 0 THEN due[t] - 1 ELSE 0]
      BY DEF Short
    <3>2. \A t \in Short : due[t] \in 0..4
      BY <1>i
    <3> QED BY <1>i, <3>1, <3>2
  <2>3. spro' \in Reader \cup {NoReader} /\ counter' \in 0..Timeout - 1
    BY <1>i, <1>c
  <2>4. armed' \subseteq Long /\ mode' \in {"WORK", "SETTING", "SELFAP"}
    BY <1>i
  <2>5. UNCHANGED <<sc, app, asked>>
    OBVIOUS
  <2>6. {listening', leak', station', ap', fault', hurry', ousted'} \subseteq BOOLEAN
    BY <1>i
  <2> QED BY <1>i, <2>1, <2>2, <2>3, <2>4, <2>5, <2>6 DEF PairingTypeOK
<1>3. CASE ScLink \/ StationUp \/ ScLinkOver
  <2> USE <1>3 DEF ScLink, StationUp, ScLinkOver, Post
  <2>1. events' \in Seq(CoreEvent)
    BY <1>i, <1>e DEF CoreEvent
  <2>2. armed' \subseteq Long /\ sc' \in {"off", "on", "linked", "over"}
    BY <1>i DEF Long
  <2>3. {station', hurry'} \subseteq BOOLEAN
    BY <1>i
  <2>4. UNCHANGED <<mode, due, counter, spro, listening, leak, ap, app, asked, fault, ousted>>
    OBVIOUS
  <2> QED BY <1>i, <2>1, <2>2, <2>3, <2>4 DEF PairingTypeOK
<1>4. CASE AppRequest
  <2>1. app' \in Seq(Unit) /\ asked' \in 0..MaxAsked
    BY <1>i, <1>4, PairingAssumption DEF AppRequest
  <2>2. UNCHANGED <<mode, events, due, armed, counter, spro, listening, leak, sc, station, ap, fault, hurry, ousted>>
    BY <1>4 DEF AppRequest
  <2> QED BY <1>i, <2>1, <2>2 DEF PairingTypeOK
<1>5. CASE AppSegment \/ AppTimer
  <2>1. ASSUME NEW res, res.r \in Reader, res.calls \in Seq(CallBack), Answers(res)
        PROVE  events' \in Seq(CoreEvent) /\ spro' \in Reader /\ hurry' \in BOOLEAN
    <3> DEFINE new == FlattenSeq([i \in DOMAIN res.calls |-> Answer(res.calls[i])])
    <3>1. events' = events \o new /\ spro' = res.r /\ hurry' = (hurry \/ (new # <<>> /\ Changing))
      BY <2>1 DEF Answers
    <3>2. new \in Seq({"SEND_ID", "RESP"})
      BY <2>1, AnswersType
    <3>3. new \in Seq(CoreEvent)
      <4> HIDE DEF new
      <4> QED BY <3>2 DEF CoreEvent
    <3> HIDE DEF new
    <3> QED BY <1>i, <2>1, <3>1, <3>3
  <2>2. events' \in Seq(CoreEvent) /\ spro' \in Reader \cup {NoReader} /\ hurry' \in BOOLEAN /\ app' \in Seq(Unit)
    <3>1. CASE AppSegment
      <4>1. PICK n \in 1..Len(app) :
              /\ app' = SubSeq(app, n + 1, Len(app))
              /\ IF Running THEN Answers(Recv(spro, "HTTP", SubSeq(app, 1, n)))
                 ELSE UNCHANGED <<mode, events, timerVars, settingVars, wifiVars, asked, fault, history>>
        BY <3>1 DEF AppSegment
      <4>2. SubSeq(app, 1, n) \in Seq(Unit) /\ app' \in Seq(Unit)
        BY <1>i, <4>1
      <4>3. CASE Running
        <5>1. Recv(spro, "HTTP", SubSeq(app, 1, n)).r \in Reader /\ Recv(spro, "HTTP", SubSeq(app, 1, n)).calls \in Seq(CallBack)
          BY <1>i, <4>2, <4>3, HttpRecvType DEF Running
        <5> QED BY <2>1, <4>1, <4>2, <4>3, <5>1
      <4>4. CASE ~Running
        BY <1>i, <4>1, <4>2, <4>4
      <4> QED BY <4>3, <4>4
    <3>2. CASE AppTimer
      <4>1. spro \in Reader /\ app' = app /\ Answers(Expired(spro))
        BY <1>i, <3>2 DEF AppTimer, Running
      <4>2. Expired(spro).r \in Reader /\ Expired(spro).calls \in Seq(CallBack)
        BY <4>1, ExpiredType
      <4> QED BY <1>i, <2>1, <4>1, <4>2
    <3> QED BY <1>5, <3>1, <3>2
  <2>3. UNCHANGED <<mode, due, armed, counter, listening, leak, sc, station, ap, asked, fault, ousted>>
    BY <1>5 DEF AppSegment, AppTimer, Answers
  <2> QED BY <1>i, <2>2, <2>3 DEF PairingTypeOK
<1>6. CASE Asks
  <2> USE <1>6 DEF Asks, LongPress, ShortPress, McuAp, McuTouch, Post
  <2>1. events' \in Seq(CoreEvent)
    <3>1. events \o Exit \in Seq(CoreEvent)
      BY <1>i, <1>e
    <3> QED BY <1>i, <1>e, <3>1 DEF CoreEvent
  <2>2. due' \in [Short -> 0..4]
    BY <1>i, ArmType
  <2>3. asked' \in 0..MaxAsked /\ hurry' \in BOOLEAN
    BY <1>i, PairingAssumption
  <2>4. UNCHANGED <<mode, armed, counter, spro, listening, leak, sc, station, ap, app, fault, ousted>>
    OBVIOUS
  <2> QED BY <1>i, <2>1, <2>2, <2>3, <2>4 DEF PairingTypeOK
<1>7. CASE JoinApTimer
  <2>1. events' \in Seq(CoreEvent)
    <3>1. PICK e \in {"RESP", "AP_JOINED", "JOIN_AP_ERR"} : events' = Append(events, e)
      BY <1>7 DEF JoinApTimer, Post
    <3> QED BY <1>e, <3>1 DEF CoreEvent, Foreign
  <2>2. /\ armed' \subseteq Long /\ station' \in BOOLEAN
        /\ UNCHANGED <<mode, due, counter, spro, listening, leak, sc, ap, app, asked, fault, hurry, ousted>>
    BY <1>i, <1>7 DEF JoinApTimer
  <2> QED BY <1>i, <2>1, <2>2 DEF PairingTypeOK
<1>8. CASE Network
  <2>1. events' \in Seq(CoreEvent)
    BY <1>i, <1>e, <1>8 DEF Network, NetworkLost, UpgradeEnds, ServerPackage, Post, CoreEvent, Foreign
  <2>2. /\ asked' \in 0..MaxAsked /\ station' \in BOOLEAN /\ mode' \in {"WORK", "SETTING", "SELFAP"}
    <3>1. asked' \in 0..MaxAsked
      BY <1>i, <1>8, PairingAssumption DEF Network
    <3>2. Ousts => mode' = "WORK"
      BY DEF Ousts
    <3> QED BY <1>i, <1>8, <3>1, <3>2 DEF Network, NetworkLost, UpgradeEnds, ServerPackage
  <2>4. ousted' \in BOOLEAN /\ hurry' \in BOOLEAN
    <3>1. Ousts => ousted' \in BOOLEAN /\ hurry' = hurry
      BY DEF Ousts
    <3> QED BY <1>i, <1>8, <3>1 DEF Network, NetworkLost, UpgradeEnds, ServerPackage
  <2>3. UNCHANGED <<due, armed, counter, spro, listening, leak, sc, ap, app, fault>>
    BY <1>8 DEF Network, NetworkLost, UpgradeEnds, ServerPackage
  <2> QED BY <1>i, <2>1, <2>2, <2>3, <2>4 DEF PairingTypeOK
<1> QED BY <1>a, <1>1, <1>2, <1>3, <1>4, <1>5, <1>6, <1>7, <1>8 DEF PairingNext

------------------------------------------------------------------------------
LEMMA CalmApp == PairingTypeOK /\ CalmInv /\ ~hurry' /\ (AppRequest \/ AppSegment \/ AppTimer) => CalmInv'
<1>a. SUFFICES ASSUME PairingTypeOK, CalmInv, ~hurry', AppRequest \/ AppSegment \/ AppTimer PROVE CalmInv'
  OBVIOUS
<1> USE DEF settingVars, wifiVars, timerVars
<1>c. spro \in Reader \cup {NoReader} /\ app \in Seq(Unit)
  BY <1>a DEF PairingTypeOK
<1>u. ASSUME UNCHANGED <<mode, events, due, armed, spro, leak, sc, station, ap, fault>> PROVE CalmInv'
  <2>1. EnterInv' /\ WorkInv' /\ SelfapInv' /\ OwedInv'
    BY <1>a, <1>u DEF CalmInv, EnterInv, WorkInv, SelfapInv, OwedInv, Owed, Has, Running, Left
  <2>2. SettingInv'
    BY <1>a, <1>u DEF CalmInv, SettingInv, Left, Starts, Serves, Looks, Leaves, Has, NoSearch, Running
  <2> QED BY <1>a, <1>u, <2>1, <2>2 DEF CalmInv
<1>r. ASSUME NEW res, res.r \in Reader, res.calls \in Seq(CallBack), Answers(res), Running PROVE CalmInv'
  <2> DEFINE new == FlattenSeq([i \in DOMAIN res.calls |-> Answer(res.calls[i])])
  <2>1. new \in Seq({"SEND_ID", "RESP"})
    BY <1>r, AnswersType
  <2>2. /\ events' = events \o new /\ spro' = res.r /\ ~(new # <<>> /\ Changing)
        /\ UNCHANGED <<mode, due, armed, leak, sc, station, ap, fault>>
    BY <1>a, <1>r DEF Answers, Disturbed
  <2>3. Running'
    BY <1>r, <2>2, PairingAssumption DEF Running
  <2> HIDE DEF new
  <2> QED BY <1>a, <1>r, <2>1, <2>2, <2>3, CalmAnswers
<1>1. CASE AppRequest
  BY <1>1, <1>u DEF AppRequest
<1>2. CASE AppSegment
  <2>1. PICK n \in 1..Len(app) :
          IF Running THEN Answers(Recv(spro, "HTTP", SubSeq(app, 1, n)))
          ELSE UNCHANGED <<mode, events, timerVars, settingVars, wifiVars, asked, fault, history>>
    BY <1>2 DEF AppSegment
  <2>2. SubSeq(app, 1, n) \in Seq(Unit)
    BY <1>c
  <2>3. CASE Running
    <3>1. Recv(spro, "HTTP", SubSeq(app, 1, n)).r \in Reader /\ Recv(spro, "HTTP", SubSeq(app, 1, n)).calls \in Seq(CallBack)
      BY <1>c, <2>2, <2>3, HttpRecvType DEF Running
    <3> QED BY <1>r, <2>1, <2>3, <3>1
  <2> QED BY <1>u, <2>1, <2>3
<1>3. CASE AppTimer
  <2>1. spro \in Reader /\ Running /\ Answers(Expired(spro))
    BY <1>c, <1>3 DEF AppTimer, Running
  <2>2. Expired(spro).r \in Reader /\ Expired(spro).calls \in Seq(CallBack)
    BY <2>1, ExpiredType
  <2> QED BY <1>r, <2>1, <2>2
<1> QED BY <1>a, <1>1, <1>2, <1>3

\* The attempt to join an access point ends: it was not made while pairing.
LEMMA CalmJoinApTimer == PairingTypeOK /\ CalmInv /\ JoinApTimer => CalmInv'
<1>a. SUFFICES ASSUME PairingTypeOK, CalmInv, JoinApTimer PROVE CalmInv'
  OBVIOUS
<1> USE DEF Short, Has, NoSearch, Owed, Leaving, Running, Searches, Changes, Enters, settingVars, Foreign
<1>i. /\ events \in Seq(CoreEvent) /\ OneOfEach(events)
      /\ mode \in {"WORK", "SETTING", "SELFAP"} /\ due \in [Short -> 0..4] /\ ~fault /\ ~leak
      /\ EnterInv /\ WorkInv /\ SelfapInv /\ SettingInv /\ OwedInv
  BY <1>a, CalmFacts
<1>1. "join_ap" \in armed /\ mode = "WORK"
  BY <1>a, <1>i DEF JoinApTimer, Expires, SelfapInv, SettingInv
<1>2. PICK e \in {"AP_JOINED", "JOIN_AP_ERR"} : events' = Append(events, e)
  BY <1>a, <1>1 DEF JoinApTimer, Post
<1>3. armed' \subseteq armed /\ UNCHANGED <<mode, due, spro, leak, sc, ap, fault>>
  BY <1>a DEF JoinApTimer
<1>4. OneOfEach(events') /\ ToSet(events') = ToSet(events) \cup {e}
  <2>1. e \in CoreEvent /\ e \notin Searches /\ e \notin Changes \cup {"SC_START"}
    BY <1>2 DEF CoreEvent
  <2> QED BY <1>i, <1>2, <2>1, PostedFacts
<1>5. EnterInv' /\ OwedInv'
  BY <1>i, <1>1, <1>2, <1>3, <1>4 DEF EnterInv, WorkInv, OwedInv
<1>6. WorkInv' /\ SelfapInv' /\ SettingInv'
  BY <1>i, <1>1, <1>2, <1>3, <1>4 DEF WorkInv, SelfapInv, SettingInv
<1> QED BY <1>i, <1>3, <1>4, <1>5, <1>6 DEF CalmInv

\* The network, an upgrade that ends and a package of the server.
LEMMA CalmNetwork == PairingTypeOK /\ CalmInv /\ ~ousted' /\ Network => CalmInv'
<1>a. SUFFICES ASSUME PairingTypeOK, CalmInv, ~ousted', Network PROVE CalmInv'
  OBVIOUS
<1>i. /\ events \in Seq(CoreEvent) /\ OneOfEach(events)
      /\ mode \in {"WORK", "SETTING", "SELFAP"} /\ due \in [Short -> 0..4] /\ ~fault /\ ~leak
      /\ EnterInv /\ WorkInv /\ SelfapInv /\ SettingInv /\ OwedInv
  BY <1>a, CalmFacts
<1>1. CASE NetworkLost \/ UpgradeEnds
  <2> USE DEF Short, Has, NoSearch, Owed, Leaving, Running, Searches, Changes, Enters, settingVars, wifiVars,
              timerVars, Foreign
  <2>1. PICK e \in {"JOIN_AP", "UPGRADE_EXIT"} : events' = Append(events, e)
    BY <1>1 DEF NetworkLost, UpgradeEnds, Post
  <2>2. UNCHANGED <<mode, due, armed, spro, leak, sc, ap, fault>> /\ (mode # "WORK" => station' = station)
    BY <1>a, <1>1 DEF Network, NetworkLost, UpgradeEnds
  <2>3. OneOfEach(events') /\ ToSet(events') = ToSet(events) \cup {e}
    <3>1. e \in CoreEvent /\ e \notin Searches /\ e \notin Changes \cup {"SC_START"}
      BY <2>1 DEF CoreEvent
    <3> QED BY <1>i, <2>1, <3>1, PostedFacts
  <2>4. Left => Left'
    BY <2>1, <2>2, <2>3 DEF Left
  <2>5. EnterInv'
    BY <1>i, <2>1, <2>2, <2>3, <2>4, EnterSame
  <2>6. WorkInv' /\ SelfapInv' /\ OwedInv'
    BY <1>i, <2>1, <2>2, <2>3 DEF WorkInv, SelfapInv, OwedInv
  <2>7. SettingInv'
    BY <1>i, <2>1, <2>2, <2>3, <2>4 DEF SettingInv, Starts, Serves, Looks, Leaves
  <2> QED BY <1>i, <2>2, <2>3, <2>5, <2>6, <2>7 DEF CalmInv
<1>2. CASE ServerPackage
  BY <1>a, <1>i, <1>2, CalmOusts DEF Network, ServerPackage, timerVars, settingVars, wifiVars
<1> QED BY <1>a, <1>1, <1>2 DEF Network

------------------------------------------------------------------------------
\* What the history variables record is never forgotten.
LEMMA HistoryStays == PairingTypeOK /\ PairingNext => (~hurry' => ~hurry) /\ (~ousted' => ~ousted)
<1> SUFFICES ASSUME PairingTypeOK, PairingNext PROVE (~hurry' => ~hurry) /\ (~ousted' => ~ousted)
  OBVIOUS
<1>o. Ousts => (~hurry' => ~hurry) /\ (~ousted' => ~ousted)
  BY DEF PairingTypeOK, Ousts
<1>d. \A b : Disturbed(b) => (~hurry' => ~hurry) /\ (~ousted' => ~ousted)
  BY DEF PairingTypeOK, Disturbed
<1>1. CASE Task
  <2>1. CASE ScStart
    BY <1>d, <2>1 DEF ScStart
  <2>2. CASE Others
    BY <1>o, <2>2 DEF Others, JoinAp, JoinApErr, BackToWork
  <2> QED BY <1>1, <2>1, <2>2 DEF Task, EnterSetting, EnterSelfap, ExitSetting, ExitSelfap, ScStop, ScRestart,
                                  SendId, Resp, history
<1>2. CASE Timers \/ Tick
  <2>1. CASE WaitingClient
    BY <1>d, <2>1 DEF WaitingClient
  <2> QED BY <1>2, <2>1 DEF Timers, ShortTimers, SetExit, SetSelfapExit, Enter, StartTCPListen, TimeoutListener,
                            JoinTimer, DelayResp, Tick, history
<1>3. CASE ScLink \/ StationUp \/ ScLinkOver \/ JoinApTimer \/ AppRequest
  BY <1>d, <1>3 DEF ScLink, StationUp, ScLinkOver, JoinApTimer, AppRequest, history
<1>4. CASE AppSegment \/ AppTimer
  <2>1. \A res : Answers(res) => (~hurry' => ~hurry) /\ (~ousted' => ~ousted)
    BY <1>d DEF Answers
  <2> QED BY <1>4, <2>1 DEF AppSegment, AppTimer, history
<1>5. CASE Asks
  BY <1>d, <1>5 DEF Asks
<1>6. CASE Network
  <2>1. NetworkLost \/ UpgradeEnds => UNCHANGED <<hurry, ousted>>
    BY DEF NetworkLost, UpgradeEnds, history
  <2>2. ServerPackage => Ousts
    BY DEF ServerPackage
  <2> QED BY <1>o, <1>6, <2>1, <2>2 DEF Network
<1> QED BY <1>1, <1>2, <1>3, <1>4, <1>5, <1>6 DEF PairingNext

\* Who waits for an answer finds the server, even after another handler has
\* set the mode.
LEMMA AnswerStays == PairingTypeOK /\ AnswerFinds /\ ~hurry' /\ PairingNext => AnswerFinds'
<1>a. SUFFICES ASSUME PairingTypeOK, AnswerFinds, ~hurry', PairingNext PROVE AnswerFinds'
  OBVIOUS
<1> DEFINE Answered == {"SEND_ID", "RESP"}
<1>i. /\ events \in Seq(CoreEvent) /\ mode \in {"WORK", "SETTING", "SELFAP"} /\ due \in [Short -> 0..4]
      /\ armed \subseteq Long
  BY <1>a DEF PairingTypeOK
<1>f. /\ ~fault /\ (Owed => Running) /\ ("join_ap" \in armed => mode = "WORK")
      /\ due["exit"] = 1 \/ due["selfap_exit"] = 1 => ~Owed
  BY <1>a DEF AnswerFinds
<1>s. "exit" \in Short /\ "selfap_exit" \in Short
  BY DEF Short
<1>p. /\ \A q : (\E e \in CoreEvent \ Answered : q = Append(events, e)) =>
                  ToSet(q) \cap Answered = ToSet(events) \cap Answered
      /\ ToSet(events \o Exit) \cap Answered = ToSet(events) \cap Answered
  <2>1. ASSUME NEW e \in CoreEvent
        PROVE  ToSet(Append(events, e)) = ToSet(events) \cup {e} /\ events \o <<e>> = Append(events, e)
    <3> DEFINE one == <<e>>
    <3>1. one \in Seq(CoreEvent) /\ Append(events, e) = events \o one
      BY <1>i
    <3>2. ToSet(one) = {e}
      BY QueueOne
    <3>3. ToSet(events \o one) = ToSet(events) \cup {e}
      <4> HIDE DEF one
      <4> QED BY <1>i, <3>1, <3>2, QueueBoth
    <3> QED BY <3>1, <3>3
  <2>2. ASSUME Exit = <<>> PROVE events \o Exit = events
    BY <1>i, <2>2
  <2>3. ASSUME NEW e \in {"EXIT_SETTING", "EXIT_SELFAP"}, Exit = <<e>>
        PROVE  ToSet(events \o Exit) \cap Answered = ToSet(events) \cap Answered
    <3>1. e \in CoreEvent
      BY <2>3 DEF CoreEvent
    <3>2. events \o Exit = Append(events, e)
      BY <2>1, <2>3, <3>1, Zenon
    <3>3. ToSet(Append(events, e)) = ToSet(events) \cup {e}
      BY <2>1, <3>1
    <3> QED BY <2>3, <3>2, <3>3
  <2>4. Exit = <<>> \/ \E e \in {"EXIT_SETTING", "EXIT_SELFAP"} : Exit = <<e>>
    BY DEF Exit
  <2>5. ToSet(events \o Exit) \cap Answered = ToSet(events) \cap Answered
    BY <2>2, <2>3, <2>4
  <2>6. ASSUME NEW e \in CoreEvent \ Answered
        PROVE  ToSet(Append(events, e)) \cap Answered = ToSet(events) \cap Answered
    BY <2>1
  <2> QED BY ONLY <2>5, <2>6, Zenon
<1>1. CASE Task
  <2> DEFINE Posted == {<<>>, <<"SC_START">>, <<"JOIN_AP">>}
  <2>1. PICK e, more \in Posted : events # <<>> /\ events' = Tail(events) \o more
    BY <1>1 DEF Task, EnterSetting, EnterSelfap, ExitSetting, ExitSelfap, ScStart, ScStop, ScRestart, SendId, Resp,
                Others, JoinAp, JoinApErr, BackToWork, Takes
  <2>2. ToSet(events') \cap Answered \subseteq ToSet(events)
    <3>1. /\ Tail(events) \in Seq(CoreEvent) /\ ToSet(Tail(events)) \subseteq ToSet(events)
      BY <1>i, <2>1, QueueTail
    <3>2. more \in Seq(CoreEvent) /\ ToSet(more) \cap Answered = {}
      <4>1. Posted \subseteq Seq(CoreEvent)
        BY DEF CoreEvent, Foreign
      <4>2. ToSet(<<>>) = {} /\ ToSet(<<"SC_START">>) = {"SC_START"} /\ ToSet(<<"JOIN_AP">>) = {"JOIN_AP"}
        BY QueueOne
      <4> QED BY <2>1, <4>1, <4>2
    <3>3. \A q, r : q \in Seq(CoreEvent) /\ r \in Seq(CoreEvent) => ToSet(q \o r) = ToSet(q) \cup ToSet(r)
      BY QueueBoth
    <3>4. ToSet(events') = ToSet(Tail(events)) \cup ToSet(more)
      BY ONLY <2>1, <3>1, <3>2, <3>3, Zenon
    <3> QED BY <3>1, <3>2, <3>4
  <2>3. /\ SendId => "SEND_ID" \in ToSet(events)
        /\ Resp => "RESP" \in ToSet(events)
    BY <1>i, QueueTail DEF SendId, Resp, Takes
  <2>4. Running => Running'
    BY <1>1, NewReaderType DEF Task, EnterSetting, EnterSelfap, ExitSetting, ExitSelfap, ScStart, ScStop, ScRestart,
          SendId, Resp, Others, JoinAp, JoinApErr, BackToWork, settingVars, ServerStart, Running
  <2>5. "resp" \in armed' => "resp" \in armed \/ "RESP" \in ToSet(events)
    BY <1>1, <2>3 DEF Task, EnterSetting, EnterSelfap, ExitSetting, ExitSelfap, ScStart, ScStop, ScRestart,
          SendId, Resp, Others, JoinAp, JoinApErr, BackToWork, timerVars, ServerStart
  <2>6. Owed' => Owed
    BY <2>2, <2>5 DEF Owed
  <2>7. ~fault'
    <3>1. SendId \/ Resp => Owed /\ fault' = ~Running
      BY <2>3 DEF Owed, SendId, Resp
    <3>2. SendId \/ Resp \/ fault' = fault
      BY <1>1 DEF Task, EnterSetting, EnterSelfap, ExitSetting, ExitSelfap, ScStart, ScStop, ScRestart,
          Others, JoinAp, JoinApErr, BackToWork
    <3> QED BY <1>f, <3>1, <3>2
  <2>8. "join_ap" \in armed' => mode' = "WORK"
    <3>1. CASE EnterSetting \/ EnterSelfap
      BY <3>1 DEF EnterSetting, EnterSelfap, ServerStart
    <3>2. CASE ExitSetting \/ ExitSelfap \/ ScStart \/ ScStop \/ ScRestart \/ SendId \/ Resp
      <4>1. mode' = mode /\ ("join_ap" \in armed' => "join_ap" \in armed)
        BY <3>2 DEF ExitSetting, ExitSelfap, ScStart, ScStop, ScRestart, SendId, Resp, ServerStart
      <4> QED BY <1>f, <4>1
    <3>3. CASE Others
      BY <3>3 DEF Others, JoinAp, JoinApErr, BackToWork, Ousts
    <3> QED BY <1>1, <3>1, <3>2, <3>3 DEF Task
  <2>9. \A x \in {"exit", "selfap_exit"} : due'[x] = 1 => due[x] = 1
    <3>1. due' = due \/ \E x \in {"exit", "selfap_exit", "listen"} : due' = Arm(due, x)
      BY <1>1 DEF Task, EnterSetting, EnterSelfap, ExitSetting, ExitSelfap, ScStart, ScStop, ScRestart,
          SendId, Resp, Others, JoinAp, JoinApErr, BackToWork, timerVars, ServerStart
    <3>2. \A x \in {"exit", "selfap_exit", "listen"} : Arm(due, x) = [due EXCEPT ![x] = 3]
      BY DEF Arm, Ticks
    <3> QED BY <1>i, <1>s, <3>1, <3>2
  <2> QED BY <1>f, <2>4, <2>6, <2>7, <2>8, <2>9 DEF AnswerFinds
<1>2. CASE Tick
  <2>1. ToSet(events') = {} /\ "resp" \notin armed' /\ UNCHANGED <<mode, armed, fault>>
    BY <1>2 DEF Tick, ToSet
  <2> QED BY <1>f, <2>1 DEF AnswerFinds, Owed
<1>3. CASE ShortTimers
  <2>1. \A x \in {"exit", "selfap_exit"} : due'[x] = 1 => due[x] = 1
    BY <1>3, <1>i, <1>s DEF ShortTimers, SetExit, SetSelfapExit, Enter, StartTCPListen, Fires
  <2>2. ToSet(events') \cap Answered = ToSet(events) \cap Answered
    <3>1. events' = events \/ \E e \in CoreEvent \ Answered : events' = Append(events, e)
      BY <1>3 DEF ShortTimers, SetExit, SetSelfapExit, Enter, StartTCPListen, Post, CoreEvent, Foreign
    <3> QED BY ONLY <1>p, <3>1, Zenon
  <2>3. /\ armed' \subseteq armed /\ ("resp" \in armed' <=> "resp" \in armed) /\ fault' = fault
        /\ mode' = mode \/ mode' = "WORK"
    BY <1>3 DEF ShortTimers, SetExit, SetSelfapExit, Enter, StartTCPListen
  <2>4. Owed' <=> Owed
    BY <2>2, <2>3 DEF Owed
  <2>5. Owed => spro' = spro
    BY <1>3, <1>f DEF ShortTimers, SetExit, SetSelfapExit, Enter, StartTCPListen, settingVars, Fires
  <2> QED BY <1>f, <2>1, <2>3, <2>4, <2>5 DEF AnswerFinds, Running
<1>4. CASE TimeoutListener \/ WaitingClient \/ JoinTimer \/ DelayResp
  <2>1. ToSet(events') \cap Answered = ToSet(events) \cap Answered
    <3>1. \/ events' = events \/ events' = events \o Exit
          \/ \E e \in CoreEvent \ Answered : events' = Append(events, e)
      BY <1>4 DEF TimeoutListener, WaitingClient, JoinTimer, DelayResp, Post, CoreEvent
    <3> QED BY ONLY <1>p, <3>1, Zenon
  <2>2. armed' \subseteq armed /\ UNCHANGED <<mode, due>>
    BY <1>4 DEF TimeoutListener, WaitingClient, JoinTimer, DelayResp
  <2>3. Owed' => Owed
    BY <2>1, <2>2 DEF Owed
  <2>4. Owed => UNCHANGED spro
    BY <1>a, <1>4 DEF TimeoutListener, WaitingClient, JoinTimer, DelayResp, settingVars, Disturbed
  <2>5. ~fault'
    BY <1>4, <1>f DEF TimeoutListener, WaitingClient, JoinTimer, DelayResp, Expires, Owed
  <2> QED BY <1>f, <2>2, <2>3, <2>4, <2>5 DEF AnswerFinds, Running
<1>5. CASE ScLink \/ StationUp \/ ScLinkOver
  <2>1. ToSet(events') \cap Answered = ToSet(events) \cap Answered
    <3>1. events' = events \/ \E e \in CoreEvent \ Answered : events' = Append(events, e)
      BY <1>5 DEF ScLink, StationUp, ScLinkOver, Post, CoreEvent
    <3> QED BY ONLY <1>p, <3>1, Zenon
  <2>2. /\ armed' \subseteq armed \cup {"join"} /\ UNCHANGED <<mode, due, spro, fault>>
    BY <1>5 DEF ScLink, StationUp, ScLinkOver, timerVars, settingVars
  <2>3. Owed' => Owed
    BY <2>1, <2>2 DEF Owed
  <2> QED BY <1>f, <2>2, <2>3 DEF AnswerFinds, Running
<1>6. CASE JoinApTimer
  <2>1. "join_ap" \in armed /\ mode = "WORK"
    BY <1>6, <1>f DEF JoinApTimer, Expires
  <2>2. ToSet(events') \cap Answered = ToSet(events) \cap Answered
    <3>1. \E e \in CoreEvent \ Answered : events' = Append(events, e)
      BY <1>6, <2>1 DEF JoinApTimer, Post, CoreEvent, Foreign
    <3> QED BY ONLY <1>p, <3>1, Zenon
  <2>3. armed' \subseteq armed /\ UNCHANGED <<mode, due, spro, fault>>
    BY <1>6 DEF JoinApTimer, settingVars
  <2>4. Owed' => Owed
    BY <2>2, <2>3 DEF Owed
  <2> QED BY <1>f, <2>3, <2>4 DEF AnswerFinds, Running
<1>7. CASE AppRequest
  BY <1>7, <1>f DEF AppRequest, AnswerFinds, Owed, Running, timerVars, settingVars
<1>8. CASE AppSegment \/ AppTimer
  <2>1. CASE UNCHANGED <<events, timerVars, settingVars, mode, fault>>
    BY <1>f, <2>1 DEF AnswerFinds, Owed, Running, timerVars, settingVars
  <2>2. ASSUME NEW res, res.r \in Reader, res.calls \in Seq(CallBack), Answers(res) PROVE AnswerFinds'
    <3> DEFINE new == FlattenSeq([i \in DOMAIN res.calls |-> Answer(res.calls[i])])
    <3>1. new \in Seq(Answered)
      BY <2>2, AnswersType
    <3>2. /\ events' = events \o new /\ spro' = res.r /\ ~(new # <<>> /\ Changing)
          /\ UNCHANGED <<mode, due, armed, fault>>
      BY <1>a, <2>2 DEF Answers, Disturbed, timerVars
    <3> HIDE DEF new
    <3>3. Running'
      BY <2>2, <3>2, PairingAssumption DEF Running
    <3>4. CASE new = <<>>
      <4>1. events' = events
        BY <1>i, <3>2, <3>4
      <4> QED BY <1>f, <3>2, <3>3, <4>1 DEF AnswerFinds, Owed
    <3>5. CASE new # <<>>
      <4>1. due["exit"] = 0 /\ due["selfap_exit"] = 0
        <5>1. due["exit"] \in 0..4 /\ due["selfap_exit"] \in 0..4
          BY <1>i, <1>s
        <5> QED BY <3>2, <3>5, <5>1 DEF Changing, Leaving
      <4> QED BY <1>f, <3>2, <3>3, <4>1 DEF AnswerFinds
    <3> QED BY <3>4, <3>5
  <2>3. spro \in Reader \cup {NoReader} /\ app \in Seq(Unit)
    BY <1>a DEF PairingTypeOK
  <2>4. CASE AppSegment
    <3>1. PICK n \in 1..Len(app) :
            IF Running THEN Answers(Recv(spro, "HTTP", SubSeq(app, 1, n)))
            ELSE UNCHANGED <<mode, events, timerVars, settingVars, wifiVars, asked, fault, history>>
      BY <2>4 DEF AppSegment
    <3>2. CASE Running
      <4>1. SubSeq(app, 1, n) \in Seq(Unit)
        BY <2>3
      <4>2. /\ Recv(spro, "HTTP", SubSeq(app, 1, n)).r \in Reader
            /\ Recv(spro, "HTTP", SubSeq(app, 1, n)).calls \in Seq(CallBack)
        BY <2>3, <3>2, <4>1, HttpRecvType DEF Running
      <4> QED BY <2>2, <3>1, <3>2, <4>2
    <3> QED BY <2>1, <3>1, <3>2
  <2>5. CASE AppTimer
    <3>1. spro \in Reader /\ Answers(Expired(spro))
      BY <2>3, <2>5 DEF AppTimer, Running
    <3>2. Expired(spro).r \in Reader /\ Expired(spro).calls \in Seq(CallBack)
      BY <3>1, ExpiredType
    <3> QED BY <2>2, <3>1, <3>2
  <2> QED BY <1>8, <2>4, <2>5
<1>9. CASE Asks
  <2>1. ToSet(events') \cap Answered = ToSet(events) \cap Answered
    <3>1. \/ events' = events \o Exit
          \/ \E e \in CoreEvent \ Answered : events' = Append(events, e)
      BY <1>9 DEF Asks, LongPress, ShortPress, McuAp, McuTouch, Post, CoreEvent
    <3> QED BY ONLY <1>p, <3>1, Zenon
  <2>2. UNCHANGED <<mode, armed, spro, fault>>
    BY <1>9 DEF Asks, settingVars
  <2>3. Owed' => Owed
    BY <2>1, <2>2 DEF Owed
  <2>4. \A x \in {"exit", "selfap_exit"} : due'[x] = due[x]
    <3>1. due' = due \/ \E x \in {"enter_ap", "enter_touch", "enter_key"} : due' = Arm(due, x)
      BY <1>9 DEF Asks, LongPress, ShortPress, McuAp, McuTouch
    <3> QED BY <1>i, <1>s, <3>1 DEF Arm
  <2> QED BY <1>f, <2>2, <2>3, <2>4 DEF AnswerFinds, Running
<1>10. CASE Network
  <2>1. ToSet(events') \cap Answered = ToSet(events) \cap Answered
    <3>1. events' = events \/ \E e \in CoreEvent \ Answered : events' = Append(events, e)
      BY <1>10 DEF Network, NetworkLost, UpgradeEnds, ServerPackage, Post, CoreEvent, Foreign
    <3> QED BY ONLY <1>p, <3>1, Zenon
  <2>2. UNCHANGED <<due, armed, spro, fault>> /\ (mode' = mode \/ mode' = "WORK")
    BY <1>10 DEF Network, NetworkLost, UpgradeEnds, ServerPackage, Ousts, timerVars, settingVars
  <2>3. Owed' => Owed
    BY <2>1, <2>2 DEF Owed
  <2> QED BY <1>f, <2>2, <2>3 DEF AnswerFinds, Running
<1> QED BY <1>a, <1>1, <1>2, <1>3, <1>4, <1>5, <1>6, <1>7, <1>8, <1>9, <1>10 DEF PairingNext, Timers

LEMMA PairingStarts == PairingInit => PairingInv
<1>1. SUFFICES ASSUME PairingInit PROVE PairingTypeOK /\ AnswerFinds /\ CalmInv
  BY DEF PairingInv
<1>2. ToSet(events) = {} /\ OneOfEach(events) /\ events \in Seq(CoreEvent) /\ app \in Seq(Unit)
  BY <1>1 DEF PairingInit, ToSet, OneOfEach
<1>3. PairingTypeOK
  <2>1. counter \in 0..Timeout - 1 /\ asked \in 0..MaxAsked /\ due \in [Short -> 0..4]
    BY <1>1, PairingAssumption DEF PairingInit
  <2> QED BY <1>1, <1>2, <2>1 DEF PairingInit, PairingTypeOK
<1>4. CalmInv /\ AnswerFinds
  BY <1>1, <1>2 DEF PairingInit, CalmInv, AnswerFinds, EnterInv, WorkInv, SelfapInv, SettingInv, OwedInv, Owed,
                    Running, Has, Short, Enters
<1> QED BY <1>3, <1>4

LEMMA PairingSteps == PairingInv /\ [PairingNext]_pairingVars => PairingInv'
<1>1. CASE UNCHANGED pairingVars
  <2>1. ASSUME UNCHANGED pairingVars, PairingTypeOK PROVE PairingTypeOK'
    BY <2>1 DEF PairingTypeOK, pairingVars, settingVars, wifiVars, timerVars, history
  <2>2. ASSUME UNCHANGED pairingVars, CalmInv PROVE CalmInv'
    BY <2>2 DEF pairingVars, settingVars, wifiVars, timerVars, CalmInv, EnterInv, WorkInv, SelfapInv, SettingInv,
                OwedInv, Owed, Has, Running, Left, Starts, Serves, Looks, Leaves, NoSearch
  <2>3. ASSUME UNCHANGED pairingVars, AnswerFinds PROVE AnswerFinds'
    BY <2>3 DEF pairingVars, settingVars, timerVars, AnswerFinds, Owed, Running
  <2>4. UNCHANGED pairingVars => UNCHANGED <<hurry, ousted>>
    BY DEF pairingVars, history
  <2> QED BY <1>1, <2>1, <2>2, <2>3, <2>4 DEF PairingInv
<1>2. ASSUME PairingTypeOK, CalmInv, ~hurry', ~ousted', PairingNext PROVE CalmInv'
  BY <1>2, CalmTask, CalmTick, CalmShortTimers, CalmTimeout, CalmDelayResp, CalmWaitingClient, CalmJoinTimer,
     CalmSearch, CalmApp, CalmAsks, CalmJoinApTimer, CalmNetwork DEF PairingNext, Timers
<1>3. ASSUME PairingInv, PairingNext PROVE PairingInv'
  <2>1. PairingTypeOK /\ PairingTypeOK'
    BY <1>3, PairingTypes DEF PairingInv
  <2>2. /\ ~hurry' => AnswerFinds
        /\ ~hurry' /\ ~ousted' => CalmInv
    BY <1>3, <2>1, HistoryStays DEF PairingInv
  <2>3. ~hurry' => AnswerFinds'
    BY <1>3, <2>1, <2>2, AnswerStays
  <2>4. ~hurry' /\ ~ousted' => CalmInv'
    BY <1>2, <1>3, <2>1, <2>2
  <2> QED BY <2>1, <2>3, <2>4 DEF PairingInv
<1> QED BY <1>1, <1>3

(* Whatever the requests of the app, the size of the buffer, the timeout   *)
(* and the events that wait: before a disturbance who waits for an answer  *)
(* finds the server, whatever the network, the server's packages and an    *)
(* upgrade do to the mode; and as long as none of them set it while        *)
(* pairing was under way, the core task and the timers of iotgo_setting.c  *)
(* keep the queue, the timers, the search, the server and the mode in step.*)
THEOREM PairingInvHolds == PairingSpec => []PairingInv
BY PairingStarts, PairingSteps, PTL DEF PairingSpec

(* The buffers are not used after iotgoSettingServerStop freed them,       *)
(* whichever handler sets the mode, unless something of Disturbed came     *)
(* before.                                                                 *)
THEOREM NoNullBufferHolds == PairingSpec => []NoNullBuffer
<1>1. PairingInv => NoNullBuffer
  BY DEF PairingInv, AnswerFinds, NoNullBuffer
<1> QED BY <1>1, PairingInvHolds, PTL

(* The buffers of a running server are not replaced, unless another        *)
(* handler set the mode while pairing was under way, or something of       *)
(* Disturbed came before.                                                  *)
THEOREM StartedOnceHolds == PairingSpec => []StartedOnce
<1>1. PairingInv => StartedOnce
  BY DEF PairingInv, CalmInv, StartedOnce
<1> QED BY <1>1, PairingInvHolds, PTL

(* Back at work, nothing of pairing is left, as long as pairing itself led *)
(* back, and undisturbed.                                                  *)
THEOREM QuietAtWorkHolds == PairingSpec => []QuietAtWork
<1>1. PairingInv => QuietAtWork
  BY DEF PairingInv, CalmInv, QuietAtWork, WorkInv
<1> QED BY <1>1, PairingInvHolds, PTL

(* Pairing never waits for nothing, as long as it is undisturbed and no    *)
(* other handler sets the mode, and every variable has its type.           *)
THEOREM PairingServesHolds == PairingSpec => []PairingServes
<1>1. PairingInv => PairingServes
  <2> SUFFICES ASSUME PairingTypeOK, CalmInv, ~Changing
               PROVE  /\ mode = "SELFAP" => ap /\ Running /\ sc = "off" /\ "monitor" \in armed
                      /\ mode = "SETTING" => \/ ToSet(events) \cap {"SC_START", "SC_RESTART", "SC_STOP"} # {}
                                             \/ "monitor" \in armed /\ (sc # "off") # Running
    BY DEF PairingInv, PairingServes
  <2>1. /\ due \in [Short -> 0..4] /\ SelfapInv /\ SettingInv
    BY DEF PairingTypeOK, CalmInv
  <2>2. due["exit"] = 0 /\ due["selfap_exit"] = 0 /\ (mode = "SETTING" => ~Has("JOIN_AP"))
    BY <2>1 DEF Changing, Leaving, Short, Has
  <2>3. mode = "SELFAP" => ap /\ Running /\ sc = "off" /\ "monitor" \in armed
    BY <2>1, <2>2 DEF SelfapInv
  <2>4. mode = "SETTING" => Starts \/ Serves \/ Looks
    BY <2>1, <2>2 DEF SettingInv, Left, Has
  <2>5. /\ Starts => ToSet(events) \cap {"SC_START", "SC_RESTART", "SC_STOP"} # {}
        /\ Serves \/ Looks => "monitor" \in armed /\ (sc # "off") # Running
    BY DEF Starts, Serves, Looks, Has
  <2> QED BY <2>3, <2>4, <2>5
<1> QED BY <1>1, PairingInvHolds, PTL

------------------------------------------------------------------------------
(* What the reader's functions do with the cells: a segment is written     *)
(* behind what waits, and the length of the first frame is read from it.   *)
\* The cells after a segment was written.
LEMMA WrittenIs ==
    ASSUME NEW r \in Reader, NEW data \in Seq(Unit)
    PROVE  LET w == Written(r, data) IN
           /\ w \in Reader /\ w.wild = r.wild /\ w.index >= r.index
           /\ w.index = IF r.index + Len(data) <= Size THEN r.index + Len(data) ELSE Size
           /\ \A i \in 1..Size : w.cell[i] = IF i \in r.index + 1..w.index THEN data[i - r.index] ELSE r.cell[i]
<1>1. r.index \in 0..Size /\ r.cell \in [1..Size -> Unit] /\ Len(data) \in Nat /\ Size \in Nat
  BY ReaderAssumption DEF Reader
<1>2. Written(r, data) \in Reader
  BY WrittenType
<1> DEFINE top == IF r.index + Len(data) <= Size THEN r.index + Len(data) ELSE Size
           new == [i \in 1..Size |-> IF i \in r.index + 1..top THEN data[i - r.index] ELSE r.cell[i]]
<1>3. Written(r, data) = [r EXCEPT !.cell = new, !.index = top]
  BY DEF Written, Reader
<1>4. top >= r.index
  BY <1>1
<1>5. Written(r, data).index = top /\ Written(r, data).cell = new /\ Written(r, data).wild = r.wild
  <2> HIDE DEF top, new
  <2> QED BY <1>3 DEF Reader
<1> QED BY <1>2, <1>4, <1>5

\* A length of one unit.
LEMMA NumberAbout == ASSUME NEW u PROVE Number(u) \in Nat /\ Number(u) <= 127
BY SMT DEF Number

\* The length of the frame at the front of the buffer depends on its first
\* cells only: their units, the number of the second and that of the next two.
FrameNeeds(len, i, a, b, n, m) ==
    len = IF a \notin {"81", "8a"} THEN -1
          ELSE IF i < 2 THEN 0
          ELSE IF a = "8a" THEN IF b # Nul THEN -1 ELSE 2
          ELSE IF n = 127 THEN -1
          ELSE IF n <= 125 THEN IF i < n + 2 THEN 0 ELSE n + 2
          ELSE IF i < 4 \/ i < m THEN 0 ELSE m
Wide(h, l) == 256 * Number(h) + Number(l) + 4

LEMMA WsLengthIs ==
    ASSUME NEW r \in Reader
    PROVE  FrameNeeds(WsLength(r), r.index, r.cell[1], r.cell[2], Number(r.cell[2]), Wide(r.cell[3], r.cell[4]))
<1>1. Number(r.cell[2]) \in Nat /\ Number(r.cell[2]) <= 127 /\ Number(r.cell[3]) \in Nat /\ Number(r.cell[4]) \in Nat
  BY NumberAbout
<1>2. PICK n, h, l, i \in Nat : n = Number(r.cell[2]) /\ h = Number(r.cell[3]) /\ l = Number(r.cell[4]) /\ i = r.index
  BY <1>1, ReaderAssumption DEF Reader
<1>3. PICK m \in Nat : m = 256 * h + l + 4 /\ m >= 4
  BY SMT
<1> DEFINE a == r.cell[1]
           b == r.cell[2]
<1>6. WsLength(r) = LET need == IF a = "8a" THEN 2 ELSE IF n <= 125 THEN n + 2 ELSE IF i < 4 THEN 4 ELSE m IN
                    IF a \notin {"81", "8a"} THEN -1
                    ELSE IF i < 2 THEN 0
                    ELSE IF a = "8a" /\ b # Nul THEN -1
                    ELSE IF a = "81" /\ n = 127 THEN -1
                    ELSE IF i < need THEN 0 ELSE need
  BY <1>2, <1>3, ZenonT(30) DEF WsLength
<1>7. m = Wide(r.cell[3], r.cell[4]) /\ n <= 127
  BY <1>1, <1>2, <1>3, Zenon DEF Wide
<1> HIDE DEF a, b
<1>8. FrameNeeds(WsLength(r), i, a, b, n, m)
  BY ONLY <1>3, <1>6, <1>7, i \in Nat, n \in Nat, m \in Nat, SMT DEF FrameNeeds
<1> QED BY ONLY <1>2, <1>7, <1>8, Zenon DEF a, b

\* What follows the first frame of the buffer is less than d.
Little(r, d) == WsLength(r) <= 0 \/ r.index - WsLength(r) < d

\* A segment behind no whole frame leaves little behind the first frame.
LEMMA LittleRest ==
    ASSUME NEW r \in Reader, NEW data \in Seq(Unit), Len(data) > 0,
           r.index = 0 \/ WsLength(r) <= 0
    PROVE  Written(r, data).index > 0 /\ Little(Written(r, data), Len(data))
<1> DEFINE w == Written(r, data)
<1>1. /\ w \in Reader /\ w.index >= r.index
      /\ w.index = IF r.index + Len(data) <= Size THEN r.index + Len(data) ELSE Size
      /\ \A i \in 1..Size : w.cell[i] = IF i \in r.index + 1..w.index THEN data[i - r.index] ELSE r.cell[i]
  BY WrittenIs
<1> HIDE DEF w
<1>2. PICK i, j, d, s \in Nat : i = r.index /\ j = w.index /\ d = Len(data) /\ d > 0 /\ s = Size
  BY <1>1, ReaderAssumption DEF Reader
<1>3. i <= s /\ j > 0 /\ j <= i + d /\ i <= j /\ j <= s
  BY <1>1, <1>2, ReaderAssumption DEF Reader
<1>4. \A k \in 1..i : w.cell[k] = r.cell[k]
  <2> SUFFICES ASSUME NEW k \in 1..i PROVE w.cell[k] = r.cell[k]
    OBVIOUS
  <2>1. k \in 1..Size /\ k \notin r.index + 1..w.index
    BY <1>2, <1>3
  <2> QED BY <1>1, <2>1
<1> DEFINE a == r.cell[1]
           b == r.cell[2]
           a1 == w.cell[1]
           b1 == w.cell[2]
<1>5. PICK n, m, n1, m1 \in Nat :
        n = Number(b) /\ n1 = Number(b1) /\ m = Wide(r.cell[3], r.cell[4]) /\ m1 = Wide(w.cell[3], w.cell[4])
        /\ m >= 4 /\ m1 >= 4
  <2>1. \A h, l : Wide(h, l) \in Nat /\ Wide(h, l) >= 4
    <3>1. \A u : Number(u) \in Nat
      BY NumberAbout
    <3> QED BY <3>1, SMT DEF Wide
  <2>2. Number(b) \in Nat /\ Number(b1) \in Nat
    BY NumberAbout
  <2> QED BY <2>1, <2>2
<1>6. PICK x, y \in Int : x = WsLength(r) /\ y = WsLength(w)
  BY <1>1, WsLengthType
<1>7. FrameNeeds(x, i, a, b, n, m) /\ FrameNeeds(y, j, a1, b1, n1, m1)
  <2>1. FrameNeeds(WsLength(r), r.index, r.cell[1], r.cell[2], Number(r.cell[2]), Wide(r.cell[3], r.cell[4]))
    BY WsLengthIs, Zenon
  <2>2. FrameNeeds(WsLength(w), w.index, w.cell[1], w.cell[2], Number(w.cell[2]), Wide(w.cell[3], w.cell[4]))
    BY <1>1, WsLengthIs, Zenon
  <2> QED BY ONLY <2>1, <2>2, <1>2, <1>5, <1>6, Zenon DEF a, b, a1, b1
<1>8. /\ i >= 1 => a1 = a
      /\ i >= 2 => b1 = b /\ n1 = n
      /\ i >= 4 => m1 = m
  <2>1. /\ i >= 1 => 1 \in 1..i
        /\ i >= 2 => 2 \in 1..i
        /\ i >= 4 => 3 \in 1..i /\ 4 \in 1..i
    OBVIOUS
  <2> QED BY ONLY <2>1, <1>4, <1>5, Zenon DEF a, b, a1, b1
<1>0. m1 >= 4
  BY <1>5
<1> HIDE DEF a, b, a1, b1
<1>9. y <= 0 \/ j - y < d
  <2>1. i = 0 \/ x <= 0
    BY <1>2, <1>6
  <2> QED BY ONLY <1>0, <1>7, <1>8, <1>3, <2>1, i \in Nat, j \in Nat, d \in Nat, s \in Nat, x \in Int, y \in Int,
             n \in Nat, m \in Nat, n1 \in Nat, m1 \in Nat, SMT DEF FrameNeeds
<1>10. Little(w, Len(data))
  BY <1>2, <1>6, <1>9 DEF Little
<1> QED BY <1>2, <1>3, <1>10 DEF w

------------------------------------------------------------------------------
(* A frame is taken from the front of the buffer and the rest moves down.   *)
(* serverRxRead then clears as many cells behind the rest as it has, which  *)
(* runs past the end of the buffer if the rest is more than half of it.     *)
\* The reader never takes a frame that has not arrived.
LEMMA WsLengthFits == ASSUME NEW r \in Reader PROVE WsLength(r) \in Nat \cup {-1} /\ WsLength(r) <= r.index
<1>1. PICK n, i \in Nat, m \in Nat : n = Number(r.cell[2]) /\ i = r.index /\ m = Wide(r.cell[3], r.cell[4])
  <2>1. \A u : Number(u) \in Nat
    BY NumberAbout
  <2>2. Wide(r.cell[3], r.cell[4]) \in Nat
    BY <2>1, SMT DEF Wide
  <2> QED BY <2>1, <2>2, ReaderAssumption DEF Reader
<1>2. PICK x \in Int : x = WsLength(r)
  BY WsLengthType
<1> DEFINE a == r.cell[1]
           b == r.cell[2]
<1>3. FrameNeeds(WsLength(r), r.index, r.cell[1], r.cell[2], Number(r.cell[2]), Wide(r.cell[3], r.cell[4]))
  BY WsLengthIs, Zenon
<1>4. FrameNeeds(x, i, a, b, n, m)
  BY ONLY <1>1, <1>2, <1>3, Zenon DEF a, b
<1> HIDE DEF a, b
<1>5. x <= i
  BY ONLY <1>4, x \in Int, i \in Nat, n \in Nat, m \in Nat, SMT DEF FrameNeeds
<1> QED BY <1>1, <1>2, <1>5, WsLengthType

\* A reader with nothing left in an empty buffer and without a field of an
\* HTTP head.
Calm(r) ==
    /\ r \in Reader /\ (r.index = 0 => r.cell = Blank)
    /\ \A i \in 1..Size : r.cell[i] \notin Lengths
NoEnd(r) == \A i \in 1..Size : r.cell[i] # EndOfHead

\* The cells of t are zeroes or cells of r.
Within(t, r) == \A i \in 1..Size : t.cell[i] = Nul \/ \E j \in 1..Size : t.cell[i] = r.cell[j]

\* The front len cells of r were taken.
Taken(t, r, len) ==
    /\ t \in Reader /\ (t.wild => r.wild \/ 2 * t.index > Size) /\ t.index = r.index - len /\ (t.index = 0 => t.cell = Blank)
    /\ \A i \in 1..t.index : t.cell[i] = r.cell[i + len]
    /\ Within(t, r)

\* The rest is moved as it is.
LEMMA ReadIs ==
    ASSUME NEW r \in Reader, NEW len \in Nat, len > 0, len <= r.index
    PROVE  Taken(Read(r, len), r, len)
<1> DEFINE rest == r.index - len
           new == [i \in 1..Size |-> IF i <= rest THEN r.cell[i + len]
                                     ELSE IF i <= 2 * rest THEN Nul ELSE r.cell[i]]
           wild == r.wild \/ 2 * rest > Size
<1>1. r.index \in 0..Size /\ r.cell \in [1..Size -> Unit] /\ Size \in Nat /\ rest \in 0..Size
  BY ReaderAssumption DEF Reader
<1>2. Read(r, len) \in Reader
  BY ReadType
<1>3. CASE rest = 0
  <2>1. Read(r, len) = Flushed(r)
    BY <1>3 DEF Read
  <2>2. Flushed(r).wild = r.wild /\ Flushed(r).index = 0 /\ Flushed(r).cell = Blank
    BY DEF Flushed, Reader
  <2>3. \A i \in 1..Size : Blank[i] = Nul
    BY DEF Blank
  <2> QED BY <1>1, <1>2, <1>3, <2>1, <2>2, <2>3 DEF Taken, Within
<1>4. CASE rest # 0
  <2>1. Read(r, len) = [r EXCEPT !.cell = new, !.index = rest, !.wild = wild]
    BY <1>1, <1>4 DEF Read, Reader
  <2>2. Read(r, len).wild = wild /\ Read(r, len).index = rest /\ Read(r, len).cell = new
    <3> HIDE DEF new, rest, wild
    <3> QED BY <2>1 DEF Reader
  <2>3. \A i \in 1..rest : new[i] = r.cell[i + len]
    BY <1>1
  <2>4. \A i \in 1..Size : new[i] = Nul \/ \E j \in 1..Size : new[i] = r.cell[j]
    <3> SUFFICES ASSUME NEW i \in 1..Size PROVE new[i] = Nul \/ \E j \in 1..Size : new[i] = r.cell[j]
      OBVIOUS
    <3>1. i <= rest => i + len \in 1..Size
      BY <1>1
    <3> QED BY <1>1, <3>1
  <2> HIDE DEF new
  <2> QED BY <1>1, <1>2, <1>4, <2>2, <2>3, <2>4 DEF Taken, Within
<1> QED BY <1>3, <1>4

LEMMA WithinKeeps ==
    ASSUME NEW r, NEW t, Within(t, r)
    PROVE  /\ (\A i \in 1..Size : r.cell[i] \notin Lengths) => \A i \in 1..Size : t.cell[i] \notin Lengths
           /\ NoEnd(r) => NoEnd(t)
<1>1. Nul \notin Lengths /\ Nul # EndOfHead
  BY DEF Nul, Lengths, EndOfHead
<1> QED BY <1>1 DEF Within, NoEnd

\* A pass of the WebSocket loop over a frame, or none.
FramePass(s, t) ==
    LET len == WsLength(s.r) IN
    /\ t \in PassState /\ (t.r.wild => s.r.wild \/ (len > 0 /\ 2 * t.r.index > Size))
    /\ \/ len = -1 /\ t.r.index = 0 /\ t.r.cell = Blank /\ ~t.more /\ t.calls = Append(s.calls, Call(s.r, s.r.index, FALSE))
       \/ len = 0 /\ t.r.index = s.r.index /\ t.r.cell = s.r.cell /\ ~t.more /\ t.calls = s.calls
       \/ /\ len > 0 /\ t.r.index = s.r.index - len /\ (t.r.index = 0 => t.r.cell = Blank)
          /\ \A i \in 1..t.r.index : t.r.cell[i] = s.r.cell[i + len]
          /\ Within(t.r, s.r)
          /\ t.calls = Append(s.calls, Call(s.r, len, TRUE)) /\ t.more = (t.r.index > 0)

LEMMA WsPassIs ==
    ASSUME NEW s \in PassState
    PROVE  FramePass(s, WsPass(s))
<1> DEFINE r == s.r
           len == WsLength(r)
           calm == [r EXCEPT !.armed = FALSE, !.opened = FALSE]
           taken == Read(calm, len)
           left == IF taken.index > 0 /\ taken.cell[1] \in {"81", "8a"} THEN Waiting(taken) ELSE taken
           t == WsPass(s)
<1> SUFFICES FramePass(s, t)
  OBVIOUS
<1>1. r \in Reader /\ len \in Nat \cup {-1} /\ len <= r.index /\ t \in PassState
  BY WsLengthFits, WsPassType DEF PassState
<1>2. t = IF len = -1 THEN [r |-> Flushed(r), calls |-> Append(s.calls, Call(r, r.index, FALSE)), more |-> FALSE]
          ELSE IF len = 0 THEN [s EXCEPT !.r = Waiting(r), !.more = FALSE]
          ELSE [r |-> left, calls |-> Append(s.calls, Call(r, len, TRUE)), more |-> taken.index > 0]
  BY DEF WsPass
<1>3. CASE len = -1
  <2>1. t = [r |-> Flushed(r), calls |-> Append(s.calls, Call(r, r.index, FALSE)), more |-> FALSE]
    BY <1>2, <1>3
  <2>2. Flushed(r).wild = r.wild /\ Flushed(r).index = 0 /\ Flushed(r).cell = Blank
    BY <1>1 DEF Flushed, Reader
  <2>3. t.r = Flushed(r) /\ t.calls = Append(s.calls, Call(r, r.index, FALSE)) /\ t.more = FALSE
    <3> HIDE DEF t, r
    <3> QED BY <2>1
  <2> HIDE DEF t
  <2> QED BY <1>1, <1>3, <2>2, <2>3, Zenon DEF FramePass
<1>4. CASE len = 0
  <2>1. t = [s EXCEPT !.r = Waiting(r), !.more = FALSE]
    BY <1>2, <1>4
  <2>2. Waiting(r).wild = r.wild /\ Waiting(r).index = r.index /\ Waiting(r).cell = r.cell
    BY <1>1 DEF Waiting, Reader
  <2>3. t.r = Waiting(r) /\ t.calls = s.calls /\ t.more = FALSE
    <3> HIDE DEF t, r
    <3> QED BY <2>1 DEF PassState
  <2> HIDE DEF t
  <2> QED BY <1>1, <1>4, <2>2, <2>3, Zenon DEF FramePass
<1>5. CASE len # -1 /\ len # 0
  <2>1. t = [r |-> left, calls |-> Append(s.calls, Call(r, len, TRUE)), more |-> taken.index > 0]
    BY <1>2, <1>5
  <2>2. calm \in Reader /\ calm.index = r.index /\ calm.cell = r.cell /\ calm.wild = r.wild
    BY <1>1 DEF Reader
  <2>4. Taken(taken, calm, len)
    <3>1. len \in Nat /\ len > 0 /\ len <= calm.index
      BY <1>1, <1>5, <2>2
    <3> HIDE DEF len, calm
    <3> QED BY <2>2, <3>1, ReadIs
  <2> HIDE DEF taken
  <2>5. left \in Reader /\ left.index = taken.index /\ left.cell = taken.cell /\ left.wild = taken.wild
    BY <2>4 DEF Taken, Waiting, Reader
  <2>6. t.r = left /\ t.calls = Append(s.calls, Call(r, len, TRUE)) /\ t.more = (taken.index > 0)
    <3> HIDE DEF t, left, r, len
    <3> QED BY <2>1
  <2>7. Within(left, r)
    BY <2>2, <2>4, <2>5 DEF Taken, Within
  <2> HIDE DEF t, left, calm
  <2>8. /\ t.r.index = r.index - len /\ (t.r.index = 0 => t.r.cell = Blank)
        /\ \A i \in 1..t.r.index : t.r.cell[i] = r.cell[i + len]
    BY <2>2, <2>4, <2>5, <2>6 DEF Taken
  <2>9. len > 0 /\ t.more = (t.r.index > 0) /\ Within(t.r, r)
    BY <1>1, <1>5, <2>2, <2>4, <2>5, <2>6, <2>7 DEF Taken
  <2>10. t.r.wild => r.wild \/ 2 * t.r.index > Size
    BY <2>2, <2>4, <2>5, <2>6, Zenon DEF Taken
  <2> QED BY <1>1, <2>6, <2>8, <2>9, <2>10, Zenon DEF FramePass
<1> QED BY <1>3, <1>4, <1>5

------------------------------------------------------------------------------
(* The passes of the WebSocket loop.                                       *)
\* The passes of the WebSocket loop over the buffer r.
FrameRun(after, r) ==
    /\ after \in [0..Size + 1 -> PassState] /\ after[0] = [r |-> r, calls |-> <<>>, more |-> TRUE]
    /\ \A n \in 1..Size + 1 : after[n] = IF after[n - 1].more THEN WsPass(after[n - 1]) ELSE after[n - 1]

LEMMA WsLoopRun ==
    ASSUME NEW r \in Reader
    PROVE  \E after : FrameRun(after, r) /\ Loop(WsPass, r) = after[Size + 1]
<1> DEFINE x == [r |-> r, calls |-> <<>>, more |-> TRUE]
           F == [p \in Nat \X PassState |-> IF p[2].more THEN WsPass(p[2]) ELSE p[2]]
           Step(f) == [n \in 0..Size + 1 |->
                          LET s == f[n - 1] IN
                          IF n = 0 THEN [r |-> r, calls |-> <<>>, more |-> TRUE]
                          ELSE IF s.more THEN WsPass(s) ELSE s]
           after == CHOOSE f : f = Step(f)
<1>1. Loop(WsPass, r) = after[Size + 1]
  BY DEF Loop
<1>2. x \in PassState /\ F \in [Nat \X PassState -> PassState] /\ Size + 1 \in Nat
  BY WsPassType, ReaderAssumption DEF PassState
<1>3. PICK g \in [0..Size + 1 -> PassState] : Steps(g, F, x, 0, Size + 1)
  <2> HIDE DEF x, F
  <2>1. 0 \in Nat /\ 0 <= Size + 1
    BY <1>2
  <2> QED BY <1>2, <2>1, StepsExist
<1>4. ASSUME NEW n \in 0..Size + 1 PROVE g[n] = Step(g)[n]
  <2>1. CASE n = 0
    BY <1>3, <2>1 DEF Steps
  <2>2. CASE n # 0
    <3>1. n - 1 \in 0..Size + 1 /\ n \in Nat /\ g[n - 1] \in PassState
      BY <1>2, <2>2
    <3>2. g[n] = F[<<n, g[n - 1]>>]
      <4> HIDE DEF F, x
      <4> QED BY <1>3, <2>2 DEF Steps
    <3> QED BY <2>2, <3>1, <3>2
  <2> QED BY <2>1, <2>2
<1>5. g = Step(g)
  <2> HIDE DEF F, x
  <2> QED BY <1>4
<1>6. after = Step(after)
  <2> HIDE DEF Step
  <2> QED BY <1>5
<1>7. after[0] = x /\ \A n \in 1..Size + 1 : after[n] = IF after[n - 1].more THEN WsPass(after[n - 1]) ELSE after[n - 1]
  <2>1. \A n \in 0..Size + 1 : after[n] = Step(after)[n]
    <3> HIDE DEF after, Step
    <3> QED BY <1>6
  <2>2. 0 \in 0..Size + 1 /\ \A n \in 1..Size + 1 : n \in 0..Size + 1 /\ n # 0
    BY <1>2
  <2>3. after[0] = x
    <3> HIDE DEF after
    <3> QED BY <2>1, <2>2
  <2>4. ASSUME NEW n \in 1..Size + 1
        PROVE  after[n] = IF after[n - 1].more THEN WsPass(after[n - 1]) ELSE after[n - 1]
    <3> HIDE DEF after
    <3> QED BY <2>1, <2>2
  <2> QED BY <2>3, <2>4
<1>8. \A n \in 0..Size + 1 : after[n] \in PassState
  <2>1. \A n \in 0 + 1..Size + 1 : after[n - 1] \in PassState => after[n] \in PassState
    <3> HIDE DEF after
    <3> QED BY <1>2, <1>7, WsPassType
  <2> HIDE DEF after, x
  <2>2. 0 \in Nat /\ after[0] \in PassState
    BY <1>2, <1>7
  <2> QED BY <1>2, <2>1, <2>2, Induction
<1>9. after \in [0..Size + 1 -> PassState]
  <2>1. \E Q : after = [n \in 0..Size + 1 |-> Q[n]]
    <3>1. after = [n \in 0..Size + 1 |-> Step(after)[n]]
      BY <1>6
    <3> HIDE DEF after, Step
    <3> QED BY <3>1
  <2> HIDE DEF after
  <2> QED BY <1>8, <2>1
<1> HIDE DEF after
<1> QED BY <1>1, <1>7, <1>9 DEF FrameRun

LEMMA WsLengthSame ==
    ASSUME NEW r \in Reader, NEW t \in Reader, t.index = r.index, t.cell = r.cell
    PROVE  WsLength(t) = WsLength(r)
BY ZenonT(30) DEF WsLength

\* Between the passes after a segment of d: less than d is left to be moved
\* down, and when the loop ends no whole frame is left.
Tame(s, d) ==
    /\ Calm(s.r) /\ (s.r.wild => 2 * d > Size)
    /\ s.more => s.r.index > 0 /\ Little(s.r, d) /\ (NoEnd(s.r) \/ WsLength(s.r) = -1)
    /\ ~s.more => NoEnd(s.r) /\ (s.r.index = 0 \/ WsLength(s.r) <= 0)

LEMMA BlankIs == \A i \in 1..Size : Blank[i] = Nul /\ Blank[i] # EndOfHead /\ Blank[i] \notin Lengths
BY DEF Blank, Nul, EndOfHead, Lengths

LEMMA TameStep ==
    ASSUME NEW d \in Int, NEW s \in PassState, s.more, Tame(s, d)
    PROVE  Tame(WsPass(s), d) /\ (WsPass(s).more => WsPass(s).r.index < s.r.index) /\ FramePass(s, WsPass(s))
<1> DEFINE t == WsPass(s)
<1> SUFFICES Tame(t, d) /\ (t.more => t.r.index < s.r.index) /\ FramePass(s, t)
  OBVIOUS
<1>1. Calm(s.r) /\ s.r.index > 0 /\ Little(s.r, d) /\ (NoEnd(s.r) \/ WsLength(s.r) = -1) /\ (s.r.wild => 2 * d > Size)
  BY DEF Tame
<1>2. FramePass(s, t)
  BY WsPassIs
<1> HIDE DEF t
<1>3. PICK x, i, j \in Int : x = WsLength(s.r) /\ i = s.r.index /\ j = t.r.index
  <2>1. s.r \in Reader /\ t.r \in Reader
    BY <1>2 DEF FramePass, PassState
  <2>2. WsLength(s.r) \in Int
    BY <2>1, WsLengthType
  <2> QED BY <2>1, <2>2, ReaderAssumption DEF Reader
<1>4. t.r \in Reader /\ s.r \in Reader /\ (t.r.wild => s.r.wild \/ (WsLength(s.r) > 0 /\ 2 * t.r.index > Size))
  BY <1>2, Zenon DEF FramePass, PassState
<1>9. t.r.wild /\ x <= 0 => 2 * d > Size
  BY <1>1, <1>3, <1>4
<1>5. CASE x = -1
  <2>1. t.r.index = 0 /\ t.r.cell = Blank /\ ~t.more
    BY <1>2, <1>3, <1>5, SMT DEF FramePass
  <2>2. Calm(t.r) /\ NoEnd(t.r)
    BY <1>4, <2>1, BlankIs DEF Calm, NoEnd
  <2> QED BY <1>2, <1>5, <1>9, <2>1, <2>2 DEF Tame
<1>6. CASE x = 0
  <2>1. t.r.index = s.r.index /\ t.r.cell = s.r.cell /\ ~t.more
    BY <1>2, <1>3, <1>6, SMT DEF FramePass
  <2>2. WsLength(t.r) = WsLength(s.r)
    BY <1>4, <2>1, WsLengthSame
  <2>3. Calm(t.r) /\ NoEnd(t.r)
    BY <1>1, <1>3, <1>4, <1>6, <2>1 DEF Calm, NoEnd
  <2>4. WsLength(t.r) <= 0
    <3>1. WsLength(t.r) = 0
      BY <1>3, <1>6, <2>2, Zenon
    <3> QED BY <3>1
  <2>5. t.r.wild => 2 * d > Size
    BY <1>6, <1>9
  <2> QED BY <1>2, <2>1, <2>3, <2>4, <2>5, Zenon DEF Tame
<1>7. CASE x > 0
  <2>0. WsLength(s.r) # -1 /\ WsLength(s.r) # 0
    BY <1>3, <1>7
  <2>1. /\ t.r.index = s.r.index - WsLength(s.r) /\ (t.r.index = 0 => t.r.cell = Blank)
        /\ Within(t.r, s.r) /\ t.more = (t.r.index > 0)
    BY <1>2, <2>0, Zenon DEF FramePass
  <2>2. j < d /\ j = i - x
    BY <1>1, <1>3, <1>7, <2>1 DEF Little
  <2>3. Little(t.r, d)
    <3>1. PICK y \in Int : y = WsLength(t.r)
      BY <1>4, WsLengthType
    <3> QED BY <1>3, <2>2, <3>1 DEF Little
  <2>4. NoEnd(t.r) /\ \A k \in 1..Size : t.r.cell[k] \notin Lengths
    BY <1>1, <1>3, <1>7, <2>1, WithinKeeps DEF Calm
  <2>5. Calm(t.r) /\ t.r.index \in Nat
    BY <1>4, <2>1, <2>4, ReaderAssumption DEF Calm, Reader
  <2>6. t.r.index < s.r.index
    BY <1>3, <1>7, <2>2
  <2>7. t.more => t.r.index > 0
    BY <2>1, Zenon
  <2>8. ~t.more => t.r.index = 0
    <3>1. ~t.more => ~(t.r.index > 0)
      BY <2>1, Zenon
    <3> QED BY <2>5, <3>1
  <2>9. t.r.wild => 2 * d > Size
    <3>1. t.r.wild => s.r.wild \/ 2 * j > Size
      BY <1>3, <1>4
    <3> QED BY <1>1, <1>3, <2>2, <3>1, ReaderAssumption
  <2> QED BY <1>2, <2>3, <2>4, <2>5, <2>6, <2>7, <2>8, <2>9, Zenon DEF Tame
<1>8. x = -1 \/ x = 0 \/ x > 0
  BY <1>3, <1>4, WsLengthType
<1> QED BY <1>5, <1>6, <1>7, <1>8

\* The loop takes all the whole frames: each pass shortens what is left.
LEMMA TameRun ==
    ASSUME NEW d \in Int, NEW w, NEW after, FrameRun(after, w), Tame(after[0], d)
    PROVE  (\A n \in 0..Size + 1 : Tame(after[n], d)) /\ ~after[Size + 1].more
<1> DEFINE g == [n \in 0..Size + 1 |-> <<n, after[n]>>]
           S == {q \in (0..Size + 1) \X PassState : Tame(q[2], d) /\ (q[2].more => q[2].r.index <= Size - q[1])}
<1>1. Size \in Nat /\ 0 \in 0..Size + 1 /\ after \in [0..Size + 1 -> PassState] /\ Size + 1 \in 0..Size + 1
  BY ReaderAssumption DEF FrameRun
<1>2. \A s \in PassState : s.r.index \in 0..Size
  BY DEF PassState, Reader
<1>3. g[0] \in S
  BY <1>1, <1>2
<1>4. ASSUME NEW n \in 0 + 1..Size + 1, g[n - 1] \in S PROVE g[n] \in S
  <2>1. n - 1 \in 0..Size + 1 /\ n \in 1..Size + 1 /\ n \in 0..Size + 1 /\ n \in Int
    BY <1>1
  <2>2. g[n - 1] = <<n - 1, after[n - 1]>> /\ g[n] = <<n, after[n]>> /\ after[n - 1] \in PassState /\ after[n] \in PassState
    BY <1>1, <2>1
  <2>3. Tame(after[n - 1], d) /\ (after[n - 1].more => after[n - 1].r.index <= Size - (n - 1))
    BY <1>4, <2>2
  <2>4. after[n] = IF after[n - 1].more THEN WsPass(after[n - 1]) ELSE after[n - 1]
    BY <2>1 DEF FrameRun
  <2> HIDE DEF g
  <2>5. CASE after[n - 1].more
    <3>1. Tame(after[n], d) /\ (after[n].more => after[n].r.index < after[n - 1].r.index)
      BY <2>2, <2>3, <2>4, <2>5, TameStep
    <3>2. after[n].r.index \in Int /\ after[n - 1].r.index \in Int
      BY <1>2, <2>2
    <3>3. after[n].more => after[n].r.index <= Size - n
      BY <1>1, <2>1, <2>3, <2>5, <3>1, <3>2
    <3> QED BY <2>1, <2>2, <3>1, <3>3
  <2>6. CASE ~after[n - 1].more
    BY <2>1, <2>2, <2>3, <2>4, <2>6
  <2> QED BY <2>5, <2>6
<1>5. \A n \in 0..Size + 1 : g[n] \in S
  <2> HIDE DEF g, S
  <2>1. Size + 1 \in Nat /\ 0 \in Nat
    BY <1>1
  <2> QED BY <1>3, <1>4, <2>1, Induction
<1>6. ASSUME NEW n \in 0..Size + 1 PROVE Tame(after[n], d) /\ (after[n].more => after[n].r.index <= Size - n)
  <2>1. g[n] = <<n, after[n]>> /\ g[n] \in S
    BY <1>5
  <2> HIDE DEF g
  <2> QED BY <2>1
<1>7. ~after[Size + 1].more
  <2>1. after[Size + 1].more => after[Size + 1].r.index <= Size - (Size + 1) /\ after[Size + 1].r.index >= 0
    BY <1>1, <1>2, <1>6
  <2>2. after[Size + 1].r.index \in Int
    BY <1>1, <1>2
  <2> QED BY <1>1, <2>1, <2>2
<1> QED BY <1>6, <1>7

------------------------------------------------------------------------------
(* The buffer and the stream, one behind the other, are cut into the frames *)
(* that were sent and not handed over, wherever the segments end: each pass *)
(* takes the first of them, and each callback gets one as it was sent.      *)
FrameSet == Frames \cup {Pong}

\* What the proofs use of the frames of the server.
LEMMA FrameType ==
    ASSUME NEW f \in FrameSet
    PROVE  f \in Seq(Unit) /\ Len(f) \in Nat /\ Len(f) > 1 /\ f[1] \in {"81", "8a"}
<1>1. CASE f \in Frames
  <2>1. f \in Seq(Unit) /\ TextFrame(f)
    BY <1>1, SessionAssumption
  <2>2. Len(f) \in Nat /\ Len(f) > 1 /\ f[1] = "81"
    BY <2>1 DEF TextFrame
  <2> QED BY <2>1, <2>2
<1>2. CASE f = Pong
  <2>1. Pong \in Seq(Unit) /\ Len(Pong) = 2 /\ Pong[1] = "8a"
    BY DEF Pong, Unit, Nul
  <2> QED BY <1>2, <2>1
<1> QED BY <1>1, <1>2 DEF FrameSet

\* A frame of the server at the front of the buffer is taken as it was sent.
LEMMA FrameFront ==
    ASSUME NEW q \in Reader, q.index > 0, NEW f \in FrameSet,
           \A k \in 1..Len(f) : k <= q.index => q.cell[k] = f[k]
    PROVE  WsLength(q) = IF q.index < Len(f) THEN 0 ELSE Len(f)
<1>1. Len(f) \in Nat /\ Len(f) > 1
  BY FrameType
<1> DEFINE a == q.cell[1]
           b == q.cell[2]
<1>2. PICK i, L, n, m, x \in Int : /\ i = q.index /\ L = Len(f) /\ n = Number(b) /\ m = Wide(q.cell[3], q.cell[4])
                                   /\ x = WsLength(q) /\ n >= 0
  <2>1. \A u : Number(u) \in Nat
    BY NumberAbout
  <2>2. Wide(q.cell[3], q.cell[4]) \in Int
    BY <2>1, SMT DEF Wide
  <2>3. WsLength(q) \in Int
    BY WsLengthType
  <2> QED BY <1>1, <2>1, <2>2, <2>3, ReaderAssumption, SMTT(30) DEF Reader
<1>3. FrameNeeds(x, i, a, b, n, m)
  <2>1. FrameNeeds(WsLength(q), q.index, q.cell[1], q.cell[2], Number(q.cell[2]), Wide(q.cell[3], q.cell[4]))
    BY WsLengthIs, Zenon
  <2> QED BY ONLY <1>2, <2>1, Zenon DEF a, b
<1>4. a = f[1] /\ (i >= 2 => b = f[2]) /\ (i >= 4 /\ L >= 4 => q.cell[3] = f[3] /\ q.cell[4] = f[4])
  BY <1>1, <1>2
<1>5. i > 0 /\ L > 1
  BY <1>1, <1>2
<1>6. CASE f \in Frames
  <2>1. TextFrame(f)
    BY <1>6, SessionAssumption
  <2>2. PICK v, h, l \in Nat : v = Number(f[2]) /\ h = Number(f[3]) /\ l = Number(f[4]) /\ v <= 127
    BY NumberAbout
  <2>3. /\ f[1] = "81" /\ v # 127 /\ (v < 126 => L = 2 + v)
        /\ v = 126 => L > 3 /\ L = 4 + 256 * h + l
    BY <1>2, <2>1, <2>2, Zenon DEF TextFrame
  <2>4. (i >= 2 => n = v) /\ (i >= 4 /\ L >= 4 => m = 256 * h + l + 4)
    <3>1. i >= 4 /\ L >= 4 => m = Wide(f[3], f[4])
      BY <1>2, <1>4, Zenon
    <3>2. Wide(f[3], f[4]) = 256 * h + l + 4
      BY <2>2, Zenon DEF Wide
    <3>3. i >= 2 => n = v
      BY <1>2, <1>4, <2>2, Zenon
    <3> QED BY <3>1, <3>2, <3>3, Zenon
  <2>5. a = "81"
    BY <1>4, <2>3
  <2> HIDE DEF a, b
  <2>6. x = IF i < L THEN 0 ELSE L
    BY ONLY <1>3, <1>5, <2>3, <2>4, <2>5, <2>2, i \in Int, L \in Int, n \in Int, m \in Int, x \in Int, v \in Nat, h \in Nat, l \in Nat,
            SMT DEF FrameNeeds
  <2> QED BY <1>2, <2>6
<1>7. CASE f = Pong
  <2>1. L = 2 /\ f[1] = "8a" /\ f[2] = Nul
    BY <1>2, <1>7 DEF Pong
  <2> HIDE DEF a, b
  <2>2. x = IF i < L THEN 0 ELSE L
    BY ONLY <1>3, <1>4, <1>5, <2>1, i \in Int, L \in Int, x \in Int, n \in Int, m \in Int, SMT DEF FrameNeeds
  <2> QED BY <1>2, <2>2
<1> QED BY <1>6, <1>7 DEF FrameSet

\* What arrived and what is on its way.
At(r, s, i) == IF i <= r.index THEN r.cell[i] ELSE s[i - r.index]

\* The places where the frames begin cut it into the frames.
Cut(p, fs, r, s) ==
    /\ p \in [0..Len(fs) -> Nat] /\ p[0] = 0 /\ p[Len(fs)] = r.index + Len(s)
    /\ \A i \in 1..Len(fs) : p[i] = p[i - 1] + Len(fs[i]) /\ \A k \in 1..Len(fs[i]) : At(r, s, p[i - 1] + k) = fs[i][k]
    /\ \A i, j \in 0..Len(fs) : i <= j => p[i] <= p[j]

\* A callback got the frame f.
Given(c, f) == c.flag /\ c.len = Len(f) /\ SubSeq(c.r.cell, 1, c.len) = f

\* The callbacks so far got the first frames, the rest is in the buffer.
Handed(t, p, fs, b) ==
    /\ Len(t.calls) <= Len(fs) /\ t.r.index + p[Len(t.calls)] = b.index
    /\ \A k \in 1..t.r.index : t.r.cell[k] = b.cell[p[Len(t.calls)] + k]
    /\ \A i \in 1..Len(t.calls) : Given(t.calls[i], fs[i])

\* a is q with e behind it.
Longer(a, q, e) == Len(a) = Len(q) + 1 /\ a[Len(q) + 1] = e /\ \A k \in 1..Len(q) : a[k] = q[k]

LEMMA AppendIs ==
    ASSUME NEW S, NEW q \in Seq(S), NEW e \in S
    PROVE  Longer(Append(q, e), q, e) /\ Append(q, e) \in Seq(S)
BY DEF Longer

LEMMA HandedStep ==
    ASSUME NEW b \in Reader, NEW rest \in Seq(Unit), NEW fs \in Seq(FrameSet), NEW p, Cut(p, fs, b, rest),
           NEW d \in Int, NEW s \in PassState, s.more, Tame(s, d), Handed(s, p, fs, b)
    PROVE  Handed(WsPass(s), p, fs, b)
<1> DEFINE t == WsPass(s)
           f == fs[Len(s.calls) + 1]
<1>1. FramePass(s, t) /\ s.r.index > 0 /\ s.r \in Reader /\ s.calls \in Seq(CallBack) /\ Len(s.calls) \in Nat
  BY TameStep DEF Tame, PassState
<1> HIDE DEF t
<1>2. PICK c, l, i, j, e \in Nat : c = Len(s.calls) /\ l = Len(fs) /\ i = s.r.index /\ j = b.index /\ e = Len(rest)
  BY <1>1, ReaderAssumption DEF Reader
<1>3. c <= l /\ i + p[c] = j /\ i > 0 /\ p[c] \in Nat /\ p[l] = j + e
  BY <1>1, <1>2 DEF Handed, Cut
<1>4. c < l
  <2>1. c # l
    BY <1>3
  <2> QED BY <1>3, <2>1
<1>5. f \in FrameSet /\ c + 1 \in 1..l /\ c + 1 \in 0..l
  BY <1>2, <1>4
<1>6. PICK L \in Nat : L = Len(f) /\ L > 1
  BY <1>5, FrameType
<1>7. p[c + 1] = p[c] + L /\ \A k \in 1..L : At(b, rest, p[c] + k) = f[k]
  <2>1. (c + 1) - 1 = c
    OBVIOUS
  <2> QED BY <1>2, <1>5, <1>6, <2>1, SMTT(30) DEF Cut
<1>8. \A k \in 1..Len(f) : k <= s.r.index => s.r.cell[k] = f[k]
  <2> SUFFICES ASSUME NEW k \in 1..L, k <= i PROVE s.r.cell[k] = f[k]
    BY <1>2, <1>6
  <2>1. s.r.cell[k] = b.cell[p[c] + k]
    BY <1>2 DEF Handed
  <2>2. p[c] + k <= j
    BY <1>3
  <2> QED BY <1>2, <1>7, <2>1, <2>2 DEF At
<1> HIDE DEF f
<1>9. WsLength(s.r) = IF i < L THEN 0 ELSE L
  <2>1. WsLength(s.r) = IF s.r.index < Len(f) THEN 0 ELSE Len(f)
    BY <1>1, <1>5, <1>8, FrameFront
  <2> QED BY <1>2, <1>6, <2>1
<1>10. CASE i < L
  <2>1. WsLength(s.r) = 0
    BY <1>9, <1>10
  <2>2. t.r.index = s.r.index /\ t.r.cell = s.r.cell /\ t.calls = s.calls
    BY <1>1, <2>1, SMT DEF FramePass
  <2> QED BY <2>2 DEF Handed, t
<1>11. CASE ~(i < L)
  <2>1. WsLength(s.r) = L /\ L # 0 /\ L # -1
    BY <1>6, <1>9, <1>11
  <2>2. /\ t.r.index = s.r.index - L /\ \A k \in 1..t.r.index : t.r.cell[k] = s.r.cell[k + L]
        /\ t.calls = Append(s.calls, Call(s.r, L, TRUE))
    BY <1>1, <2>1, Zenon DEF FramePass
  <2>3. Len(t.calls) = c + 1 /\ t.calls[c + 1] = Call(s.r, L, TRUE) /\ \A k \in 1..c : t.calls[k] = s.calls[k]
    <3>1. Call(s.r, L, TRUE) \in CallBack
      BY <1>1 DEF Call, CallBack
    <3>2. Longer(Append(s.calls, Call(s.r, L, TRUE)), s.calls, Call(s.r, L, TRUE))
      BY <1>1, <3>1, AppendIs, Zenon
    <3> QED BY ONLY <1>2, <2>2, <3>2, Zenon DEF Longer
  <2>4. t.r.index + p[c + 1] = j /\ t.r.index = i - L
    BY ONLY <1>2, <1>3, <1>6, <1>7, <1>11, <2>2, i \in Nat, j \in Nat, L \in Nat, SMTT(40)
  <2>5. \A k \in 1..t.r.index : t.r.cell[k] = b.cell[p[c + 1] + k]
    <3> SUFFICES ASSUME NEW k \in 1..t.r.index PROVE t.r.cell[k] = b.cell[p[c + 1] + k]
      OBVIOUS
    <3>1. k \in Int /\ k + L \in 1..i
      BY <1>11, <2>4
    <3>2. t.r.cell[k] = s.r.cell[k + L] /\ s.r.cell[k + L] = b.cell[p[c] + (k + L)]
      BY <1>2, <2>2, <3>1 DEF Handed
    <3>3. p[c] + (k + L) = p[c + 1] + k
      BY <1>3, <1>7, <3>1
    <3> QED BY <3>2, <3>3
  <2>6. Given(Call(s.r, L, TRUE), f)
    <3>1. SubSeq(s.r.cell, 1, L) = f
      <4>1. s.r.cell \in Seq(Unit) /\ Len(s.r.cell) = Size /\ L <= Size /\ f \in Seq(Unit)
        BY <1>1, <1>2, <1>5, <1>11, FrameType, ReaderAssumption DEF Reader
      <4>2. \A k \in 1..L : s.r.cell[k] = f[k]
        BY <1>2, <1>6, <1>8, <1>11
      <4> QED BY <1>6, <4>1, <4>2
    <3> QED BY <1>6, <3>1 DEF Given, Call
  <2>7. \A k \in 1..Len(t.calls) : Given(t.calls[k], fs[k])
    <3> SUFFICES ASSUME NEW k \in 1..c + 1 PROVE Given(t.calls[k], fs[k])
      BY <2>3
    <3>1. CASE k = c + 1
      BY <1>2, <2>3, <2>6, <3>1 DEF f
    <3>2. CASE k # c + 1
      BY <1>2, <2>3, <3>2, SMTT(30) DEF Handed
    <3> QED BY <3>1, <3>2
  <2>8. Len(t.calls) <= Len(fs) /\ t.r.index + p[Len(t.calls)] = b.index
    BY <1>2, <1>4, <2>3, <2>4
  <2>9. Handed(t, p, fs, b)
    BY <2>3, <2>5, <2>7, <2>8 DEF Handed
  <2> QED BY <2>9 DEF t
<1> QED BY <1>10, <1>11

\* All the passes over the buffer.
LEMMA HandedRun ==
    ASSUME NEW b \in Reader, NEW rest \in Seq(Unit), NEW fs \in Seq(FrameSet), NEW p, Cut(p, fs, b, rest),
           NEW d \in Int, NEW after, FrameRun(after, b), Tame(after[0], d)
    PROVE  Handed(after[Size + 1], p, fs, b)
<1> DEFINE S == {s \in PassState : Handed(s, p, fs, b)}
<1>1. Size \in Nat /\ 0 \in 0..Size + 1 /\ after \in [0..Size + 1 -> PassState] /\ Size + 1 \in 0..Size + 1
  BY ReaderAssumption DEF FrameRun
<1>2. after[0] \in S
  <2>0. after[0] = [r |-> b, calls |-> <<>>, more |-> TRUE] /\ after[0] \in PassState
    BY <1>1 DEF FrameRun
  <2>1. after[0].r = b /\ after[0].calls = <<>> /\ after[0] \in PassState
    BY ONLY <2>0
  <2>2. p[0] = 0 /\ b.index \in Nat /\ Len(fs) \in Nat
    BY ReaderAssumption DEF Cut, Reader
  <2> QED BY <2>1, <2>2 DEF Handed
<1>3. ASSUME NEW n \in 0 + 1..Size + 1, after[n - 1] \in S PROVE after[n] \in S
  <2>1. n - 1 \in 0..Size + 1 /\ n \in 1..Size + 1 /\ n \in 0..Size + 1
    BY <1>1
  <2>2. Tame(after[n - 1], d) /\ after[n] \in PassState
    BY <1>1, <2>1, TameRun
  <2>3. after[n] = IF after[n - 1].more THEN WsPass(after[n - 1]) ELSE after[n - 1]
    BY <2>1 DEF FrameRun
  <2> QED BY <1>3, <2>2, <2>3, HandedStep
<1>4. \A n \in 0..Size + 1 : after[n] \in S
  <2> HIDE DEF S
  <2>1. Size + 1 \in Nat /\ 0 \in Nat
    BY <1>1
  <2> QED BY <1>2, <1>3, <2>1, Induction
<1> QED BY <1>1, <1>4

\* The same units, more of them arrived.
LEMMA CutMoves ==
    ASSUME NEW r \in Reader, NEW s \in Seq(Unit), NEW w \in Reader, NEW rest \in Seq(Unit),
           NEW fs \in Seq(FrameSet), NEW p, Cut(p, fs, r, s),
           w.index + Len(rest) = r.index + Len(s),
           \A i \in 1..r.index + Len(s) : At(w, rest, i) = At(r, s, i)
    PROVE  Cut(p, fs, w, rest)
<1>1. p \in [0..Len(fs) -> Nat] /\ p[0] = 0 /\ p[Len(fs)] = w.index + Len(rest)
  BY DEF Cut
<1>2. ASSUME NEW i \in 1..Len(fs), NEW k \in 1..Len(fs[i]) PROVE At(w, rest, p[i - 1] + k) = fs[i][k]
  <2>1. At(r, s, p[i - 1] + k) = fs[i][k] /\ p[i] = p[i - 1] + Len(fs[i])
    BY DEF Cut
  <2>2. i - 1 \in 0..Len(fs) /\ i \in 0..Len(fs) /\ Len(fs) \in 0..Len(fs) /\ i <= Len(fs) /\ Len(fs[i]) \in Nat
    BY FrameType
  <2>3. p[i] <= p[Len(fs)] /\ p[i - 1] \in Nat /\ p[Len(fs)] = r.index + Len(s)
    BY <2>2 DEF Cut
  <2>4. p[i - 1] + k \in 1..r.index + Len(s)
    <3>1. r.index + Len(s) \in Int
      BY ReaderAssumption DEF Reader
    <3> QED BY <2>1, <2>2, <2>3, <3>1, SMTT(30)
  <2> QED BY <2>1, <2>4
<1>3. /\ \A i \in 1..Len(fs) : p[i] = p[i - 1] + Len(fs[i])
      /\ \A i, j \in 0..Len(fs) : i <= j => p[i] <= p[j]
  BY DEF Cut
<1> QED BY <1>1, <1>2, <1>3 DEF Cut

\* A segment moves from the stream to the buffer.
LEMMA CutWritten ==
    ASSUME NEW r \in Reader, NEW s \in Seq(Unit), NEW n \in 1..Len(s), r.index + n <= Size,
           NEW fs \in Seq(FrameSet), NEW p, Cut(p, fs, r, s)
    PROVE  Cut(p, fs, Written(r, SubSeq(s, 1, n)), SubSeq(s, n + 1, Len(s)))
<1> DEFINE data == SubSeq(s, 1, n)
           rest == SubSeq(s, n + 1, Len(s))
           w == Written(r, data)
<1>1. /\ data \in Seq(Unit) /\ Len(data) = n /\ \A i \in 1..n : data[i] = s[i]
      /\ rest \in Seq(Unit) /\ Len(rest) = Len(s) - n /\ \A i \in 1..Len(s) - n : rest[i] = s[n + i]
  OBVIOUS
<1> HIDE DEF data, rest
<1>2. /\ w \in Reader /\ w.index = IF r.index + Len(data) <= Size THEN r.index + Len(data) ELSE Size
      /\ \A i \in 1..Size : w.cell[i] = IF i \in r.index + 1..w.index THEN data[i - r.index] ELSE r.cell[i]
  BY <1>1, WrittenIs
<1> HIDE DEF w
<1>3. PICK i0, z, e \in Nat : i0 = r.index /\ z = Size /\ i0 <= z /\ e = Len(s) /\ n <= e /\ n \in Nat /\ n > 0
  <2>1. Len(s) \in Nat /\ n \in Nat /\ n > 0 /\ n <= Len(s) /\ Size \in Nat
    BY ReaderAssumption
  <2>2. r.index \in Nat /\ r.index <= Size
    BY ReaderAssumption DEF Reader
  <2> QED BY <2>1, <2>2
<1>4. w.index = i0 + n /\ i0 + n <= z
  BY <1>1, <1>2, <1>3
<1>5. ASSUME NEW i \in 1..r.index + Len(s) PROVE At(w, rest, i) = At(r, s, i)
  <2>1. CASE i <= i0
    <3>1. i \in 1..Size /\ i \notin r.index + 1..w.index
      BY <1>3, <1>4, <2>1
    <3> QED BY <1>2, <1>3, <1>4, <2>1, <3>1, SMTT(30) DEF At
  <2>2. CASE i > i0 /\ i <= i0 + n
    <3>1. i \in 1..Size /\ i \in r.index + 1..w.index /\ i - r.index \in 1..n
      BY <1>3, <1>4, <2>2
    <3>2. w.cell[i] = data[i - r.index]
      BY <1>2, <3>1
    <3>3. At(w, rest, i) = w.cell[i] /\ At(r, s, i) = s[i - r.index]
      BY <1>3, <1>4, <2>2 DEF At
    <3> QED BY <1>1, <3>1, <3>2, <3>3
  <2>3. CASE i > i0 + n
    <3>1. i - (i0 + n) \in 1..e - n /\ n + (i - (i0 + n)) = i - i0
      BY <1>3, <2>3, SMTT(30)
    <3>2. rest[i - (i0 + n)] = s[i - i0]
      BY <1>1, <1>3, <3>1
    <3>3. ~(i <= i0 + n) /\ ~(i <= i0)
      BY <1>3, <2>3
    <3> QED BY <1>3, <1>4, <3>2, <3>3, Zenon DEF At
  <2> QED BY <1>3, <2>1, <2>2, <2>3
<1>6. w.index + Len(rest) = r.index + Len(s)
  <2>1. Len(rest) = e - n /\ Len(s) = e /\ r.index = i0
    BY <1>1, <1>3
  <2> QED BY <1>3, <1>4, <2>1, SMTT(30)
<1>7. Cut(p, fs, w, rest)
  BY <1>1, <1>2, <1>5, <1>6, CutMoves
<1> QED BY <1>7 DEF w, data, rest

\* The buffer r is what follows the first d cells of b.
Follows(r, b, d) == r.index + d = b.index /\ \A k \in 1..r.index : r.cell[k] = b.cell[d + k]

\* After the first c frames.
LEMMA CutRest ==
    ASSUME NEW b \in Reader, NEW rest \in Seq(Unit), NEW fs \in Seq(FrameSet), NEW p, Cut(p, fs, b, rest),
           NEW c \in 0..Len(fs), NEW r \in Reader, Follows(r, b, p[c])
    PROVE  \E q : Cut(q, SubSeq(fs, c + 1, Len(fs)), r, rest)
<1> DEFINE gs == SubSeq(fs, c + 1, Len(fs))
           q == [i \in 0..Len(fs) - c |-> p[i + c] - p[c]]
<1>1. gs \in Seq(FrameSet) /\ Len(gs) = Len(fs) - c /\ \A i \in 1..Len(fs) - c : gs[i] = fs[c + i]
  OBVIOUS
<1> HIDE DEF gs
<1> USE DEF Follows
<1>2. PICK l, pc, e \in Nat : l = Len(fs) /\ pc = p[c] /\ c <= l /\ e = Len(rest)
  BY SMTT(30) DEF Cut
<1>3. \A i \in 0..l - c : /\ i + c \in 0..l /\ p[i + c] \in Nat /\ pc <= p[i + c] /\ q[i] = p[i + c] - pc
  <2> SUFFICES ASSUME NEW i \in 0..l - c PROVE i + c \in 0..l /\ p[i + c] \in Nat /\ pc <= p[i + c] /\ q[i] = p[i + c] - pc
    OBVIOUS
  <2>1. i + c \in 0..l /\ c \in 0..l /\ c <= i + c
    BY <1>2
  <2>2. p[i + c] \in Nat /\ p[c] <= p[i + c]
    BY <1>2, <2>1 DEF Cut
  <2>3. q[i] = p[i + c] - p[c]
    BY <1>2
  <2> QED BY <1>2, <2>1, <2>2, <2>3
<1> HIDE DEF q
<1>4. q \in [0..Len(gs) -> Nat]
  <2>1. q \in [0..l - c -> Nat]
    <3>1. \A i \in 0..l - c : q[i] \in Nat
      BY <1>3
    <3> QED BY <1>2, <3>1 DEF q
  <2> QED BY <1>1, <1>2, <2>1
<1>5. q[0] = 0 /\ q[Len(gs)] = r.index + Len(rest)
  <2>1. 0 \in 0..l - c /\ l - c \in 0..l - c /\ (l - c) + c = l /\ 0 + c = c
    BY <1>2
  <2>2. q[0] = pc - pc /\ q[l - c] = p[l] - pc
    BY <1>2, <1>3, <2>1
  <2>3. p[l] = b.index + e /\ r.index \in Nat
    BY <1>2, ReaderAssumption DEF Cut, Reader
  <2> QED BY <1>1, <1>2, <2>2, <2>3
<1>6. ASSUME NEW i \in 1..Len(gs)
      PROVE  q[i] = q[i - 1] + Len(gs[i]) /\ \A k \in 1..Len(gs[i]) : At(r, rest, q[i - 1] + k) = gs[i][k]
  <2>1. i \in 0..l - c /\ i - 1 \in 0..l - c /\ i + c \in 1..l /\ (i + c) - 1 = (i - 1) + c /\ gs[i] = fs[i + c]
    BY <1>1, <1>2, SMTT(30)
  <2>2. PICK x, y, L \in Nat : x = p[(i - 1) + c] /\ y = p[i + c] /\ L = Len(gs[i]) /\ pc <= x
    <3>1. gs[i] \in FrameSet
      BY <1>2, <2>1
    <3>2. Len(gs[i]) \in Nat
      BY <3>1, FrameType
    <3> QED BY <1>3, <2>1, <3>2
  <2>3. y = x + L /\ \A k \in 1..L : At(b, rest, x + k) = fs[i + c][k]
    BY <1>2, <2>1, <2>2 DEF Cut
  <2>4. q[i] = y - pc /\ q[i - 1] = x - pc
    BY <1>3, <2>1, <2>2
  <2>5. ASSUME NEW k \in 1..L PROVE At(r, rest, (x - pc) + k) = At(b, rest, x + k)
    <3>1. PICK i0, j \in Nat : i0 = r.index /\ j = b.index /\ i0 + pc = j
      BY <1>2, ReaderAssumption DEF Reader
    <3>0. k \in Nat /\ k > 0 /\ pc <= x
      BY <2>2
    <3>2. CASE (x - pc) + k <= i0
      <4>1. (x - pc) + k \in 1..i0 /\ pc + ((x - pc) + k) = x + k /\ x + k <= j
        BY ONLY <3>0, <3>1, <3>2, x \in Nat, pc \in Nat, i0 \in Nat, j \in Nat
      <4>2. r.cell[(x - pc) + k] = b.cell[x + k]
        BY <1>2, <3>1, <4>1
      <4> QED BY ONLY <3>1, <3>2, <4>1, <4>2, Zenon DEF At
    <3>3. CASE ~((x - pc) + k <= i0)
      <4>1. ((x - pc) + k) - i0 = (x + k) - j /\ ~(x + k <= j)
        <5>1. i0 + pc = j
          BY <3>1
        <5> QED BY ONLY <3>0, <5>1, <3>3, x \in Nat, pc \in Nat, i0 \in Nat, j \in Nat
      <4> QED BY ONLY <3>1, <3>3, <4>1, Zenon DEF At
    <3> QED BY <3>2, <3>3
  <2>6. q[i] = q[i - 1] + L
    BY ONLY <2>3, <2>4, x \in Nat, y \in Nat, L \in Nat, pc \in Nat
  <2>7. \A k \in 1..L : At(r, rest, q[i - 1] + k) = gs[i][k]
    BY <2>1, <2>3, <2>4, <2>5, Zenon
  <2> QED BY <2>2, <2>6, <2>7
<1>7. \A i, j \in 0..Len(gs) : i <= j => q[i] <= q[j]
  <2> SUFFICES ASSUME NEW i \in 0..l - c, NEW j \in 0..l - c, i <= j PROVE q[i] <= q[j]
    BY <1>1, <1>2
  <2>1. i + c <= j + c /\ i + c \in 0..Len(fs) /\ j + c \in 0..Len(fs)
    BY <1>2
  <2>2. p[i + c] <= p[j + c]
    BY <2>1 DEF Cut
  <2> QED BY <1>3, <2>2
<1>8. Cut(q, gs, r, rest)
  BY <1>4, <1>5, <1>6, <1>7 DEF Cut
<1> QED BY <1>8 DEF gs

\* No frame is whole before a segment arrives.
LEMMA FirstShort ==
    ASSUME NEW r \in Reader, r.index = 0 \/ WsLength(r) <= 0, NEW s \in Seq(Unit),
           NEW fs \in Seq(FrameSet), NEW p, Cut(p, fs, r, s), fs # <<>>
    PROVE  r.index < Len(fs[1])
<1>1. 1 \in 1..Len(fs) /\ fs[1] \in FrameSet /\ Len(fs[1]) \in Nat /\ Len(fs[1]) > 1 /\ r.index \in Nat
  BY FrameType, ReaderAssumption DEF Reader
<1>2. p[1 - 1] = 0 /\ 1 - 1 = 0
  BY DEF Cut
<1>3. \A k \in 1..Len(fs[1]) : At(r, s, 0 + k) = fs[1][k]
  BY <1>1, <1>2 DEF Cut
<1>4. \A k \in 1..Len(fs[1]) : k <= r.index => r.cell[k] = fs[1][k]
  BY <1>3 DEF At
<1>5. r.index > 0 => WsLength(r) = IF r.index < Len(fs[1]) THEN 0 ELSE Len(fs[1])
  BY <1>1, <1>4, FrameFront
<1> QED BY <1>1, <1>5

------------------------------------------------------------------------------
(* A segment for the reader of frames.                                     *)
LEMMA WsRecvIs ==
    ASSUME NEW r \in Reader, NEW data \in Seq(Unit)
    PROVE  \E after : /\ FrameRun(after, Written(r, data))
                      /\ Recv(r, "WS", data).r = after[Size + 1].r /\ Recv(r, "WS", data).calls = after[Size + 1].calls
<1>1. PICK after : FrameRun(after, Written(r, data)) /\ Loop(WsPass, Written(r, data)) = after[Size + 1]
  BY WrittenType, WsLoopRun
<1>2. Recv(r, "WS", data) = WsRecv(r, data)
  BY DEF Recv
<1> DEFINE s == Loop(WsPass, Written(r, data))
<1>3. Recv(r, "WS", data) = [r |-> s.r, calls |-> s.calls]
  BY <1>2 DEF WsRecv
<1> HIDE DEF s
<1>4. Recv(r, "WS", data).r = s.r /\ Recv(r, "WS", data).calls = s.calls
  BY <1>3
<1> QED BY <1>1, <1>4 DEF s

\* What the reader expects before a segment: no whole frame waits.
NoneWhole(r) == r.index = 0 \/ WsLength(r) <= 0

\* The buffer when the loop begins.
LEMMA TameStart ==
    ASSUME NEW r, Calm(r), ~r.wild, NoneWhole(r), NEW data \in Seq(Unit), Len(data) > 0,
           \A i \in 1..Len(data) : data[i] \notin Lengths,
           NoEnd(Written(r, data)) \/ WsLength(Written(r, data)) = -1,
           NEW after, FrameRun(after, Written(r, data))
    PROVE  Tame(after[0], Len(data))
<1> DEFINE w == Written(r, data)
<1>1. r \in Reader
  BY DEF Calm
<1>2. /\ w \in Reader /\ w.wild = r.wild
      /\ \A i \in 1..Size : w.cell[i] = IF i \in r.index + 1..w.index THEN data[i - r.index] ELSE r.cell[i]
      /\ w.index = IF r.index + Len(data) <= Size THEN r.index + Len(data) ELSE Size
  BY <1>1, WrittenIs
<1>3. w.index > 0 /\ Little(w, Len(data))
  BY <1>1, LittleRest DEF NoneWhole
<1>4. after[0] = [r |-> w, calls |-> <<>>, more |-> TRUE]
  BY DEF FrameRun
<1>5. NoEnd(w) \/ WsLength(w) = -1
  OBVIOUS
<1> HIDE DEF w
<1>6. after[0].r = w /\ after[0].more = TRUE
  BY <1>4
<1>7. ASSUME NEW i \in 1..Size PROVE w.cell[i] \notin Lengths
  <2>1. CASE i \in r.index + 1..w.index
    <3>1. i - r.index \in 1..Len(data)
      BY <1>1, <1>2, <2>1, ReaderAssumption DEF Reader
    <3> QED BY <1>2, <2>1, <3>1
  <2>2. CASE i \notin r.index + 1..w.index
    BY <1>2, <2>2 DEF Calm
  <2> QED BY <2>1, <2>2
<1>8. Calm(w)
  BY <1>2, <1>3, <1>7 DEF Calm
<1>9. ~w.wild
  BY <1>2, Zenon
<1> QED BY <1>3, <1>5, <1>6, <1>8, <1>9, Zenon DEF Tame

\* A segment for the WebSocket reader.
LEMMA WsRecvCalm ==
    ASSUME NEW r, Calm(r), ~r.wild, NoneWhole(r), NEW data \in Seq(Unit), Len(data) > 0,
           \A i \in 1..Len(data) : data[i] \notin Lengths,
           NoEnd(Written(r, data)) \/ WsLength(Written(r, data)) = -1
    PROVE  LET res == Recv(r, "WS", data) IN
           /\ Calm(res.r) /\ NoneWhole(res.r) /\ NoEnd(res.r) /\ res.calls \in Seq(CallBack)
           /\ res.r.wild => 2 * Len(data) > Size
<1>1. r \in Reader /\ Size + 1 \in 0..Size + 1
  BY ReaderAssumption DEF Calm
<1>2. PICK after : /\ FrameRun(after, Written(r, data))
                   /\ Recv(r, "WS", data).r = after[Size + 1].r /\ Recv(r, "WS", data).calls = after[Size + 1].calls
  BY <1>1, WsRecvIs
<1>3. Tame(after[0], Len(data))
  BY <1>2, TameStart
<1>4. Tame(after[Size + 1], Len(data)) /\ ~after[Size + 1].more /\ after[Size + 1] \in PassState
  <2>1. Len(data) \in Int
    OBVIOUS
  <2> DEFINE d == Len(data)
             w == Written(r, data)
  <2>2. d \in Int /\ FrameRun(after, w) /\ Tame(after[0], d)
    BY <1>2, <1>3, <2>1
  <2>3. after[Size + 1] \in PassState
    BY <1>1, <1>2 DEF FrameRun
  <2> HIDE DEF d, w
  <2>4. Tame(after[Size + 1], d) /\ ~after[Size + 1].more
    BY ONLY <1>1, <2>2, TameRun
  <2> QED BY <2>3, <2>4 DEF d
<1>5. after[Size + 1].calls \in Seq(CallBack)
  BY <1>4 DEF PassState
<1>6. /\ Calm(after[Size + 1].r) /\ NoEnd(after[Size + 1].r) /\ NoneWhole(after[Size + 1].r)
      /\ after[Size + 1].r.wild => 2 * Len(data) > Size
  BY <1>4 DEF Tame, NoneWhole
<1> QED BY <1>2, <1>5, <1>6

\* A segment of whole or cut frames: the callbacks get the frames that are
\* complete, and the rest waits.
LEMMA WsRecvFrames ==
    ASSUME NEW r, Calm(r), ~r.wild, NoneWhole(r), NoEnd(r), NEW s \in Seq(Unit), NEW n \in 1..Len(s), r.index + n <= Size,
           \A i \in 1..Len(s) : s[i] \notin Lengths \cup {EndOfHead},
           NEW fs \in Seq(FrameSet), NEW p, Cut(p, fs, r, s)
    PROVE  LET res == Recv(r, "WS", SubSeq(s, 1, n)) IN
           /\ Len(res.calls) <= Len(fs) /\ \A i \in 1..Len(res.calls) : Given(res.calls[i], fs[i])
           /\ \E q : Cut(q, SubSeq(fs, Len(res.calls) + 1, Len(fs)), res.r, SubSeq(s, n + 1, Len(s)))
<1> DEFINE data == SubSeq(s, 1, n)
           rest == SubSeq(s, n + 1, Len(s))
           w == Written(r, data)
           res == Recv(r, "WS", data)
<1>1. r \in Reader /\ Size + 1 \in 0..Size + 1
  BY ReaderAssumption DEF Calm
<1>2. data \in Seq(Unit) /\ rest \in Seq(Unit) /\ Len(data) = n /\ \A i \in 1..n : i \in 1..Len(s) /\ data[i] = s[i]
  OBVIOUS
<1>5. w \in Reader /\ Cut(p, fs, w, rest)
  BY <1>1, <1>2, CutWritten, WrittenType
<1>6. NoEnd(w)
  <2> SUFFICES ASSUME NEW i \in 1..Size PROVE w.cell[i] # EndOfHead
    BY DEF NoEnd
  <2>1. w.cell[i] = (IF i \in r.index + 1..w.index THEN data[i - r.index] ELSE r.cell[i]) /\ w.index = r.index + n
    <3>1. /\ \A k \in 1..Size : w.cell[k] = IF k \in r.index + 1..w.index THEN data[k - r.index] ELSE r.cell[k]
          /\ w.index = IF r.index + Len(data) <= Size THEN r.index + Len(data) ELSE Size
      BY <1>1, <1>2, WrittenIs
    <3> HIDE DEF w, data
    <3> QED BY <1>2, <3>1
  <2>2. i \in r.index + 1..w.index => i - r.index \in 1..n
    BY <1>1, <2>1, ReaderAssumption DEF Reader
  <2> HIDE DEF w, data
  <2> QED BY <1>2, <2>1, <2>2 DEF NoEnd
<1>7. PICK after : FrameRun(after, w) /\ res.r = after[Size + 1].r /\ res.calls = after[Size + 1].calls
  BY <1>1, <1>2, WsRecvIs
<1>8. Tame(after[0], Len(data))
  <2>1. Len(data) > 0 /\ \A i \in 1..Len(data) : data[i] \notin Lengths
    <3> HIDE DEF data
    <3> QED BY <1>2, SMTT(30)
  <2> HIDE DEF data
  <2> QED BY <1>2, <1>6, <1>7, <2>1, TameStart
<1> HIDE DEF w, data, rest
<1>9. Handed(after[Size + 1], p, fs, w) /\ after[Size + 1] \in PassState
  <2>1. Len(data) \in Int
    BY <1>2
  <2> QED BY <1>1, <1>2, <1>5, <1>7, <1>8, <2>1, HandedRun DEF FrameRun
<1> HIDE DEF res
<1>10. PICK c \in Nat : c = Len(res.calls) /\ c <= Len(fs) /\ c \in 0..Len(fs) /\ res.r \in Reader
  BY <1>7, <1>9 DEF Handed, PassState
<1>11. /\ res.r.index + p[c] = w.index /\ \A k \in 1..res.r.index : res.r.cell[k] = w.cell[p[c] + k]
       /\ \A i \in 1..c : Given(res.calls[i], fs[i])
  BY <1>7, <1>9, <1>10 DEF Handed
<1>12. \E q : Cut(q, SubSeq(fs, c + 1, Len(fs)), res.r, rest)
  <2>1. /\ w \in Reader /\ rest \in Seq(Unit) /\ fs \in Seq(FrameSet) /\ Cut(p, fs, w, rest)
        /\ c \in 0..Len(fs) /\ res.r \in Reader /\ Follows(res.r, w, p[c])
    BY <1>2, <1>5, <1>10, <1>11 DEF Follows
  <2> QED BY ONLY <2>1, CutRest, Zenon
<1> QED BY <1>10, <1>11, <1>12 DEF res, data, rest

------------------------------------------------------------------------------
(* The reader of HTTP: the answer to the handshake, whole or in two parts.  *)
\* The string in the buffer ends before the first zero.
LEMMA TextIs ==
    ASSUME NEW r \in Reader
    PROVE  \E n \in 0..Size : /\ Len(Text(r)) = n /\ \A i \in 1..n : Text(r)[i] = r.cell[i] /\ r.cell[i] # Nul
                              /\ n = Size \/ r.cell[n + 1] = Nul
<1>1. Size \in Nat /\ r.cell \in [1..Size -> Unit]
  BY ReaderAssumption DEF Reader
<1> DEFINE T == {i \in 1..Size : r.cell[i] = Nul}
           first == CHOOSE i \in 1..Size : r.cell[i] = Nul /\ \A j \in 1..i - 1 : r.cell[j] # Nul
           n == IF \E i \in 1..Size : r.cell[i] = Nul THEN first - 1 ELSE Size
<1>2. T # {} => first \in 1..Size /\ r.cell[first] = Nul /\ \A j \in 1..first - 1 : r.cell[j] # Nul
  <2> SUFFICES ASSUME T # {} PROVE \E i \in 1..Size : r.cell[i] = Nul /\ \A j \in 1..i - 1 : r.cell[j] # Nul
    OBVIOUS
  <2>1. T \in SUBSET Nat
    OBVIOUS
  <2>2. PICK i \in T : \A j \in T : i <= j
    <3> HIDE DEF T
    <3> QED BY <2>1, LeastNumber
  <2>3. ASSUME NEW j \in 1..i - 1 PROVE r.cell[j] # Nul
    <3>1. j \in 1..Size /\ ~(i <= j)
      BY <1>1, <2>2, <2>3
    <3> QED BY <2>2, <3>1
  <2> QED BY <2>2, <2>3
<1> HIDE DEF first
<1>3. n \in 0..Size /\ (\A i \in 1..n : r.cell[i] # Nul) /\ (n = Size \/ r.cell[n + 1] = Nul)
  <2>1. CASE T # {}
    <3>1. n = first - 1 /\ first \in 1..Size /\ (first - 1) + 1 = first
      BY <1>2, <2>1
    <3>2. r.cell[first] = Nul /\ \A j \in 1..first - 1 : r.cell[j] # Nul
      BY <1>2, <2>1
    <3>3. first - 1 \in 0..Size
      BY <1>1, <3>1
    <3> HIDE DEF n, T
    <3> QED BY ONLY <3>1, <3>2, <3>3
  <2>2. CASE T = {}
    BY <1>1, <2>2
  <2> QED BY <2>1, <2>2
<1>4. Text(r) = SubSeq(r.cell, 1, n)
  BY DEF Text, first
<1> HIDE DEF n
<1>5. Len(Text(r)) = n /\ \A i \in 1..n : Text(r)[i] = r.cell[i]
  <2>1. r.cell \in Seq(Unit) /\ Len(r.cell) = Size
    BY <1>1
  <2> QED BY <1>1, <1>3, <1>4, <2>1
<1> QED BY <1>3, <1>5

\* The first of the units in the string.
LEMMA IndexOfIs ==
    ASSUME NEW r \in Reader, NEW units, Nul \notin units
    PROVE  LET k == IndexOf(r, units) IN
           /\ k \in 0..Size
           /\ k = 0 => \A i \in 1..Size : r.cell[i] \in units => \E j \in 1..i - 1 : r.cell[j] = Nul
           /\ k # 0 => r.cell[k] \in units /\ \A j \in 1..k : r.cell[j] # Nul
<1>1. PICK n \in 0..Size : /\ Len(Text(r)) = n /\ \A i \in 1..n : Text(r)[i] = r.cell[i] /\ r.cell[i] # Nul
                           /\ n = Size \/ r.cell[n + 1] = Nul
  BY TextIs
<1> DEFINE T == {i \in 1..Len(Text(r)) : Text(r)[i] \in units}
           k == IndexOf(r, units)
<1>2. T \in SUBSET Nat /\ T = {i \in 1..n : r.cell[i] \in units} /\ n \in Nat /\ n <= Size /\ Size \in Nat
  BY <1>1, ReaderAssumption
<1>3. k = IF T # {} THEN Min(T) ELSE 0
  BY DEF IndexOf, SelectInSeq
<1> HIDE DEF T, k
<1>4. CASE T # {}
  <2>1. k \in T
    BY <1>2, <1>3, <1>4, LeastType
  <2>2. k \in 1..n /\ r.cell[k] \in units
    BY <1>2, <2>1
  <2>3. k \in 0..Size /\ k # 0 /\ \A j \in 1..k : j \in 1..n
    BY <1>2, <2>2
  <2> QED BY <1>1, <2>2, <2>3 DEF k
<1>5. CASE T = {}
  <2>1. k = 0 /\ k \in 0..Size
    BY <1>2, <1>3, <1>5
  <2>2. ASSUME NEW i \in 1..Size, r.cell[i] \in units PROVE \E j \in 1..i - 1 : r.cell[j] = Nul
    <3>1. i \notin 1..n
      BY <1>2, <1>5, <2>2
    <3>2. n + 1 \in 1..i /\ r.cell[n + 1] = Nul
      BY <1>1, <1>2, <3>1
    <3>3. n + 1 # i
      BY <2>2, <3>2
    <3> QED BY <1>2, <3>2, <3>3
  <2> QED BY <2>1, <2>2 DEF k
<1> QED BY <1>4, <1>5

\* Whatever ends a head has a zero before it.
Hidden(r) == \A i \in 1..Size : r.cell[i] = EndOfHead => i <= r.index /\ \E j \in 1..i - 1 : r.cell[j] = Nul

LEMMA NoUnit ==
    ASSUME NEW r \in Reader, NEW units, Nul \notin units, \A i \in 1..Size : r.cell[i] \notin units
    PROVE  IndexOf(r, units) = 0
<1>1. /\ IndexOf(r, units) \in 0..Size
      /\ IndexOf(r, units) # 0 => r.cell[IndexOf(r, units)] \in units
  BY IndexOfIs
<1> QED BY <1>1, ReaderAssumption

\* An empty buffer.
Empty(r) == r \in Reader /\ r.index = 0 /\ r.cell = Blank

\* A message that fills what has arrived is handed over as it is.
LEMMA HttpWhole ==
    ASSUME NEW w \in Reader, w.index > 0, IndexOf(w, {EndOfHead}) = w.index,
           \A i \in 1..Size : w.cell[i] \notin Lengths
    PROVE  Empty(Loop(HttpPass, w).r) /\ Loop(HttpPass, w).r.wild = w.wild /\ Loop(HttpPass, w).calls = <<Call(w, w.index, TRUE)>>
<1> DEFINE x == [r |-> w, calls |-> <<>>, more |-> TRUE]
           y == HttpPass(x)
           calm == [w EXCEPT !.armed = FALSE, !.opened = FALSE]
           taken == Read(calm, w.index)
           left == [taken EXCEPT !.armed = taken.index > 0]
<1>1. w.index \in 0..Size /\ Size \in Nat /\ Size > 0 /\ x \in PassState
  BY ReaderAssumption DEF Reader, PassState
<1>2. HttpLength(w) = w.index
  <2>1. IndexOf(w, Lengths) = 0
    BY NoUnit DEF Nul, Lengths
  <2> QED BY <2>1, Zenon DEF HttpLength
<1>3. calm \in Reader /\ calm.index = w.index /\ calm.wild = w.wild
  BY DEF Reader
<1>4. taken = Flushed(calm)
  <2>1. calm.index - w.index = 0
    BY <1>1, <1>3
  <2> QED BY <2>1 DEF Read
<1>5. Flushed(calm) \in Reader /\ Flushed(calm).index = 0 /\ Flushed(calm).cell = Blank /\ Flushed(calm).wild = w.wild
  BY <1>3, FlushedType DEF Flushed, Reader
<1>6. Empty(left) /\ left.wild = w.wild
  <2>1. taken \in Reader /\ taken.index = 0 /\ taken.cell = Blank /\ taken.wild = w.wild
    BY <1>4, <1>5
  <2> DEFINE b == taken.index > 0
  <2>2. left = [taken EXCEPT !.armed = b] /\ b \in BOOLEAN
    OBVIOUS
  <2> HIDE DEF taken, b, left
  <2>3. left \in Reader /\ left.index = taken.index /\ left.cell = taken.cell /\ left.wild = taken.wild
    BY <2>1, <2>2 DEF Reader
  <2> QED BY <2>1, <2>3, Zenon DEF Empty
<1>7. y = [r |-> left, calls |-> Append(<<>>, Call(w, w.index, TRUE)), more |-> TRUE]
  <2>1. x.r = w /\ x.calls = <<>>
    OBVIOUS
  <2>2. w.index # 0 /\ (w.index <= w.index) = TRUE
    BY <1>1
  <2> HIDE DEF x
  <2> QED BY <1>2, <2>1, <2>2, Zenon DEF HttpPass
<1>8. y.r = left /\ y.calls = <<Call(w, w.index, TRUE)>> /\ y.more
  <2>1. \A a, b, c : [r |-> a, calls |-> b, more |-> c].r = a /\ [r |-> a, calls |-> b, more |-> c].calls = b
                     /\ [r |-> a, calls |-> b, more |-> c].more = c
    OBVIOUS
  <2>2. Append(<<>>, Call(w, w.index, TRUE)) = <<Call(w, w.index, TRUE)>>
    OBVIOUS
  <2> HIDE DEF y, left, taken
  <2> QED BY <1>6, <1>7, <2>1, <2>2, Zenon
<1>9. y \in PassState
  <2> HIDE DEF x
  <2> QED BY <1>1, HttpPassType
<1> HIDE DEF x, y, taken, calm
<1> DEFINE z == [y EXCEPT !.more = FALSE]
<1>10. HttpPass(y) = z /\ ~z.more /\ z.r = left /\ z.calls = <<Call(w, w.index, TRUE)>> /\ z \in PassState
  <2>1. IndexOf(left, {EndOfHead}) = 0
    BY <1>6, BlankIs, NoUnit DEF Empty, Nul, EndOfHead
  <2> HIDE DEF left
  <2>2. HttpPass(y) = z
    BY <1>8, <2>1, Zenon DEF HttpPass
  <2> QED BY <1>8, <1>9, <2>2 DEF PassState
<1> HIDE DEF z, left
<1>11. PICK after : HttpRun(after, w) /\ Loop(HttpPass, w) = after[Size + 1]
  BY HttpLoopRun
<1>12. after[0] = x /\ \A n \in 1..Size + 1 : after[n] = IF after[n - 1].more THEN HttpPass(after[n - 1]) ELSE after[n - 1]
  BY <1>11 DEF HttpRun, x
<1>13. after[1] = y /\ after[2] = z
  <2>1. 1 \in 1..Size + 1 /\ 2 \in 1..Size + 1 /\ 1 - 1 = 0 /\ 2 - 1 = 1
    BY <1>1
  <2>2. x.more
    BY DEF x
  <2>3. after[1] = HttpPass(x)
    BY <1>12, <2>1, <2>2
  <2>4. after[2] = HttpPass(y)
    BY <1>8, <1>12, <2>1, <2>3 DEF y
  <2> QED BY <1>10, <2>3, <2>4 DEF y
<1> DEFINE Ends == {z}
<1>14. \A n \in 2..Size + 1 : after[n] \in Ends
  <2>1. ASSUME NEW n \in 2 + 1..Size + 1, after[n - 1] \in Ends PROVE after[n] \in Ends
    <3>1. n \in 1..Size + 1
      OBVIOUS
    <3> QED BY <1>10, <1>12, <2>1, <3>1
  <2>2. 2 \in Nat /\ Size + 1 \in Nat /\ after[2] \in Ends
    BY <1>1, <1>13
  <2> HIDE DEF Ends
  <2> QED BY <2>1, <2>2, Induction
<1>15. after[Size + 1] = z
  BY <1>1, <1>14
<1> QED BY <1>6, <1>10, <1>11, <1>15

\* A segment for the HTTP reader.
LEMMA HttpRecvIs ==
    ASSUME NEW r \in Reader, NEW data \in Seq(Unit)
    PROVE  LET w == Written(r, data)
               res == Recv(r, "HTTP", data) IN
           /\ IndexOf(w, {EndOfHead}) = 0 => res.r = Waiting(w) /\ res.calls = <<>>
           /\ IndexOf(w, {EndOfHead}) # 0 => res.r = Loop(HttpPass, w).r /\ res.calls = Loop(HttpPass, w).calls
<1> DEFINE w == Written(r, data)
           s == Loop(HttpPass, w)
<1>1. Recv(r, "HTTP", data) = IF IndexOf(w, {EndOfHead}) = 0 THEN [r |-> Waiting(w), calls |-> <<>>]
                              ELSE [r |-> s.r, calls |-> s.calls]
  BY DEF Recv, HttpRecv
<1>2. \A a, b : [r |-> a, calls |-> b].r = a /\ [r |-> a, calls |-> b].calls = b
  OBVIOUS
<1> HIDE DEF w, s
<1>3. /\ IndexOf(w, {EndOfHead}) = 0 => Recv(r, "HTTP", data).r = Waiting(w) /\ Recv(r, "HTTP", data).calls = <<>>
      /\ IndexOf(w, {EndOfHead}) # 0 => Recv(r, "HTTP", data).r = s.r /\ Recv(r, "HTTP", data).calls = s.calls
  <2>1. IndexOf(w, {EndOfHead}) = 0 => Recv(r, "HTTP", data) = [r |-> Waiting(w), calls |-> <<>>]
    BY <1>1, Zenon
  <2>2. IndexOf(w, {EndOfHead}) # 0 => Recv(r, "HTTP", data) = [r |-> s.r, calls |-> s.calls]
    BY <1>1, Zenon
  <2>3. ASSUME IndexOf(w, {EndOfHead}) = 0 PROVE Recv(r, "HTTP", data).r = Waiting(w) /\ Recv(r, "HTTP", data).calls = <<>>
    <3>1. Recv(r, "HTTP", data) = [r |-> Waiting(w), calls |-> <<>>]
      BY <2>1, <2>3
    <3> QED BY ONLY <1>2, <3>1, Zenon
  <2>4. ASSUME IndexOf(w, {EndOfHead}) # 0 PROVE Recv(r, "HTTP", data).r = s.r /\ Recv(r, "HTTP", data).calls = s.calls
    <3>1. Recv(r, "HTTP", data) = [r |-> s.r, calls |-> s.calls]
      BY <2>2, <2>4
    <3> QED BY <3>1
  <2> QED BY <2>3, <2>4
<1> QED BY <1>3 DEF w, s

\* Segments of the answer to the handshake.
AnswerParts == {<<"101">>, Answer101, <<EndOfHead>>}

\* A part of the answer: the head is not complete and waits, or it is, and the
\* callback gets it.
LEMMA HttpRecvCalm ==
    ASSUME NEW r, Calm(r), Hidden(r), NEW data \in AnswerParts
    PROVE  LET w == Written(r, data)
               res == Recv(r, "HTTP", data) IN
           \/ /\ Calm(w) /\ Hidden(w) /\ Calm(res.r) /\ res.r.index = w.index /\ res.r.cell = w.cell /\ res.calls = <<>>
              /\ res.r.wild = r.wild
           \/ Empty(res.r) /\ res.r.wild = r.wild /\ res.calls = <<Call(w, w.index, TRUE)>>
<1> DEFINE w == Written(r, data)
           res == Recv(r, "HTTP", data)
           k == IndexOf(w, {EndOfHead})
<1>1. r \in Reader
  BY DEF Calm
<1>2. data \in Seq(Unit) /\ Len(data) \in 1..2 /\ \A i \in 1..Len(data) : data[i] \notin Lengths /\ (data[i] = EndOfHead => i = Len(data))
  <2>1. CASE data = <<"101">>
    BY <2>1 DEF EndOfHead, Lengths, Unit
  <2>2. CASE data = Answer101
    <3>1. Len(data) = 2 /\ data[1] = "101" /\ data[2] = "end" /\ data \in Seq(Unit)
      BY <2>2 DEF Answer101, EndOfHead, Unit
    <3> QED BY <3>1 DEF EndOfHead, Lengths
  <2>3. CASE data = <<EndOfHead>>
    BY <2>3 DEF EndOfHead, Lengths, Unit
  <2> QED BY <2>1, <2>2, <2>3 DEF AnswerParts
<1>3. /\ w \in Reader /\ w.wild = r.wild
      /\ \A i \in 1..Size : w.cell[i] = IF i \in r.index + 1..w.index THEN data[i - r.index] ELSE r.cell[i]
      /\ w.index = IF r.index + Len(data) <= Size THEN r.index + Len(data) ELSE Size
  BY <1>1, <1>2, WrittenIs
<1>4. PICK i0, j, z, l \in Nat : i0 = r.index /\ j = w.index /\ z = Size /\ l = Len(data) /\ l > 0 /\ i0 <= z /\ z > 0
  <2>1. r.index \in Nat /\ w.index \in Nat /\ r.index <= Size /\ Size \in Nat /\ Size > 0 /\ Len(data) \in Nat /\ Len(data) > 0
    <3>1. w \in Reader
      BY <1>3
    <3>2. \A q \in Reader : q.index \in Nat /\ q.index <= Size
      BY ReaderAssumption DEF Reader
    <3>3. Len(data) \in Nat /\ Len(data) > 0
      BY <1>2
    <3> HIDE DEF w
    <3> QED BY <1>1, <3>1, <3>2, <3>3, ReaderAssumption
  <2> HIDE DEF w
  <2> QED BY <2>1
<1>5. /\ k \in 0..Size
      /\ k = 0 => \A i \in 1..Size : w.cell[i] \in {EndOfHead} => \E m \in 1..i - 1 : w.cell[m] = Nul
      /\ k # 0 => w.cell[k] \in {EndOfHead} /\ \A m \in 1..k : w.cell[m] # Nul
  BY <1>3, IndexOfIs DEF Nul, EndOfHead
<1>6. /\ k = 0 => res.r = Waiting(w) /\ res.calls = <<>>
      /\ k # 0 => res.r = Loop(HttpPass, w).r /\ res.calls = Loop(HttpPass, w).calls
  BY <1>1, <1>2, HttpRecvIs
<1> HIDE DEF w, res, k
<1>7. j = IF i0 + l <= z THEN i0 + l ELSE z
  BY <1>3, <1>4
<1>8. ASSUME NEW i \in 1..Size, i \in r.index + 1..w.index PROVE i - r.index \in 1..l /\ w.cell[i] = data[i - r.index]
  BY <1>3, <1>4, <1>7, <1>8
<1>9. \A i \in 1..Size : w.cell[i] \notin Lengths
  <2> SUFFICES ASSUME NEW i \in 1..Size PROVE w.cell[i] \notin Lengths
    OBVIOUS
  <2>1. CASE i \in r.index + 1..w.index
    BY <1>2, <1>4, <1>8, <2>1
  <2>2. CASE i \notin r.index + 1..w.index
    BY <1>3, <2>2 DEF Calm
  <2> QED BY <2>1, <2>2
<1>10. Calm(w) /\ w.index > 0
  BY <1>1, <1>3, <1>4, <1>7, <1>9 DEF Calm
<1>11. CASE k = 0
  <2>1. ASSUME NEW i \in 1..Size, w.cell[i] = EndOfHead PROVE i <= w.index
    <3>1. CASE i \in r.index + 1..w.index
      BY <1>4, <3>1
    <3>2. CASE i \notin r.index + 1..w.index
      <4>1. r.cell[i] = EndOfHead
        BY <1>3, <2>1, <3>2
      <4>2. i <= r.index
        BY <4>1 DEF Hidden
      <4> QED BY <1>4, <1>7, <4>2
    <3> QED BY <3>1, <3>2
  <2>2. Hidden(w)
    BY <1>5, <1>11, <2>1 DEF Hidden
  <2>3. res.r.index = w.index /\ res.r.cell = w.cell /\ res.r.wild = w.wild /\ res.r \in Reader /\ res.calls = <<>>
    BY <1>3, <1>6, <1>11, WaitingType DEF Waiting, Reader
  <2>4. Calm(res.r)
    BY <1>10, <2>3 DEF Calm
  <2> QED BY <1>3, <1>10, <2>2, <2>3, <2>4, Zenon DEF w, res
<1>12. CASE k # 0
  <2>1. k \in 1..Size /\ w.cell[k] = EndOfHead /\ \A m \in 1..k : w.cell[m] # Nul
    BY <1>4, <1>5, <1>12
  <2>2. k \in r.index + 1..w.index
    <3> SUFFICES ASSUME k \notin r.index + 1..w.index PROVE FALSE
      OBVIOUS
    <3>1. r.cell[k] = EndOfHead
      BY <1>3, <2>1
    <3>2. PICK m \in 1..k - 1 : r.cell[m] = Nul /\ k <= r.index
      BY <2>1, <3>1 DEF Hidden
    <3>3. m \in 1..k /\ m \in 1..Size /\ m \notin r.index + 1..w.index
      BY <1>4, <2>1, <3>2
    <3> QED BY <1>3, <2>1, <3>2, <3>3
  <2>3. k - r.index = l
    BY <1>2, <1>4, <1>8, <2>1, <2>2
  <2>4. k = w.index
    <3>1. k \in Nat /\ k = i0 + l /\ k <= j
      BY <1>4, <2>1, <2>2, <2>3
    <3> QED BY <1>4, <1>7, <3>1
  <2>5. Empty(Loop(HttpPass, w).r) /\ Loop(HttpPass, w).r.wild = w.wild /\ Loop(HttpPass, w).calls = <<Call(w, w.index, TRUE)>>
    BY <1>1, <1>3, <1>9, <1>10, <2>4, HttpWhole DEF k
  <2>6. Empty(res.r) /\ res.r.wild = r.wild /\ res.calls = <<Call(w, w.index, TRUE)>>
    BY <1>3, <1>6, <1>12, <2>5, Zenon
  <2> QED BY <2>6, Zenon DEF w, res
<1> QED BY <1>11, <1>12

------------------------------------------------------------------------------
(* How many of one kind a sequence holds.                                  *)
\* The number of occurrences in a sequence.
LEMMA CountType ==
    ASSUME NEW S, NEW s \in Seq(S), NEW e
    PROVE  IsFiniteSet({i \in DOMAIN s : s[i] = e}) /\ Count(s, e) \in Nat
<1>1. DOMAIN s = 1..Len(s) /\ Len(s) \in Int /\ 1 \in Int
  OBVIOUS
<1>2. IsFiniteSet(DOMAIN s)
  BY <1>1, FS_Interval
<1>3. IsFiniteSet({i \in DOMAIN s : s[i] = e})
  BY <1>2, FS_Subset
<1> QED BY <1>3, FS_CardinalityType DEF Count

LEMMA CountBoth ==
    ASSUME NEW S, NEW s \in Seq(S), NEW t \in Seq(S), NEW e
    PROVE  Count(s \o t, e) = Count(s, e) + Count(t, e)
<1> DEFINE A == {i \in DOMAIN s : s[i] = e}
           B == {i \in DOMAIN t : t[i] = e}
           C == {i \in DOMAIN (s \o t) : (s \o t)[i] = e}
           D == {i \in Len(s) + 1..Len(s) + Len(t) : (s \o t)[i] = e}
           f == [i \in B |-> Len(s) + i]
<1>1. IsFiniteSet(A) /\ IsFiniteSet(B) /\ IsFiniteSet(C) /\ Cardinality(A) \in Nat /\ Cardinality(B) \in Nat
  <2>1. s \o t \in Seq(S)
    OBVIOUS
  <2> QED BY <2>1, CountType DEF Count
<1>2. /\ DOMAIN s = 1..Len(s) /\ DOMAIN t = 1..Len(t) /\ Len(s) \in Nat /\ Len(t) \in Nat
      /\ DOMAIN (s \o t) = 1..Len(s) + Len(t)
      /\ \A i \in 1..Len(s) : (s \o t)[i] = s[i]
      /\ \A i \in 1..Len(t) : (s \o t)[Len(s) + i] = t[i]
  OBVIOUS
<1>3. C = A \cup D /\ A \cap D = {} /\ D \subseteq C
  BY <1>2
<1>4. ExistsBijection(B, D)
  <2>1. f \in [B -> D]
    BY <1>2
  <2>2. \A i, j \in B : f[i] = f[j] => i = j
    BY <1>2
  <2>3. ASSUME NEW d \in D PROVE \E i \in B : f[i] = d
    <3>1. d - Len(s) \in 1..Len(t) /\ Len(s) + (d - Len(s)) = d
      BY <1>2
    <3>2. d - Len(s) \in B
      BY <1>2, <3>1
    <3> QED BY <3>1, <3>2
  <2>4. f \in Bijection(B, D)
    <3> HIDE DEF f, B, D
    <3> QED BY <2>1, <2>2, <2>3 DEF Bijection, Injection, Surjection, IsInjective
  <2> HIDE DEF f, B, D
  <2> QED BY <2>4 DEF ExistsBijection
<1>5. IsFiniteSet(D) /\ Cardinality(D) = Cardinality(B)
  <2> HIDE DEF B, D
  <2> QED BY <1>1, <1>4, FS_Bijection
<1>6. Cardinality(A \cup D) = Cardinality(A) + Cardinality(D) - Cardinality(A \cap D)
  <2> HIDE DEF A, D
  <2> QED BY <1>1, <1>5, FS_Union
<1>7. Cardinality(A \cap D) = 0
  BY <1>3, FS_EmptySet
<1> HIDE DEF A, B, C, D
<1>8. Cardinality(C) = Cardinality(A) + Cardinality(B)
  BY <1>1, <1>3, <1>5, <1>6, <1>7
<1> QED BY <1>8 DEF Count, A, B, C

LEMMA CountOne == ASSUME NEW x, NEW e PROVE Count(<<x>>, e) = (IF x = e THEN 1 ELSE 0) /\ Count(<<>>, e) = 0
<1>1. Count(<<>>, e) = 0
  <2>1. {i \in DOMAIN <<>> : <<>>[i] = e} = {}
    OBVIOUS
  <2> QED BY <2>1, FS_EmptySet DEF Count
<1>2. CASE x = e
  <2>1. {i \in DOMAIN <<x>> : <<x>>[i] = e} = {1}
    BY <1>2
  <2> QED BY <1>1, <1>2, <2>1, FS_Singleton DEF Count
<1>3. CASE x # e
  <2>1. {i \in DOMAIN <<x>> : <<x>>[i] = e} = {}
    BY <1>3
  <2> QED BY <1>1, <1>3, <2>1, FS_EmptySet DEF Count
<1> QED BY <1>2, <1>3

LEMMA CountAppend ==
    ASSUME NEW S, NEW s \in Seq(S), NEW x \in S, NEW e
    PROVE  Count(Append(s, x), e) = Count(s, e) + (IF x = e THEN 1 ELSE 0)
<1>1. Append(s, x) = s \o <<x>> /\ <<x>> \in Seq(S)
  OBVIOUS
<1>2. Count(s \o <<x>>, e) = Count(s, e) + Count(<<x>>, e)
  BY <1>1, CountBoth
<1> QED BY <1>1, <1>2, CountOne

LEMMA CountTail ==
    ASSUME NEW S, NEW s \in Seq(S), s # <<>>, NEW e
    PROVE  Count(Tail(s), e) = Count(s, e) - (IF Head(s) = e THEN 1 ELSE 0)
<1> DEFINE h == <<Head(s)>>
           t == Tail(s)
<1>1. s = h \o t /\ h \in Seq(S) /\ t \in Seq(S)
  OBVIOUS
<1>2. Count(h, e) = IF Head(s) = e THEN 1 ELSE 0
  BY CountOne
<1> HIDE DEF h, t
<1>3. Count(h \o t, e) = Count(h, e) + Count(t, e) /\ Count(t, e) \in Nat
  BY <1>1, CountBoth, CountType
<1>4. Count(s, e) = Count(h, e) + Count(t, e)
  BY ONLY <1>1, <1>3, Zenon
<1>5. Count(t, e) = Count(s, e) - (IF Head(s) = e THEN 1 ELSE 0)
  BY ONLY <1>2, <1>3, <1>4
<1> QED BY <1>5 DEF t

LEMMA CountParts ==
    ASSUME NEW S, NEW s \in Seq(S), NEW c \in 0..Len(s), NEW e
    PROVE  Count(s, e) = Count(SubSeq(s, 1, c), e) + Count(SubSeq(s, c + 1, Len(s)), e)
<1> DEFINE a == SubSeq(s, 1, c)
           b == SubSeq(s, c + 1, Len(s))
<1>1. /\ a \in Seq(S) /\ Len(a) = c /\ \A i \in 1..c : a[i] = s[i]
      /\ b \in Seq(S) /\ Len(b) = Len(s) - c /\ \A i \in 1..Len(s) - c : b[i] = s[c + i]
  OBVIOUS
<1> HIDE DEF a, b
<1>2. s = a \o b
  <2>1. 1 \in 1..Len(s) + 1 /\ c \in 1 - 1..Len(s) /\ Len(s) \in c..Len(s)
    OBVIOUS
  <2>2. SubSeq(s, 1, c) \o SubSeq(s, c + 1, Len(s)) = SubSeq(s, 1, Len(s)) /\ SubSeq(s, 1, Len(s)) = s
    BY <2>1, ConcatAdjacentSubSeq, SubSeqFull
  <2> QED BY <2>2 DEF a, b
<1>3. Count(a \o b, e) = Count(a, e) + Count(b, e)
  BY <1>1, CountBoth
<1>4. Count(s, e) = Count(a, e) + Count(b, e)
  BY ONLY <1>2, <1>3, Zenon
<1> QED BY <1>4 DEF a, b

\* If each part has as many e as one element of gs has d, so has the whole.
LEMMA FlattenCount ==
    ASSUME NEW S, NEW seqs \in Seq(Seq(S)), NEW G, NEW gs \in Seq(G), Len(gs) = Len(seqs), NEW e, NEW d,
           \A i \in 1..Len(seqs) : Count(seqs[i], e) = Count(<<gs[i]>>, d)
    PROVE  FlattenSeq(seqs) \in Seq(S) /\ Count(FlattenSeq(seqs), e) = Count(gs, d)
<1>1. CASE seqs = <<>>
  <2>1. FlattenSeq(seqs) = seqs /\ gs = <<>> /\ <<>> \in Seq(S)
    BY <1>1 DEF FlattenSeq
  <2> QED BY <1>1, <2>1, CountOne
<1>2. CASE seqs # <<>>
  <2>1. PICK f : /\ f[1] = seqs[1] /\ FlattenSeq(seqs) = f[Len(seqs)]
                 /\ \A n \in 2..Len(seqs) : f[n] = f[n - 1] \o seqs[n]
    BY <1>2, FlattenRun
  <2> DEFINE Q == {q \in Nat \X Seq(S) : Count(q[2], e) = Count(SubSeq(gs, 1, q[1]), d)}
             h == [n \in 1..Len(seqs) |-> <<n, f[n]>>]
  <2>2. PICK L \in Nat : L = Len(seqs) /\ L >= 1 /\ L = Len(gs)
    BY <1>2
  <2>3. h[1] \in Q
    <3>1. SubSeq(gs, 1, 1) = <<gs[1]>> /\ 1 \in 1..L
      <4>1. Len(SubSeq(gs, 1, 1)) = 1 /\ SubSeq(gs, 1, 1)[1] = gs[1] /\ SubSeq(gs, 1, 1) \in Seq(G)
        BY <2>2
      <4>2. <<gs[1]>> \in Seq(G) /\ Len(<<gs[1]>>) = 1 /\ <<gs[1]>>[1] = gs[1] /\ 1 \in 1..L
        BY <2>2
      <4>3. \A i \in 1..1 : SubSeq(gs, 1, 1)[i] = <<gs[1]>>[i]
        BY <4>1, <4>2
      <4> QED BY <4>1, <4>2, <4>3, SeqEqual
    <3>2. seqs[1] \in Seq(S) /\ h[1] = <<1, f[1]>>
      BY <2>2, <3>1
    <3>3. Count(seqs[1], e) = Count(SubSeq(gs, 1, 1), d)
      BY <2>2, <3>1
    <3> HIDE DEF h
    <3> QED BY <2>1, <3>1, <3>2, <3>3
  <2>4. ASSUME NEW n \in 1 + 1..L, h[n - 1] \in Q PROVE h[n] \in Q
    <3>1. n - 1 \in 1..L /\ n \in 1..L /\ n \in 2..L /\ n \in Nat /\ n - 1 \in Nat
      OBVIOUS
    <3>2. h[n - 1] = <<n - 1, f[n - 1]>> /\ h[n] = <<n, f[n]>>
      BY <2>2, <3>1
    <3>3. f[n - 1] \in Seq(S) /\ Count(f[n - 1], e) = Count(SubSeq(gs, 1, n - 1), d)
      BY <2>4, <3>2
    <3>4. f[n] = f[n - 1] \o seqs[n] /\ seqs[n] \in Seq(S)
      <4>1. seqs[n] \in Seq(S)
        BY <2>2, <3>1
      <4> QED BY <2>1, <2>2, <3>1, <4>1
    <3>5. Count(f[n], e) = Count(f[n - 1], e) + Count(seqs[n], e)
      BY <3>3, <3>4, CountBoth
    <3>6. SubSeq(gs, 1, n) = SubSeq(gs, 1, n - 1) \o <<gs[n]>> /\ SubSeq(gs, 1, n - 1) \in Seq(G) /\ <<gs[n]>> \in Seq(G)
      BY <2>2, <3>1
    <3>7. Count(SubSeq(gs, 1, n), d) = Count(SubSeq(gs, 1, n - 1), d) + Count(<<gs[n]>>, d)
      <4>1. Count(SubSeq(gs, 1, n - 1) \o <<gs[n]>>, d) = Count(SubSeq(gs, 1, n - 1), d) + Count(<<gs[n]>>, d)
        BY ONLY <3>6, CountBoth, ZenonT(30)
      <4> QED BY ONLY <3>6, <4>1, Zenon
    <3>8. f[n] \in Seq(S) /\ Count(f[n], e) = Count(SubSeq(gs, 1, n), d)
      BY <2>2, <3>1, <3>3, <3>4, <3>5, <3>7
    <3> HIDE DEF h
    <3> QED BY <3>1, <3>2, <3>8
  <2>5. \A n \in 1..L : h[n] \in Q
    <3> HIDE DEF h, Q
    <3>1. 1 \in Nat
      OBVIOUS
    <3> QED BY <2>3, <2>4, <3>1, Induction
  <2>6. h[L] = <<L, f[L]>> /\ h[L] \in Q
    BY <2>2, <2>5
  <2>7. f[L] \in Seq(S) /\ Count(f[L], e) = Count(SubSeq(gs, 1, L), d)
    <3> HIDE DEF h
    <3> QED BY <2>6
  <2>8. SubSeq(gs, 1, L) = gs
    BY <2>2
  <2> QED BY <2>1, <2>2, <2>7, <2>8
<1> QED BY <1>1, <1>2

------------------------------------------------------------------------------
(* What the callbacks post: one event for each pong that they get.         *)
PostedByCall == {"WS_CONNECTED", "WS_PING_OK"}

LEMMA PostsType ==
    ASSUME NEW c
    PROVE  Posts(c) \in Seq(PostedByCall) /\ Posts(c) \in {<<"WS_CONNECTED">>, <<"WS_PING_OK">>, <<>>}
<1>1. {<<"WS_CONNECTED">>, <<"WS_PING_OK">>, <<>>} \subseteq Seq(PostedByCall)
  BY DEF PostedByCall
<1>2. Posts(c) \in {<<"WS_CONNECTED">>, <<"WS_PING_OK">>, <<>>}
  BY Zenon DEF Posts
<1> QED BY <1>1, <1>2

\* The events that the callbacks of a segment post.
PostsOf(calls) == FlattenSeq([i \in DOMAIN calls |-> Posts(calls[i])])

LEMMA PostsOfType == ASSUME NEW calls \in Seq(CallBack) PROVE PostsOf(calls) \in Seq(PostedByCall)
<1>1. [i \in DOMAIN calls |-> Posts(calls[i])] \in Seq(Seq(PostedByCall))
  <2>1. DOMAIN calls = 1..Len(calls) /\ Len(calls) \in Nat
    OBVIOUS
  <2> QED BY PostsType, <2>1
<1> QED BY <1>1, FlattenType DEF PostsOf

\* A frame makes its callback post a pong if it is one.
LEMMA PostsCount ==
    ASSUME NEW c \in CallBack, NEW f \in FrameSet, Given(c, f)
    PROVE  Count(Posts(c), "WS_PING_OK") = Count(<<f>>, Pong)
<1>1. c.r \in Reader
  BY DEF CallBack
<1>2. /\ f \in Seq(Unit) /\ Len(f) \in Nat /\ Len(f) > 1 /\ SubSeq(c.r.cell, 1, Len(f)) = f
      /\ c.r.cell \in Seq(Unit)
  <2>1. c.len = Len(f) /\ SubSeq(c.r.cell, 1, c.len) = f
    BY DEF Given
  <2>2. c.r.cell \in Seq(Unit)
    BY <1>1, ReaderAssumption DEF Reader
  <2>3. f \in Seq(Unit) /\ Len(f) \in Nat /\ Len(f) > 1
    BY FrameType
  <2> QED BY <2>1, <2>2, <2>3
<1>3. c.r.cell[1] = f[1] /\ c.r.cell[2] = f[2]
  BY <1>2
<1>4. CASE f = Pong
  <2>1. c.r.cell[1] = "8a" /\ c.r.cell[2] = Nul
    BY <1>3, <1>4 DEF Pong
  <2>2. PICK n \in 0..Size : /\ Len(Text(c.r)) = n /\ \A i \in 1..n : Text(c.r)[i] = c.r.cell[i] /\ c.r.cell[i] # Nul
                             /\ n = Size \/ c.r.cell[n + 1] = Nul
    BY <1>1, TextIs
  <2>3. n \in {0, 1}
    <3>1. 2 \notin 1..n
      BY <2>1, <2>2
    <3> QED BY <3>1, ReaderAssumption
  <2>4. "101" \notin ToSet(Text(c.r))
    <3>1. Text(c.r) \in Seq(Unit)
      BY <1>1, TextType
    <3>2. ToSet(Text(c.r)) = {Text(c.r)[j] : j \in 1..Len(Text(c.r))}
      BY <3>1, SetOf
    <3>3. \A j \in 1..n : j = 1
      BY <2>3
    <3>4. \A j \in 1..Len(Text(c.r)) : Text(c.r)[j] = "8a"
      BY <2>1, <2>2, <3>3
    <3> QED BY <3>2, <3>4
  <2>5. Posts(c) = <<"WS_PING_OK">>
    BY <2>1, <2>4, Zenon DEF Posts
  <2>6. Count(Posts(c), "WS_PING_OK") = 1
    BY <2>5, CountOne
  <2>7. Count(<<f>>, Pong) = 1
    BY <1>4, CountOne
  <2> QED BY <2>6, <2>7
<1>5. CASE f \in Frames
  <2>1. f[1] = "81"
    BY <1>5, SessionAssumption DEF TextFrame
  <2>2. c.r.cell[1] # "8a" /\ f # Pong
    BY <1>3, <2>1 DEF Pong
  <2>3. Posts(c) \in {<<"WS_CONNECTED">>, <<>>}
    BY <2>2, Zenon DEF Posts
  <2>4. Count(Posts(c), "WS_PING_OK") = 0
    <3>1. Count(<<"WS_CONNECTED">>, "WS_PING_OK") = 0 /\ Count(<<>>, "WS_PING_OK") = 0
      BY CountOne
    <3> QED BY <2>3, <3>1
  <2>5. Count(<<f>>, Pong) = 0
    BY <2>2, CountOne
  <2> QED BY <2>4, <2>5
<1> QED BY <1>4, <1>5 DEF FrameSet

\* The pongs of the stream that are handed over are posted.
LEMMA PostsCounted ==
    ASSUME NEW calls \in Seq(CallBack), NEW fs \in Seq(FrameSet), Len(calls) <= Len(fs),
           \A i \in 1..Len(calls) : Given(calls[i], fs[i])
    PROVE  Count(PostsOf(calls), "WS_PING_OK") + Count(SubSeq(fs, Len(calls) + 1, Len(fs)), Pong) = Count(fs, Pong)
<1> DEFINE c == Len(calls)
           gs == SubSeq(fs, 1, c)
           ps == [i \in DOMAIN calls |-> Posts(calls[i])]
<1>1. /\ c \in Nat /\ DOMAIN calls = 1..c /\ gs \in Seq(FrameSet) /\ Len(gs) = c /\ \A i \in 1..c : gs[i] = fs[i] /\ fs[i] \in FrameSet
      /\ c \in 0..Len(fs)
  OBVIOUS
<1>2. ps \in Seq(Seq(PostedByCall)) /\ Len(ps) = c /\ \A i \in 1..c : ps[i] = Posts(calls[i])
  BY PostsType, <1>1
<1>3. \A i \in 1..Len(ps) : Count(ps[i], "WS_PING_OK") = Count(<<gs[i]>>, Pong)
  <2> SUFFICES ASSUME NEW i \in 1..c PROVE Count(ps[i], "WS_PING_OK") = Count(<<gs[i]>>, Pong)
    BY <1>2
  <2>1. calls[i] \in CallBack /\ fs[i] \in FrameSet /\ Given(calls[i], fs[i])
    BY <1>1
  <2>2. Count(Posts(calls[i]), "WS_PING_OK") = Count(<<fs[i]>>, Pong)
    BY ONLY <2>1, PostsCount
  <2>3. ps[i] = Posts(calls[i]) /\ gs[i] = fs[i]
    BY <1>1, <1>2
  <2> QED BY ONLY <2>2, <2>3, Zenon
<1> HIDE DEF ps, gs
<1>4. Count(FlattenSeq(ps), "WS_PING_OK") = Count(gs, Pong)
  BY <1>1, <1>2, <1>3, FlattenCount
<1>5. Count(fs, Pong) = Count(gs, Pong) + Count(SubSeq(fs, c + 1, Len(fs)), Pong)
  <2> HIDE DEF c
  <2> QED BY <1>1, CountParts DEF gs
<1>6. PostsOf(calls) = FlattenSeq(ps)
  BY DEF PostsOf, ps
<1> QED BY <1>4, <1>5, <1>6

------------------------------------------------------------------------------
(* Counters that wrap, and the queue of events.                            *)
\* The difference of two counters that wrap.
LEMMA DifferenceIs ==
    ASSUME NEW w \in Nat \ {0}, NEW a \in 0..w - 1, NEW b \in 0..w - 1
    PROVE  (a - b) % w = IF b <= a THEN a - b ELSE a - b + w
<1>1. PICK x \in Int, q \in Int, m \in Int : x = a - b /\ q = x \div w /\ m = x % w /\ x = q * w + m /\ 0 <= m /\ m < w
  BY SMT
<1>2. CASE b <= a
  <2>1. 0 <= x /\ x < w
    BY <1>1, <1>2
  <2>2. x % w = x
    BY <2>1, SMT
  <2> QED BY <1>1, <1>2, <2>2
<1>3. CASE ~(b <= a)
  <2>1. x < 0 /\ -w < x
    BY <1>1, <1>3
  <2>2. q < 0
    BY <1>1, <2>1, SMT
  <2>3. q > -2
    BY <1>1, <2>1, SMT
  <2>4. q = -1
    BY <2>2, <2>3
  <2> QED BY <1>1, <1>3, <2>4, SMT
<1> QED BY <1>2, <1>3

\* A counter that wraps.
LEMMA NextIs ==
    ASSUME NEW w \in Nat, w > 1, NEW a \in 0..w - 1
    PROVE  (a + 1) % w = (IF a + 1 = w THEN 0 ELSE a + 1) /\ (a + 1) % w \in 0..w - 1
<1>1. CASE a + 1 = w
  <2>1. w % w = 0
    BY SMT
  <2> QED BY <1>1, <2>1
<1>2. CASE a + 1 < w
  BY <1>2, SMT
<1> QED BY <1>1, <1>2

\* One more of the first, or of the second, counter.
LEMMA DifferenceMoves ==
    ASSUME NEW w \in Nat, w > 1, NEW a \in 0..w - 1, NEW b \in 0..w - 1, NEW u \in Nat, (a - b) % w = u
    PROVE  /\ u + 1 < w => (((a + 1) % w) - b) % w = u + 1
           /\ u > 0 => (a - ((b + 1) % w)) % w = u - 1
<1>1. u = IF b <= a THEN a - b ELSE a - b + w
  BY DifferenceIs
<1>2. PICK c \in 0..w - 1, d \in 0..w - 1 : /\ c = (a + 1) % w /\ c = (IF a + 1 = w THEN 0 ELSE a + 1)
                                            /\ d = (b + 1) % w /\ d = (IF b + 1 = w THEN 0 ELSE b + 1)
  BY NextIs
<1>3. w \in Nat \ {0}
  OBVIOUS
<1>4. (c - b) % w = (IF b <= c THEN c - b ELSE c - b + w)
  BY ONLY <1>3, DifferenceIs, Zenon
<1>5. (a - d) % w = (IF d <= a THEN a - d ELSE a - d + w)
  BY ONLY <1>3, DifferenceIs, Zenon
<1> QED BY <1>1, <1>2, <1>4, <1>5

------------------------------------------------------------------------------
(* The inductive invariant of the session: in which reader the buffer is   *)
(* read, what it can hold there, and what is still on its way.             *)
\* The registration is under way.
Registering == ToSet(posted) \cap {"WS_CONNECTED", "REGISTER"} # {}

\* The first line of the answer, and nothing behind it.
Only101(r) == r.index = 1 /\ r.cell = [Blank EXCEPT ![1] = "101"]

\* What the buffer holds between segments.
HttpInv == type = "HTTP" => /\ Hidden(network_spro)
                            /\ Registering => network_spro.index = 0 \/ Only101(network_spro)
WsInv == type = "WS" => NoEnd(network_spro) /\ NoneWhole(network_spro)

\* A connection whose end is posted is gone, and nothing is on its way.
EndInv == /\ "DISCONNECTED" \in ToSet(posted) => link \in {"none", "lost"}
          /\ link \in {"none", "lost"} => stream = <<>> /\ frames = <<>>

\* What is on its way, whatever the buffer holds: no field of a head, and the
\* end of the answer only at the front, behind its first line.
AnswerFirst(r, s) ==
    /\ \A i \in 1..Len(s) : s[i] \notin Lengths /\ (s[i] = EndOfHead => i <= 2)
    /\ Len(s) > 1 /\ s[2] = EndOfHead => s[1] = "101" /\ r.index = 0
    /\ Len(s) > 0 /\ s[1] = EndOfHead => r.index = 0 \/ r.cell[1] = "101"
ShakeInv == link = "handshake" =>
    /\ type = "HTTP" /\ stream \in {Answer101, <<EndOfHead>>, <<>>}
    /\ Registering /\ network_spro.index = 1 => stream = <<EndOfHead>>
OpenInv == link = "open" => type = "WS" /\ AnswerFirst(network_spro, stream)

\* While no package is torn the buffer and the stream hold the packages that
\* were not handed over, one behind the other.
AnswerInv == link = "handshake" /\ ~torn =>
    \/ frames = <<>> /\ stream = <<>> /\ network_spro.index = 0
    \/ /\ frames = <<Answer101>> /\ ~Registering
       /\ \/ stream = Answer101 /\ network_spro.index = 0
          \/ stream = <<EndOfHead>> /\ Only101(network_spro)
FrameInv == link = "open" /\ ~torn =>
    /\ frames \in Seq(FrameSet) /\ \A i \in 1..Len(stream) : stream[i] # EndOfHead
    /\ \E p : Cut(p, frames, network_spro, stream)

\* From the registration on the counters are in balance.
Counting == (link = "open" \/ (link = "handshake" /\ "REGISTER" \in ToSet(posted))) /\ beat /\ ~reset /\ ~torn
BalanceInv == Counting => (ping_counter - pong_counter) % Width = Unanswered

SessionInv ==
    /\ SessionTypeOK /\ stream \in Seq(Unit) /\ Calm(network_spro) /\ ~garbled
    /\ (network_spro.wild => large)
    /\ HttpInv /\ WsInv /\ EndInv /\ ShakeInv /\ OpenInv /\ AnswerInv /\ FrameInv /\ BalanceInv

LEMMA NoEndHidden == ASSUME NEW r, NoEnd(r) PROVE Hidden(r)
BY DEF NoEnd, Hidden

\* What a lone first line of the answer is to both readers.
LEMMA Only101Is ==
    ASSUME NEW r, Only101(r)
    PROVE  NoEnd(r) /\ r.index = 1 /\ r.cell[1] = "101" /\ (\A i \in 1..Size : i # 1 => r.cell[i] = Nul)
           /\ (r \in Reader => WsLength(r) = -1)
<1>1. r.cell = [Blank EXCEPT ![1] = "101"] /\ r.index = 1
  BY DEF Only101
<1>2. /\ r.cell[1] = "101" /\ \A i \in 1..Size : r.cell[i] = IF i = 1 THEN "101" ELSE Nul
  BY <1>1, ReaderAssumption DEF Blank
<1>3. NoEnd(r)
  BY <1>2 DEF NoEnd, Nul, EndOfHead
<1>4. WsLength(r) = -1
  BY <1>2, Zenon DEF WsLength
<1> QED BY <1>1, <1>2, <1>3, <1>4

LEMMA EmptyIs == ASSUME NEW r, Empty(r) PROVE r.index = 0 /\ Calm(r) /\ NoEnd(r) /\ Hidden(r) /\ NoneWhole(r)
<1>1. r \in Reader /\ r.index = 0 /\ r.cell = Blank
  BY DEF Empty
<1>2. Calm(r) /\ NoEnd(r)
  BY <1>1, BlankIs DEF Calm, NoEnd
<1> QED BY <1>1, <1>2, NoEndHidden DEF NoneWhole

\* The answer, in one segment or in two, is handed over when it is whole.
AnswerWaits(r, data, res) ==
    r.index = 0 /\ data = <<"101">> /\ res.calls = <<>> /\ Calm(res.r) /\ Only101(res.r)
AnswerTaken(r, data, res) ==
    /\ data # <<"101">> /\ Empty(res.r)
    /\ \E w \in Reader : /\ res.calls = <<Call(w, w.index, TRUE)>>
                         /\ data = Answer101 \/ Only101(r) => SubSeq(w.cell, 1, w.index) = Answer101

LEMMA AnswerComes ==
    ASSUME NEW r, Calm(r), NEW data \in AnswerParts,
           r.index = 0 \/ (Only101(r) /\ data = <<EndOfHead>>)
    PROVE  AnswerWaits(r, data, Recv(r, "HTTP", data)) \/ AnswerTaken(r, data, Recv(r, "HTTP", data))
<1> DEFINE w == Written(r, data)
           res == Recv(r, "HTTP", data)
<1>1. r \in Reader /\ (r.index = 0 => r.cell = Blank) /\ Len(data) \in {1, 2} /\ data \in Seq(Unit)
  <2>1. data = <<"101">> \/ data = Answer101 \/ data = <<EndOfHead>>
    BY DEF AnswerParts
  <2>2. data \in Seq(Unit) /\ Len(data) \in {1, 2}
    <3>1. "101" \in Unit /\ EndOfHead \in Unit
      BY DEF Unit, EndOfHead
    <3>2. CASE data = <<"101">>
      BY <3>1, <3>2
    <3>3. CASE data = Answer101
      BY <3>1, <3>3 DEF Answer101
    <3>4. CASE data = <<EndOfHead>>
      BY <3>1, <3>4
    <3> QED BY <2>1, <3>2, <3>3, <3>4
  <2> QED BY <2>2 DEF Calm
<1>2. Size \in Nat /\ Size > 1
  BY SessionAssumption, ReaderAssumption
<1>3. /\ w \in Reader
      /\ \A i \in 1..Size : w.cell[i] = IF i \in r.index + 1..w.index THEN data[i - r.index] ELSE r.cell[i]
      /\ w.index = IF r.index + Len(data) <= Size THEN r.index + Len(data) ELSE Size
  BY <1>1, WrittenIs
<1> HIDE DEF w
<1>4. Hidden(r)
  <2>1. CASE r.index = 0
    BY <1>1, <2>1, BlankIs, NoEndHidden DEF NoEnd
  <2>2. CASE Only101(r)
    BY <2>2, Only101Is, NoEndHidden
  <2> QED BY <2>1, <2>2
<1>5. \/ Hidden(w)
      \/ Empty(res.r) /\ res.calls = <<Call(w, w.index, TRUE)>>
  BY <1>4, HttpRecvCalm DEF w
<1>6. CASE r.index = 0 /\ data = <<"101">>
  <2>1. Len(data) = 1 /\ data[1] = "101"
    BY <1>6
  <2>2. w.index = 1
    BY <1>2, <1>3, <1>6, <2>1
  <2>3. \A i \in 1..Size : w.cell[i] = IF i = 1 THEN "101" ELSE Nul
    <3>1. \A i \in 1..Size : w.cell[i] = IF i = 1 THEN data[1] ELSE Blank[i]
      BY <1>1, <1>3, <1>6, <2>2
    <3> QED BY <2>1, <3>1, BlankIs
  <2>4. w.cell = [Blank EXCEPT ![1] = "101"]
    <3>1. w.cell \in [1..Size -> Unit] /\ 1 \in 1..Size
      BY <1>2, <1>3, ReaderAssumption DEF Reader
    <3> QED BY <2>3, <3>1 DEF Blank
  <2>5. Only101(w) /\ w.index # 0
    BY <2>2, <2>4 DEF Only101
  <2>6. NoEnd(w)
    BY <2>5, Only101Is
  <2>7. IndexOf(w, {EndOfHead}) = 0
    BY <1>3, <2>6, NoUnit DEF NoEnd, EndOfHead, Nul
  <2>8. res.r = Waiting(w) /\ res.calls = <<>>
    BY <1>1, <2>7, HttpRecvIs DEF w
  <2>9. Waiting(w) \in Reader /\ Waiting(w).index = w.index /\ Waiting(w).cell = w.cell
    BY <1>3, WaitingType DEF Waiting, Reader
  <2>11. Only101(Waiting(w)) /\ Calm(Waiting(w))
    <3>1. \A i \in 1..Size : Waiting(w).cell[i] \notin Lengths
      BY <2>3, <2>9 DEF Lengths, Nul
    <3> QED BY <2>2, <2>4, <2>9, <3>1 DEF Only101, Calm
  <2>12. Calm(res.r) /\ Only101(res.r) /\ res.calls = <<>>
    BY <2>8, <2>11
  <2> HIDE DEF res
  <2>13. AnswerWaits(r, data, res)
    BY <1>6, <2>12, Zenon DEF AnswerWaits
  <2> QED BY <2>13 DEF res
<1>7. CASE data # <<"101">>
  <2>1. /\ r.index = 0 /\ data = Answer101 => w.index = 2 /\ w.cell[1] = "101" /\ w.cell[2] = EndOfHead
        /\ r.index = 0 /\ data = <<EndOfHead>> => w.index = 1 /\ w.cell[1] = EndOfHead
        /\ Only101(r) => w.index = 2 /\ w.cell[1] = "101" /\ w.cell[2] = EndOfHead
    <3>1. CASE r.index = 0 /\ data = Answer101
      <4>1. data[1] = "101" /\ data[2] = EndOfHead /\ Len(data) = 2
        BY <3>1 DEF Answer101
      <4>2. w.index = 2 /\ 1 \in 1..Size /\ 2 \in 1..Size
        BY <1>2, <1>3, <3>1, <4>1
      <4> QED BY <1>3, <3>1, <4>1, <4>2, Only101Is
    <3>2. CASE r.index = 0 /\ data = <<EndOfHead>>
      <4>1. data[1] = EndOfHead /\ Len(data) = 1
        BY <3>2
      <4>2. w.index = 1 /\ 1 \in 1..Size
        BY <1>2, <1>3, <3>2, <4>1
      <4> QED BY <1>3, <3>2, <4>1, <4>2, Only101Is DEF Answer101
    <3>3. CASE Only101(r)
      <4>1. r.index = 1 /\ r.cell[1] = "101" /\ data = <<EndOfHead>>
        BY <3>3, Only101Is
      <4>2. data[1] = EndOfHead /\ Len(data) = 1
        BY <4>1
      <4>3. w.index = 2 /\ 1 \in 1..Size /\ 2 \in 1..Size
        BY <1>2, <1>3, <4>1, <4>2
      <4> QED BY <1>3, <4>1, <4>2, <4>3
    <3>4. r.index = 0 \/ Only101(r)
      OBVIOUS
    <3>5. data = Answer101 \/ data = <<EndOfHead>>
      BY <1>7 DEF AnswerParts
    <3> QED BY <3>1, <3>2, <3>3, <3>4, <3>5
  <2>2. ~Hidden(w)
    <3>1. w.index \in {1, 2} /\ w.cell[w.index] = EndOfHead /\ (w.index = 2 => w.cell[1] # Nul) /\ w.index \in 1..Size
      BY <1>2, <1>3, <1>7, <2>1 DEF AnswerParts, Nul, Reader
    <3> QED BY <3>1 DEF Hidden
  <2>3. data = Answer101 \/ Only101(r) => SubSeq(w.cell, 1, w.index) = Answer101
    <3> SUFFICES ASSUME data = Answer101 \/ Only101(r) PROVE SubSeq(w.cell, 1, w.index) = Answer101
      OBVIOUS
    <3>1. w.index = 2 /\ w.cell[1] = "101" /\ w.cell[2] = EndOfHead /\ Size > 1
      <4>1. Answer101 # <<EndOfHead>>
        BY DEF Answer101
      <4> QED BY <1>1, <1>2, <2>1, <4>1
    <3>2. w.cell \in Seq(Unit) /\ Len(w.cell) = Size
      BY <1>2, <1>3 DEF Reader
    <3>3. SubSeq(w.cell, 1, 2) = <<w.cell[1], w.cell[2]>>
      <4>1. /\ SubSeq(w.cell, 1, 2) \in Seq(Unit) /\ Len(SubSeq(w.cell, 1, 2)) = 2
            /\ SubSeq(w.cell, 1, 2)[1] = w.cell[1] /\ SubSeq(w.cell, 1, 2)[2] = w.cell[2]
        BY <1>2, <3>1, <3>2
      <4>2. <<w.cell[1], w.cell[2]>> \in Seq(Unit) /\ Len(<<w.cell[1], w.cell[2]>>) = 2
        BY <1>2, <3>1, <3>2
      <4>3. \A i \in 1..2 : SubSeq(w.cell, 1, 2)[i] = <<w.cell[1], w.cell[2]>>[i]
        BY <4>1
      <4> HIDE DEF w
      <4> QED BY <4>1, <4>2, <4>3, SeqEqual
    <3> QED BY <3>1, <3>3 DEF Answer101
  <2>4. Empty(res.r) /\ res.calls = <<Call(w, w.index, TRUE)>>
    BY <1>5, <2>2
  <2> HIDE DEF res
  <2>5. AnswerTaken(r, data, res)
    BY <1>3, <1>7, <2>3, <2>4, Zenon DEF AnswerTaken
  <2> QED BY <2>5 DEF res
<1>8. data = <<"101">> => r.index = 0
  BY Only101Is DEF EndOfHead
<1> QED BY <1>6, <1>7, <1>8

------------------------------------------------------------------------------
(* A segment when a package may have been torn: what is in front may be     *)
(* anything.                                                                *)
\* What the reader does not know empties the buffer.
LEMMA WsRecvUnknown ==
    ASSUME NEW r, Calm(r), NEW data \in Seq(Unit), WsLength(Written(r, data)) = -1
    PROVE  Recv(r, "WS", data).r.index = 0
<1> DEFINE w == Written(r, data)
           x == [r |-> w, calls |-> <<>>, more |-> TRUE]
           y == WsPass(x)
<1>1. r \in Reader /\ w \in Reader /\ Size \in Nat
  BY WrittenIs, ReaderAssumption DEF Calm
<1>2. PICK after : FrameRun(after, w) /\ Recv(r, "WS", data).r = after[Size + 1].r
  BY <1>1, WsRecvIs
<1>3. x \in PassState /\ x.r = w /\ x.more
  BY <1>1 DEF PassState
<1>4. FramePass(x, y)
  BY <1>3, WsPassIs
<1>5. y.r.index = 0 /\ ~y.more
  <2>1. WsLength(x.r) = -1
    BY <1>3
  <2>2. ~(WsLength(x.r) = 0) /\ ~(WsLength(x.r) > 0)
    BY <2>1
  <2> HIDE DEF x, y
  <2> QED BY <1>4, <2>1, <2>2, Zenon DEF FramePass
<1>6. after[0] = x /\ \A n \in 1..Size + 1 : after[n] = IF after[n - 1].more THEN WsPass(after[n - 1]) ELSE after[n - 1]
  BY <1>2 DEF FrameRun, x
<1> HIDE DEF x
<1>7. after[1] = y
  <2>1. 1 \in 1..Size + 1 /\ 1 - 1 = 0
    BY <1>1
  <2> QED BY <1>3, <1>6, <2>1
<1> HIDE DEF y
<1> DEFINE Ends == {y}
<1>8. \A n \in 1..Size + 1 : after[n] \in Ends
  <2>1. ASSUME NEW n \in 1 + 1..Size + 1, after[n - 1] \in Ends PROVE after[n] \in Ends
    <3>1. n \in 1..Size + 1
      OBVIOUS
    <3> QED BY <1>5, <1>6, <2>1, <3>1
  <2>2. 1 \in Nat /\ Size + 1 \in Nat /\ after[1] \in Ends
    BY <1>1, <1>7
  <2> HIDE DEF Ends
  <2> QED BY <2>1, <2>2, Induction
<1>9. after[Size + 1] = y
  BY <1>1, <1>8
<1> QED BY <1>2, <1>5, <1>9

\* Any segment in a reader of frames.
LEMMA WsFront ==
    ASSUME NEW r, Calm(r), ~r.wild, NoneWhole(r), NoEnd(r), NEW s \in Seq(Unit), AnswerFirst(r, s),
           NEW n \in 1..Len(s)
    PROVE  LET res == Recv(r, "WS", SubSeq(s, 1, n)) IN
           /\ Calm(res.r) /\ NoneWhole(res.r) /\ NoEnd(res.r) /\ res.calls \in Seq(CallBack)
           /\ AnswerFirst(res.r, SubSeq(s, n + 1, Len(s))) /\ (res.r.wild => 2 * n > Size)
<1> DEFINE data == SubSeq(s, 1, n)
           rest == SubSeq(s, n + 1, Len(s))
           w == Written(r, data)
           res == Recv(r, "WS", data)
<1>1. /\ data \in Seq(Unit) /\ Len(data) = n /\ \A i \in 1..n : i \in 1..Len(s) /\ data[i] = s[i]
      /\ rest \in Seq(Unit) /\ Len(rest) = Len(s) - n /\ \A i \in 1..Len(s) - n : n + i \in 1..Len(s) /\ rest[i] = s[n + i]
  OBVIOUS
<1> HIDE DEF data, rest
<1>2. r \in Reader /\ r.index \in Nat /\ Size \in Nat /\ Size > 0 /\ n \in Nat /\ n > 0
  BY ReaderAssumption DEF Calm, Reader
<1>3. /\ w \in Reader
      /\ \A i \in 1..Size : w.cell[i] = IF i \in r.index + 1..w.index THEN data[i - r.index] ELSE r.cell[i]
      /\ w.index = IF r.index + Len(data) <= Size THEN r.index + Len(data) ELSE Size
  BY <1>1, <1>2, WrittenIs
<1> HIDE DEF w
<1>4. w.cell[1] = IF r.index = 0 THEN data[1] ELSE r.cell[1]
  <2>1. w.cell[1] = IF 1 \in r.index + 1..w.index THEN data[1 - r.index] ELSE r.cell[1]
    BY <1>2, <1>3
  <2>2. w.index > 0 /\ w.index \in Nat /\ (r.index = 0 => 1 - r.index = 1)
    BY <1>1, <1>2, <1>3
  <2>3. 1 \in r.index + 1..w.index <=> r.index = 0
    BY <1>2, <2>2
  <2> QED BY <2>1, <2>2, <2>3
<1>5. w.cell[1] \in {"101", EndOfHead} => WsLength(w) = -1
  <2>1. w.cell[1] \in {"101", EndOfHead} => w.cell[1] \notin {"81", "8a"}
    BY DEF EndOfHead
  <2> QED BY <2>1, Zenon DEF WsLength
<1>6. Len(s) \in Nat /\ s[1] = data[1] /\ 1 \in 1..n
  BY <1>1, <1>2
<1>7. \A i \in 1..Len(data) : data[i] \notin Lengths
  BY <1>1 DEF AnswerFirst
<1>8. NoEnd(w) \/ WsLength(w) = -1
  <2> SUFFICES ASSUME ~NoEnd(w) PROVE w.cell[1] \in {"101", EndOfHead}
    BY <1>5
  <2>1. PICK i \in 1..Size : w.cell[i] = EndOfHead
    BY DEF NoEnd
  <2>2. i \in r.index + 1..w.index /\ data[i - r.index] = EndOfHead
    BY <1>3, <2>1 DEF NoEnd
  <2>3. PICK k \in 1..n : k = i - r.index
    BY <1>1, <1>2, <1>3, <2>2
  <2>4. s[k] = EndOfHead /\ k \in 1..Len(s) /\ k <= 2
    BY <1>1, <2>2, <2>3 DEF AnswerFirst
  <2>5. CASE k = 1
    <3>1. r.index = 0 \/ r.cell[1] = "101"
      BY <1>6, <2>4, <2>5 DEF AnswerFirst
    <3> QED BY <1>4, <1>6, <2>4, <2>5, <3>1
  <2>6. CASE k = 2
    <3>1. s[1] = "101" /\ r.index = 0
      BY <2>4, <2>6 DEF AnswerFirst
    <3> QED BY <1>4, <1>6, <3>1
  <2> QED BY <2>4, <2>5, <2>6
<1>9. Calm(res.r) /\ NoneWhole(res.r) /\ NoEnd(res.r) /\ res.calls \in Seq(CallBack) /\ (res.r.wild => 2 * n > Size)
  <2>1. Len(data) > 0 /\ Len(data) = n
    BY <1>1
  <2> QED BY <1>1, <1>7, <1>8, <2>1, WsRecvCalm DEF w
<1>10. AnswerFirst(res.r, rest)
  <2>1. ASSUME NEW i \in 1..Len(rest) PROVE rest[i] \notin Lengths /\ (rest[i] = EndOfHead => i = 1 /\ n = 1 /\ s[2] = EndOfHead)
    <3>1. n + i \in 1..Len(s) /\ rest[i] = s[n + i]
      BY <1>1, <2>1
    <3>2. s[n + i] \notin Lengths /\ (s[n + i] = EndOfHead => n + i <= 2)
      BY <3>1 DEF AnswerFirst
    <3>3. n + i <= 2 => n = 1 /\ i = 1 /\ n + i = 2
      BY <1>2
    <3> QED BY <3>1, <3>2, <3>3
  <2>2. Len(rest) > 1 => rest[2] # EndOfHead
    <3>1. Len(rest) > 1 => 2 \in 1..Len(rest)
      BY <1>1
    <3> QED BY <2>1, <3>1
  <2>3. Len(rest) > 0 /\ rest[1] = EndOfHead => res.r.index = 0
    <3> SUFFICES ASSUME Len(rest) > 0, rest[1] = EndOfHead PROVE res.r.index = 0
      OBVIOUS
    <3>1. 1 \in 1..Len(rest)
      BY <1>1
    <3>2. n = 1 /\ s[2] = EndOfHead
      BY <2>1, <3>1
    <3>3. s[1] = "101" /\ r.index = 0
      BY <1>1, <1>6, <3>2 DEF AnswerFirst
    <3>4. WsLength(w) = -1
      BY <1>4, <1>5, <1>6, <3>3
    <3> QED BY <1>1, <3>4, WsRecvUnknown DEF w
  <2> HIDE DEF res
  <2> QED BY <2>1, <2>2, <2>3 DEF AnswerFirst
<1> QED BY <1>9, <1>10 DEF data, rest

------------------------------------------------------------------------------
(* The steps of the session, one by one.                                   *)
LEMMA ReaderFits ==
    ASSUME NEW r \in Reader
    PROVE  r.index \in 0..Size /\ Len(r.cell) = Size /\ {r.opened, r.armed, r.wild} \subseteq BOOLEAN
<1>1. r.cell \in [1..Size -> Unit] /\ Size \in Nat
  BY ReaderAssumption DEF Reader
<1> QED BY <1>1 DEF Reader

\* What is counted of the pings.
LEMMA UnansweredType ==
    ASSUME SessionTypeOK
    PROVE  /\ pings \in Nat /\ refused \in Nat /\ Count(frames, Pong) \in Nat /\ Count(posted, "WS_PING_OK") \in Nat
           /\ Unanswered \in Nat /\ Width \in Nat /\ Width > 2 /\ MaxPings \in Nat /\ MaxPings > 1
           /\ ping_counter \in 0..Width - 1 /\ pong_counter \in 0..Width - 1
<1>1. Count(frames, Pong) \in Nat /\ Count(posted, "WS_PING_OK") \in Nat
  BY CountType DEF SessionTypeOK
<1>2. pings \in Nat /\ refused \in Nat /\ Width \in Nat /\ Width > 2 /\ MaxPings \in Nat /\ MaxPings > 1
  BY SessionAssumption DEF SessionTypeOK
<1>3. Unanswered \in Nat
  BY <1>1, <1>2 DEF Unanswered
<1> QED BY <1>1, <1>2, <1>3 DEF SessionTypeOK

\* An event is taken.
LEMMA TakenEvent ==
    ASSUME SessionTypeOK, posted # <<>>
    PROVE  /\ Tail(posted) \in Seq(PostedEvent) /\ Head(posted) \in PostedEvent
           /\ ToSet(posted) = ToSet(Tail(posted)) \cup {Head(posted)}
           /\ Count(Tail(posted), "WS_PING_OK") = Count(posted, "WS_PING_OK") - (IF Head(posted) = "WS_PING_OK" THEN 1 ELSE 0)
BY QueueTail, CountTail DEF SessionTypeOK

\* An event is added to q.
LEMMA AddedEvent ==
    ASSUME NEW q \in Seq(PostedEvent), NEW e \in PostedEvent
    PROVE  /\ q \o <<e>> \in Seq(PostedEvent) /\ Append(q, e) = q \o <<e>>
           /\ ToSet(q \o <<e>>) = ToSet(q) \cup {e}
           /\ Count(q \o <<e>>, "WS_PING_OK") = Count(q, "WS_PING_OK") + (IF e = "WS_PING_OK" THEN 1 ELSE 0)
<1> DEFINE t == <<e>>
<1>1. t \in Seq(PostedEvent) /\ Append(q, e) = q \o t
  OBVIOUS
<1>2. Count(t, "WS_PING_OK") = (IF e = "WS_PING_OK" THEN 1 ELSE 0) /\ ToSet(t) = {e}
  BY CountOne, QueueOne
<1> HIDE DEF t
<1>3. q \o t \in Seq(PostedEvent) /\ ToSet(q \o t) = ToSet(q) \cup ToSet(t)
  BY <1>1, QueueBoth
<1>4. Count(q \o t, "WS_PING_OK") = Count(q, "WS_PING_OK") + Count(t, "WS_PING_OK")
  BY <1>1, CountBoth
<1>5. /\ q \o t \in Seq(PostedEvent) /\ Append(q, e) = q \o t
      /\ ToSet(q \o t) = ToSet(q) \cup {e}
      /\ Count(q \o t, "WS_PING_OK") = Count(q, "WS_PING_OK") + (IF e = "WS_PING_OK" THEN 1 ELSE 0)
  BY <1>1, <1>2, <1>3, <1>4
<1> QED BY <1>5 DEF t

\* The counters after a setting of the heartbeat.
LEMMA HeartbeatBalance ==
    ASSUME SessionTypeOK, NEW on, NEW u, HeartbeatSet(on, u)
    PROVE  /\ ping_counter' = 0 /\ pong_counter' = 0 /\ refused' = 0 /\ reset' = u /\ beat' = on
           /\ {ping_counter', pong_counter'} \subseteq 0..Width - 1 /\ refused' \in 0..MaxPings
           /\ (ping_counter' - pong_counter') % Width = 0
<1>1. Width \in Nat \ {0} /\ Width > 2 /\ MaxPings \in Nat
  BY UnansweredType
<1>2. (0 - 0) % Width = 0
  BY <1>1, DifferenceIs
<1> QED BY <1>1, <1>2 DEF HeartbeatSet

LEMMA SessionConnect == SessionInv /\ Connect => SessionInv'
<1> SUFFICES ASSUME SessionInv, Connect PROVE SessionInv'
  OBVIOUS
<1>1. /\ SessionTypeOK /\ Calm(network_spro) /\ ~garbled
      /\ HttpInv /\ WsInv /\ (network_spro.wild => large)
  BY DEF SessionInv
<1>2. /\ posted = <<>> /\ posted' = posted /\ link' = "handshake" /\ alive' = TRUE /\ type' = "HTTP"
      /\ stream' = Answer101 /\ frames' = <<Answer101>> /\ pings' = 0 /\ torn' = (network_spro.index > 0)
      /\ network_spro' = network_spro /\ large' = large /\ garbled' = garbled
      /\ beat' = beat /\ ping_counter' = ping_counter /\ pong_counter' = pong_counter /\ refused' = refused /\ reset' = reset
  BY DEF Connect, beatVars
<1>3. Answer101 \in Seq(Unit) /\ <<Answer101>> \in Seq(Frames \cup {Pong, Answer101})
  BY DEF Answer101, EndOfHead, Unit
<1>4. SessionTypeOK'
  <2>1. 0 \in 0..MaxPings
    BY SessionAssumption
  <2> QED BY <1>1, <1>2, <1>3, <2>1 DEF SessionTypeOK
<1>5. ToSet(posted) = {}
  BY <1>2, QueueOne
<1>6. Hidden(network_spro)
  <2>1. type = "HTTP" \/ type = "WS"
    BY <1>1 DEF SessionTypeOK
  <2> QED BY <1>1, <2>1, NoEndHidden DEF HttpInv, WsInv
<1>7. HttpInv' /\ WsInv'
  BY <1>2, <1>5, <1>6 DEF HttpInv, WsInv, Registering
<1>8. EndInv' /\ ShakeInv' /\ OpenInv'
  BY <1>2, <1>5 DEF EndInv, ShakeInv, OpenInv, Registering
<1>9. AnswerInv'
  <2>1. network_spro.index \in Nat
    BY <1>1, ReaderAssumption DEF Calm, Reader
  <2>2. ~torn' => ~(network_spro.index > 0)
    BY <1>2, Zenon
  <2>3. ~Registering'
    BY <1>2, <1>5 DEF Registering
  <2> QED BY <1>2, <2>1, <2>2, <2>3 DEF AnswerInv
<1>10. FrameInv' /\ BalanceInv'
  BY <1>2, <1>5 DEF FrameInv, BalanceInv, Counting
<1> QED BY <1>1, <1>2, <1>3, <1>4, <1>7, <1>8, <1>9, <1>10 DEF SessionInv

LEMMA SessionHeartbeatStarts == SessionInv /\ HeartbeatStarts => SessionInv'
<1> SUFFICES ASSUME SessionInv, HeartbeatStarts PROVE SessionInv'
  OBVIOUS
<1>1. SessionTypeOK /\ posted # <<>> /\ Head(posted) = "WS_CONNECTED" /\ HeartbeatSet(TRUE, Unanswered > 0)
  BY DEF SessionInv, HeartbeatStarts, Next1
<1>2. /\ posted' = Tail(posted) \o <<"REGISTER">> /\ link' = link /\ alive' = alive /\ type' = type
      /\ stream' = stream /\ frames' = frames /\ pings' = pings /\ torn' = torn
      /\ network_spro' = network_spro /\ large' = large /\ garbled' = garbled
  BY DEF HeartbeatStarts, Next1, readerVars, serverVars
<1>3. /\ Tail(posted) \in Seq(PostedEvent) /\ ToSet(posted) = ToSet(Tail(posted)) \cup {"WS_CONNECTED"}
      /\ Count(Tail(posted), "WS_PING_OK") = Count(posted, "WS_PING_OK")
  BY <1>1, TakenEvent, UnansweredType
<1>4. /\ posted' \in Seq(PostedEvent) /\ ToSet(posted') = ToSet(Tail(posted)) \cup {"REGISTER"}
      /\ Count(posted', "WS_PING_OK") = Count(posted, "WS_PING_OK")
  <2>1. "REGISTER" \in PostedEvent
    BY DEF PostedEvent
  <2>2. /\ Tail(posted) \o <<"REGISTER">> \in Seq(PostedEvent)
        /\ ToSet(Tail(posted) \o <<"REGISTER">>) = ToSet(Tail(posted)) \cup {"REGISTER"}
        /\ Count(Tail(posted) \o <<"REGISTER">>, "WS_PING_OK") = Count(Tail(posted), "WS_PING_OK") + 0
    BY <1>3, <2>1, AddedEvent
  <2> QED BY <1>1, <1>2, <1>3, <2>2, UnansweredType
<1>5. /\ reset' = (Unanswered > 0) /\ beat' = TRUE /\ refused' = 0 /\ (ping_counter' - pong_counter') % Width = 0
      /\ {ping_counter', pong_counter'} \subseteq 0..Width - 1 /\ refused' \in 0..MaxPings
  BY <1>1, HeartbeatBalance
<1>6. SessionTypeOK'
  BY <1>1, <1>2, <1>4, <1>5 DEF SessionTypeOK
<1>7. Registering /\ ("DISCONNECTED" \in ToSet(posted') => "DISCONNECTED" \in ToSet(posted))
  BY <1>3, <1>4 DEF Registering
<1>8. BalanceInv'
  <2> SUFFICES ASSUME ~reset' PROVE (ping_counter' - pong_counter') % Width = Unanswered'
    BY DEF BalanceInv, Counting
  <2>1. Unanswered = 0 /\ pings = 0 /\ Count(frames, Pong) = 0 /\ Count(posted, "WS_PING_OK") = 0
    <3>1. /\ Unanswered \in Nat /\ pings \in Nat /\ refused \in Nat /\ Count(frames, Pong) \in Nat
          /\ Count(posted, "WS_PING_OK") \in Nat
      BY <1>1, UnansweredType
    <3>2. ~(Unanswered > 0)
      BY <1>5, Zenon
    <3> QED BY <3>1, <3>2 DEF Unanswered
  <2>2. Unanswered' = pings' + Count(frames', Pong) + Count(posted', "WS_PING_OK") + refused'
    BY DEF Unanswered
  <2> QED BY <1>2, <1>4, <1>5, <2>1, <2>2
<1>9. HttpInv' /\ WsInv' /\ EndInv' /\ ShakeInv' /\ OpenInv'
  BY <1>2, <1>7 DEF SessionInv, HttpInv, WsInv, EndInv, ShakeInv, OpenInv
<1>10. AnswerInv' /\ FrameInv'
  BY <1>2, <1>7 DEF SessionInv, AnswerInv, FrameInv
<1> QED BY <1>2, <1>6, <1>8, <1>9, <1>10 DEF SessionInv

\* A step that only takes an event, counts a ping or a pong, or posts another.
SameStream ==
    /\ network_spro' = network_spro /\ type' = type /\ torn' = torn /\ large' = large /\ garbled' = garbled
    /\ stream' = stream /\ frames' = frames /\ link' = link

LEMMA SessionCounts ==
    ASSUME SessionInv, SessionTypeOK', SameStream, BalanceInv', ToSet(posted') \subseteq ToSet(posted) \cup {"WS_PING"}
    PROVE  SessionInv'
<1>1. /\ network_spro' = network_spro /\ type' = type /\ torn' = torn /\ large' = large /\ garbled' = garbled
      /\ stream' = stream /\ frames' = frames /\ link' = link
  BY DEF SameStream
<1>2. (Registering' => Registering) /\ ("DISCONNECTED" \in ToSet(posted') => "DISCONNECTED" \in ToSet(posted))
  BY DEF Registering
<1>3. HttpInv' /\ WsInv' /\ EndInv' /\ ShakeInv' /\ OpenInv'
  BY <1>1, <1>2 DEF SessionInv, HttpInv, WsInv, EndInv, ShakeInv, OpenInv
<1>4. AnswerInv' /\ FrameInv'
  BY <1>1, <1>2 DEF SessionInv, AnswerInv, FrameInv
<1> QED BY <1>1, <1>3, <1>4 DEF SessionInv

\* The connection is gone.
LEMMA SessionGone ==
    ASSUME SessionInv, NEW q \in Seq(PostedEvent), ToSet(q) \subseteq ToSet(posted), Gone(q), UNCHANGED readerVars,
           {beat', reset'} \subseteq BOOLEAN, refused' \in 0..MaxPings, {ping_counter', pong_counter'} \subseteq 0..Width - 1
    PROVE  SessionInv'
<1>1. /\ network_spro' = network_spro /\ type' = type /\ torn' = torn /\ large' = large /\ garbled' = garbled
      /\ link' = "lost" /\ alive' = FALSE /\ stream' = <<>> /\ frames' = <<>> /\ pings' = 0 /\ posted' = q \o <<"DISCONNECTED">>
  BY DEF readerVars, Gone
<1>2. posted' \in Seq(PostedEvent) /\ ToSet(posted') = ToSet(q) \cup {"DISCONNECTED"}
  <2>1. "DISCONNECTED" \in PostedEvent
    BY DEF PostedEvent
  <2> QED BY <1>1, <2>1, AddedEvent
<1>3. Registering' => Registering
  BY <1>2 DEF Registering
<1>4. SessionTypeOK'
  <2>1. 0 \in 0..MaxPings /\ <<>> \in Seq(Frames \cup {Pong, Answer101})
    BY SessionAssumption
  <2> QED BY <1>1, <1>2, <2>1 DEF SessionInv, SessionTypeOK
<1>5. HttpInv' /\ WsInv' /\ EndInv' /\ ShakeInv' /\ OpenInv'
  BY <1>1, <1>3 DEF SessionInv, HttpInv, WsInv, EndInv, ShakeInv, OpenInv
<1>6. AnswerInv' /\ FrameInv' /\ BalanceInv'
  BY <1>1 DEF AnswerInv, FrameInv, BalanceInv, Counting
<1> QED BY <1>1, <1>4, <1>5, <1>6 DEF SessionInv

LEMMA SessionFails == SessionInv /\ (Break \/ GivesUp \/ Monitor) => SessionInv'
<1> SUFFICES ASSUME SessionInv, Break \/ GivesUp \/ Monitor PROVE SessionInv'
  OBVIOUS
<1>1. Gone(posted) /\ UNCHANGED readerVars /\ UNCHANGED beatVars
  BY DEF Break, GivesUp, Monitor
<1>2. /\ beat' = beat /\ ping_counter' = ping_counter /\ pong_counter' = pong_counter /\ refused' = refused /\ reset' = reset
  BY <1>1 DEF beatVars
<1>3. /\ posted \in Seq(PostedEvent) /\ {beat', reset'} \subseteq BOOLEAN /\ refused' \in 0..MaxPings
      /\ {ping_counter', pong_counter'} \subseteq 0..Width - 1
  BY <1>2 DEF SessionInv, SessionTypeOK
<1> QED BY <1>1, <1>3, SessionGone

LEMMA SessionSilence == SessionInv /\ Silence => SessionInv'
<1> SUFFICES ASSUME SessionInv, Silence PROVE SessionInv'
  OBVIOUS
<1>1. /\ SameStream /\ posted' = posted /\ alive' = FALSE /\ pings' = pings
      /\ beat' = beat /\ ping_counter' = ping_counter /\ pong_counter' = pong_counter /\ refused' = refused /\ reset' = reset
  BY DEF Silence, SameStream, readerVars, beatVars
<1>2. SessionTypeOK'
  BY <1>1 DEF SessionInv, SessionTypeOK, SameStream
<1>3. BalanceInv'
  BY <1>1 DEF SessionInv, BalanceInv, Counting, Unanswered, SameStream
<1> QED BY <1>1, <1>2, <1>3, SessionCounts

LEMMA SessionHeartbeatDue == SessionInv /\ HeartbeatDue => SessionInv'
<1> SUFFICES ASSUME SessionInv, HeartbeatDue PROVE SessionInv'
  OBVIOUS
<1>1. /\ SameStream /\ posted' = Append(posted, "WS_PING") /\ alive' = alive /\ pings' = pings
      /\ beat' = beat /\ ping_counter' = ping_counter /\ pong_counter' = pong_counter /\ refused' = refused /\ reset' = reset
  BY DEF HeartbeatDue, SameStream, readerVars, serverVars, beatVars
<1>2. /\ posted' \in Seq(PostedEvent) /\ ToSet(posted') = ToSet(posted) \cup {"WS_PING"}
      /\ Count(posted', "WS_PING_OK") = Count(posted, "WS_PING_OK")
  <2>1. "WS_PING" \in PostedEvent /\ posted \in Seq(PostedEvent) /\ Count(posted, "WS_PING_OK") \in Nat
    BY UnansweredType DEF PostedEvent, SessionInv, SessionTypeOK
  <2>2. /\ posted \o <<"WS_PING">> \in Seq(PostedEvent) /\ Append(posted, "WS_PING") = posted \o <<"WS_PING">>
        /\ ToSet(posted \o <<"WS_PING">>) = ToSet(posted) \cup {"WS_PING"}
        /\ Count(posted \o <<"WS_PING">>, "WS_PING_OK") = Count(posted, "WS_PING_OK") + 0
    BY <2>1, AddedEvent
  <2> DEFINE q == posted \o <<"WS_PING">>
  <2> HIDE DEF q
  <2>3. posted' = q
    BY <1>1, <2>2, Zenon DEF q
  <2>4. /\ q \in Seq(PostedEvent) /\ ToSet(q) = ToSet(posted) \cup {"WS_PING"}
        /\ Count(q, "WS_PING_OK") = Count(posted, "WS_PING_OK") + 0
    BY <2>2, Zenon DEF q
  <2> QED BY <2>1, <2>3, <2>4
<1>3. SessionTypeOK'
  BY <1>1, <1>2 DEF SessionInv, SessionTypeOK, SameStream
<1>4. BalanceInv'
  <2>1. "REGISTER" \in ToSet(posted') => "REGISTER" \in ToSet(posted)
    BY <1>2
  <2>2. Counting' => Counting
    BY <1>1, <2>1 DEF Counting, SameStream
  <2>3. Unanswered' = Unanswered
    BY <1>1, <1>2 DEF Unanswered, SameStream
  <2> QED BY <1>1, <2>2, <2>3 DEF SessionInv, BalanceInv
<1> QED BY <1>1, <1>2, <1>3, <1>4, SessionCounts

LEMMA SessionPingOk == SessionInv /\ PingOk => SessionInv'
<1> SUFFICES ASSUME SessionInv, PingOk PROVE SessionInv'
  OBVIOUS
<1>1. /\ SameStream /\ posted # <<>> /\ Head(posted) = "WS_PING_OK" /\ posted' = Tail(posted) \o <<>> /\ alive' = alive /\ pings' = pings
      /\ beat' = beat /\ ping_counter' = ping_counter /\ pong_counter' = (pong_counter + 1) % Width
      /\ refused' = refused /\ reset' = reset
  BY DEF PingOk, Next1, SameStream, readerVars, serverVars
<1>2. SessionTypeOK
  BY DEF SessionInv
<1>3. /\ posted' \in Seq(PostedEvent) /\ posted' = Tail(posted) /\ ToSet(posted') \subseteq ToSet(posted)
      /\ Count(posted', "WS_PING_OK") = Count(posted, "WS_PING_OK") - 1
  <2>1. posted' = Tail(posted)
    BY <1>1, <1>2, TakenEvent
  <2> QED BY <1>1, <1>2, <2>1, TakenEvent
<1>4. /\ Width \in Nat /\ Width > 1 /\ ping_counter \in 0..Width - 1 /\ pong_counter \in 0..Width - 1
      /\ Unanswered \in Nat /\ pings \in Nat /\ refused \in Nat /\ Count(frames, Pong) \in Nat
      /\ Count(posted, "WS_PING_OK") \in Nat /\ Count(posted', "WS_PING_OK") \in Nat
  <2>1. Count(posted', "WS_PING_OK") \in Nat
    BY <1>3, CountType, Zenon
  <2> QED BY <1>2, <2>1, UnansweredType
<1>5. pong_counter' \in 0..Width - 1
  BY <1>1, <1>4, NextIs
<1>6. SessionTypeOK'
  BY <1>1, <1>2, <1>3, <1>5 DEF SessionTypeOK, SameStream
<1>7. Unanswered' = Unanswered - 1 /\ Unanswered > 0
  BY <1>1, <1>3, <1>4 DEF Unanswered, SameStream
<1>8. BalanceInv'
  <2> SUFFICES ASSUME Counting' PROVE (ping_counter' - pong_counter') % Width = Unanswered'
    BY DEF BalanceInv
  <2>1. Counting
    BY <1>1, <1>3 DEF Counting, SameStream
  <2>2. (ping_counter - pong_counter) % Width = Unanswered
    BY <2>1 DEF SessionInv, BalanceInv
  <2>3. (ping_counter - ((pong_counter + 1) % Width)) % Width = Unanswered - 1
    BY <1>4, <1>7, <2>2, DifferenceMoves
  <2> QED BY <1>1, <1>7, <2>3
<1> QED BY <1>1, <1>3, <1>6, <1>8, SessionCounts

LEMMA SessionDisconnection == SessionInv /\ Disconnection => SessionInv'
<1> SUFFICES ASSUME SessionInv, Disconnection PROVE SessionInv'
  OBVIOUS
<1>1. /\ posted # <<>> /\ Head(posted) = "DISCONNECTED" /\ posted' = Tail(posted) \o <<>> /\ link' = "none"
      /\ network_spro' = network_spro /\ type' = type /\ torn' = torn /\ large' = large /\ garbled' = garbled
      /\ alive' = alive /\ stream' = stream /\ frames' = frames /\ pings' = pings
      /\ HeartbeatSet(FALSE, FALSE)
  BY DEF Disconnection, Next1, readerVars, serverVars
<1>2. SessionTypeOK
  BY DEF SessionInv
<1>3. /\ posted' \in Seq(PostedEvent) /\ ToSet(posted') \subseteq ToSet(posted) /\ "DISCONNECTED" \in ToSet(posted)
  <2>1. posted' = Tail(posted)
    BY <1>1, <1>2, TakenEvent
  <2> QED BY <1>1, <1>2, <2>1, TakenEvent
<1>4. /\ beat' = FALSE /\ reset' = FALSE /\ {ping_counter', pong_counter'} \subseteq 0..Width - 1 /\ refused' \in 0..MaxPings
  BY <1>1, <1>2, HeartbeatBalance
<1>5. SessionTypeOK'
  BY <1>1, <1>2, <1>3, <1>4 DEF SessionTypeOK
<1>6. Registering' => Registering
  BY <1>3 DEF Registering
<1>7. stream = <<>> /\ frames = <<>>
  BY <1>3 DEF SessionInv, EndInv
<1>8. HttpInv' /\ WsInv' /\ EndInv' /\ ShakeInv' /\ OpenInv'
  BY <1>1, <1>6, <1>7 DEF SessionInv, HttpInv, WsInv, EndInv, ShakeInv, OpenInv
<1>9. AnswerInv' /\ FrameInv' /\ BalanceInv'
  BY <1>1 DEF AnswerInv, FrameInv, BalanceInv, Counting
<1> QED BY <1>1, <1>5, <1>8, <1>9 DEF SessionInv

\* One more frame is sent.
LEMMA CutSends ==
    ASSUME NEW r \in Reader, NEW s \in Seq(Unit), NEW fs \in Seq(FrameSet), NEW p, Cut(p, fs, r, s), NEW f \in FrameSet
    PROVE  \E q : Cut(q, Append(fs, f), r, s \o f)
<1> DEFINE gs == Append(fs, f)
           t == s \o f
           q == [i \in 0..Len(fs) + 1 |-> IF i <= Len(fs) THEN p[i] ELSE r.index + Len(s) + Len(f)]
<1>1. PICK l, i0, e, m \in Nat : l = Len(fs) /\ i0 = r.index /\ e = Len(s) /\ m = Len(f)
  BY FrameType, ReaderAssumption DEF Reader
<1>2. /\ gs \in Seq(FrameSet) /\ Len(gs) = l + 1 /\ gs[l + 1] = f /\ \A i \in 1..l : gs[i] = fs[i]
      /\ Len(t) = e + m /\ (\A i \in 1..e : t[i] = s[i]) /\ \A i \in 1..m : t[e + i] = f[i]
  <2>1. f \in Seq(Unit)
    BY FrameType
  <2> QED BY <1>1, <2>1
<1> HIDE DEF gs, t
<1>3. /\ p \in [0..l -> Nat] /\ p[0] = 0 /\ p[l] = i0 + e
      /\ \A i \in 1..l : p[i] = p[i - 1] + Len(fs[i]) /\ \A k \in 1..Len(fs[i]) : At(r, s, p[i - 1] + k) = fs[i][k]
      /\ \A i, j \in 0..l : i <= j => p[i] <= p[j]
  BY <1>1 DEF Cut
<1>4. /\ q \in [0..l + 1 -> Nat] /\ (\A i \in 0..l : q[i] = p[i]) /\ q[l + 1] = i0 + e + m /\ q[0] = 0
  BY <1>1, <1>3
<1> HIDE DEF q
<1>5. \A i \in 1..i0 + e : At(r, t, i) = At(r, s, i)
  <2> SUFFICES ASSUME NEW i \in 1..i0 + e PROVE At(r, t, i) = At(r, s, i)
    OBVIOUS
  <2>1. ~(i <= i0) => i - i0 \in 1..e
    BY <1>1
  <2> QED BY <1>1, <1>2, <2>1 DEF At
<1>6. \A k \in 1..m : At(r, t, (i0 + e) + k) = f[k]
  <2> SUFFICES ASSUME NEW k \in 1..m PROVE At(r, t, (i0 + e) + k) = f[k]
    OBVIOUS
  <2>1. ~((i0 + e) + k <= i0) /\ ((i0 + e) + k) - i0 = e + k
    BY ONLY i0 \in Nat, e \in Nat, m \in Nat, k \in 1..m
  <2>2. At(r, t, (i0 + e) + k) = t[((i0 + e) + k) - i0]
    BY <1>1, <2>1, Zenon DEF At
  <2> QED BY <1>2, <2>1, <2>2
<1>7. ASSUME NEW i \in 1..Len(gs)
      PROVE  q[i] = q[i - 1] + Len(gs[i]) /\ \A k \in 1..Len(gs[i]) : At(r, t, q[i - 1] + k) = gs[i][k]
  <2>1. CASE i \in 1..l
    <3>1. i - 1 \in 0..l /\ i \in 0..l /\ l \in 0..l /\ i - 1 <= i /\ i <= l
      BY <1>1, <2>1
    <3>2. q[i] = p[i] /\ q[i - 1] = p[i - 1] /\ gs[i] = fs[i] /\ p[i] <= p[l] /\ p[i - 1] \in Nat /\ p[i] \in Nat
      BY <1>2, <1>3, <1>4, <2>1, <3>1
    <3>3. fs[i] \in FrameSet
      BY <1>1, <2>1
    <3>4. Len(fs[i]) \in Nat
      BY <3>3, FrameType
    <3>5. p[i] = p[i - 1] + Len(fs[i])
      BY <1>3, <2>1
    <3>6. ASSUME NEW k \in 1..Len(fs[i]) PROVE At(r, t, p[i - 1] + k) = fs[i][k]
      <4>1. p[i - 1] + k \in 1..i0 + e
        <5>1. PICK x, y, g \in Nat : x = p[i - 1] /\ y = p[i] /\ g = Len(fs[i])
          BY <3>2, <3>4
        <5>2. k \in 1..g /\ y = x + g /\ y <= i0 + e
          BY <1>3, <3>2, <3>5, <5>1
        <5>3. x + k \in 1..i0 + e
          BY ONLY <5>2, x \in Nat, y \in Nat, g \in Nat, i0 \in Nat, e \in Nat
        <5> QED BY <5>1, <5>3
      <4> QED BY <1>3, <1>5, <2>1, <4>1
    <3> QED BY <3>2, <3>5, <3>6
  <2>2. CASE i = l + 1
    <3>1. i - 1 = l /\ l \in 0..l
      BY <1>1, <2>2
    <3>2. q[i - 1] = i0 + e /\ gs[i] = f /\ q[i] = i0 + e + m
      BY <1>2, <1>3, <1>4, <2>2, <3>1
    <3> QED BY <1>1, <1>6, <3>2
  <2> QED BY <1>1, <1>2, <2>1, <2>2
<1>8. ASSUME NEW i \in 0..l + 1, NEW j \in 0..l + 1, i <= j PROVE q[i] <= q[j]
  <2>1. CASE j \in 0..l
    <3>1. i \in 0..l
      BY <1>1, <1>8, <2>1
    <3> QED BY <1>3, <1>4, <1>8, <2>1, <3>1
  <2>2. CASE j = l + 1 /\ i \in 0..l
    <3>1. q[i] <= p[l] /\ p[l] = i0 + e /\ q[i] \in Nat
      <4>1. l \in 0..l /\ i <= l /\ i \in 0..l + 1
        BY <2>2
      <4> QED BY <1>3, <1>4, <2>2, <4>1
    <3> QED BY <1>1, <1>4, <2>2, <3>1
  <2>3. CASE j = l + 1 /\ i = l + 1
    BY <1>1, <1>4, <2>3
  <2> QED BY <1>1, <1>8, <2>1, <2>2, <2>3
<1>9. Len(gs) = l + 1 /\ q[Len(gs)] = r.index + Len(t)
  <2>1. r.index + Len(t) = (i0 + e) + m
    BY <1>1, <1>2
  <2> QED BY <1>2, <1>4, <2>1
<1>10. Cut(q, gs, r, t)
  BY <1>4, <1>7, <1>8, <1>9 DEF Cut
<1> QED BY <1>10 DEF gs, t

\* Frames have no field and no end of a head.
LEMMA FrameUnits == ASSUME NEW f \in FrameSet PROVE \A k \in 1..Len(f) : f[k] \notin Lengths \cup {EndOfHead}
<1>1. CASE f \in Frames
  <2>1. f \in Seq(Unit) /\ ToSet(f) \cap ({EndOfHead} \cup Lengths) = {}
    BY <1>1, SessionAssumption DEF TextFrame
  <2>2. \A k \in 1..Len(f) : f[k] \in ToSet(f)
    BY <2>1, SetOf
  <2> QED BY <2>1, <2>2
<1>2. CASE f = Pong
  <2>1. Len(f) = 2 /\ f[1] = "8a" /\ f[2] = "00"
    BY <1>2 DEF Pong, Nul
  <2> QED BY <2>1 DEF Lengths, EndOfHead
<1> QED BY <1>1, <1>2 DEF FrameSet

\* The server sends a frame behind the others.
LEMMA SessionSends ==
    ASSUME SessionInv, NEW f \in FrameSet, Sends(f), UNCHANGED <<readerVars, beatVars, alive, link, posted>>,
           pings' \in 0..MaxPings, pings' + (IF f = Pong THEN 1 ELSE 0) = pings
    PROVE  SessionInv'
<1>1. /\ link = "open" /\ stream' = stream \o f /\ frames' = Append(frames, f)
      /\ network_spro' = network_spro /\ type' = type /\ torn' = torn /\ large' = large /\ garbled' = garbled
      /\ link' = link /\ alive' = alive /\ posted' = posted /\ beat' = beat /\ reset' = reset /\ refused' = refused
      /\ ping_counter' = ping_counter /\ pong_counter' = pong_counter
  BY DEF Sends, readerVars, beatVars
<1>2. SessionTypeOK /\ stream \in Seq(Unit) /\ f \in Seq(Unit) /\ Len(f) \in Nat /\ Calm(network_spro) /\ ~garbled
  BY FrameType DEF SessionInv
<1>3. /\ stream' \in Seq(Unit) /\ Len(stream') = Len(stream) + Len(f) /\ Len(stream) \in Nat
      /\ (\A i \in 1..Len(stream) : stream'[i] = stream[i]) /\ \A i \in 1..Len(f) : stream'[Len(stream) + i] = f[i]
  BY <1>1, <1>2
<1>4. frames' \in Seq(Frames \cup {Pong, Answer101}) /\ Count(frames', Pong) = Count(frames, Pong) + (IF f = Pong THEN 1 ELSE 0)
  <2>1. frames \in Seq(Frames \cup {Pong, Answer101}) /\ f \in Frames \cup {Pong, Answer101}
    BY <1>2 DEF SessionTypeOK, FrameSet
  <2>2. Count(Append(frames, f), Pong) = Count(frames, Pong) + (IF f = Pong THEN 1 ELSE 0)
    BY ONLY <2>1, CountAppend
  <2> QED BY <1>1, <2>1, <2>2
<1>5. SessionTypeOK'
  BY <1>1, <1>2, <1>4 DEF SessionTypeOK
<1>6. \A i \in 1..Len(stream') : \/ i \in 1..Len(stream) /\ stream'[i] = stream[i]
                                 \/ i > Len(stream) /\ stream'[i] \notin Lengths \cup {EndOfHead}
  <2> SUFFICES ASSUME NEW i \in 1..Len(stream'), i > Len(stream) PROVE stream'[i] \notin Lengths \cup {EndOfHead}
    BY <1>2, <1>3
  <2>1. i - Len(stream) \in 1..Len(f) /\ Len(stream) + (i - Len(stream)) = i
    BY <1>2, <1>3
  <2>2. f[i - Len(stream)] \notin Lengths \cup {EndOfHead} /\ stream'[i] = f[i - Len(stream)]
    BY <1>3, <2>1, FrameUnits
  <2> QED BY <2>2
<1>7. type = "WS" /\ AnswerFirst(network_spro, stream)
  BY <1>1 DEF SessionInv, OpenInv
<1>8. AnswerFirst(network_spro, stream')
  <2>1. \A i \in 1..Len(stream') : stream'[i] \notin Lengths /\ (stream'[i] = EndOfHead => i \in 1..Len(stream) /\ stream[i] = EndOfHead /\ i <= 2)
    BY <1>6, <1>7 DEF AnswerFirst
  <2>2. Len(stream') > 1 /\ stream'[2] = EndOfHead => stream'[1] = "101" /\ network_spro.index = 0
    <3> SUFFICES ASSUME Len(stream') > 1, stream'[2] = EndOfHead PROVE stream'[1] = "101" /\ network_spro.index = 0
      OBVIOUS
    <3>1. 2 \in 1..Len(stream')
      BY <1>2, <1>3
    <3>2. 2 \in 1..Len(stream) /\ stream[2] = EndOfHead /\ 1 \in 1..Len(stream) /\ Len(stream) > 1
      BY <1>3, <2>1, <3>1
    <3> QED BY <1>3, <1>7, <3>2 DEF AnswerFirst
  <2>3. Len(stream') > 0 /\ stream'[1] = EndOfHead => network_spro.index = 0 \/ network_spro.cell[1] = "101"
    <3> SUFFICES ASSUME Len(stream') > 0, stream'[1] = EndOfHead PROVE network_spro.index = 0 \/ network_spro.cell[1] = "101"
      OBVIOUS
    <3>1. 1 \in 1..Len(stream')
      BY <1>2, <1>3
    <3>2. stream[1] = EndOfHead /\ Len(stream) > 0
      BY <1>3, <2>1, <3>1
    <3> QED BY <1>7, <3>2 DEF AnswerFirst
  <2> QED BY <2>1, <2>2, <2>3 DEF AnswerFirst
<1>9. FrameInv'
  <2> SUFFICES ASSUME ~torn PROVE /\ frames' \in Seq(FrameSet) /\ \A i \in 1..Len(stream') : stream'[i] # EndOfHead
                                  /\ \E p : Cut(p, frames', network_spro', stream')
    BY <1>1 DEF FrameInv
  <2>1. frames \in Seq(FrameSet) /\ \A i \in 1..Len(stream) : stream[i] # EndOfHead
    BY <1>1 DEF SessionInv, FrameInv
  <2>2. PICK p : Cut(p, frames, network_spro, stream)
    BY <1>1 DEF SessionInv, FrameInv
  <2>3. network_spro \in Reader
    BY <1>2 DEF Calm
  <2>4. \E q : Cut(q, Append(frames, f), network_spro, stream \o f)
    BY <1>2, <2>1, <2>2, <2>3, CutSends
  <2>5. frames' \in Seq(FrameSet)
    BY <1>1, <2>1
  <2> QED BY <1>1, <1>6, <2>1, <2>4, <2>5
<1>10. BalanceInv'
  <2> SUFFICES ASSUME Counting' PROVE (ping_counter' - pong_counter') % Width = Unanswered'
    BY DEF BalanceInv
  <2>1. Counting
    BY <1>1 DEF Counting
  <2>2. (ping_counter - pong_counter) % Width = Unanswered
    BY <2>1 DEF SessionInv, BalanceInv
  <2>3. Unanswered' = Unanswered
    <3>1. /\ pings \in Nat /\ refused \in Nat /\ Count(frames, Pong) \in Nat /\ Count(posted, "WS_PING_OK") \in Nat /\ pings' \in Nat
      BY <1>2, UnansweredType
    <3>2. Unanswered' = pings' + Count(frames', Pong) + Count(posted', "WS_PING_OK") + refused'
      BY DEF Unanswered
    <3>3. refused' = refused /\ posted' = posted /\ Count(posted', "WS_PING_OK") = Count(posted, "WS_PING_OK")
      BY <1>1
    <3>4. PICK x, y, a, b, c, d \in Int : /\ x = pings /\ y = pings' /\ a = Count(frames, Pong) /\ b = Count(frames', Pong)
                                         /\ c = Count(posted, "WS_PING_OK") /\ d = refused
      <4>1. Count(frames', Pong) \in Nat
        BY <1>4, CountType, Zenon
      <4> QED BY <3>1, <4>1
    <3>5. PICK z \in Int : z = (IF f = Pong THEN 1 ELSE 0)
      OBVIOUS
    <3>6. b = a + z /\ y + z = x
      <4>1. pings' + z = pings
        BY <3>5, Zenon
      <4> QED BY <1>4, <3>4, <3>5, <4>1
    <3>7. Unanswered = ((x + a) + c) + d /\ Unanswered' = ((y + b) + c) + d
      BY <3>2, <3>3, <3>4, Zenon DEF Unanswered
    <3>8. ((x + a) + c) + d = ((y + b) + c) + d
      BY ONLY <3>6, x \in Int, y \in Int, a \in Int, b \in Int, c \in Int, d \in Int, z \in Int
    <3> QED BY <3>7, <3>8, Zenon
  <2> QED BY <1>1, <2>2, <2>3
<1>11. HttpInv' /\ WsInv' /\ EndInv' /\ ShakeInv' /\ OpenInv' /\ AnswerInv'
  BY <1>1, <1>7, <1>8 DEF SessionInv, HttpInv, WsInv, EndInv, ShakeInv, OpenInv, AnswerInv, Registering
<1> QED BY <1>1, <1>2, <1>3, <1>5, <1>9, <1>10, <1>11 DEF SessionInv

LEMMA SessionServer == SessionInv /\ (ServerSends \/ ServerAnswers) => SessionInv'
<1> SUFFICES ASSUME SessionInv, ServerSends \/ ServerAnswers PROVE SessionInv'
  OBVIOUS
<1>1. pings \in 0..MaxPings /\ MaxPings \in Nat
  BY SessionAssumption DEF SessionInv, SessionTypeOK
<1>2. CASE ServerSends
  <2>1. PICK f \in Frames : Sends(f)
    BY <1>2 DEF ServerSends
  <2>2. UNCHANGED <<readerVars, beatVars, alive, link, posted>> /\ pings' = pings
    BY <1>2 DEF ServerSends
  <2>3. f # Pong /\ f \in FrameSet
    <3>1. f[1] = "81"
      BY SessionAssumption DEF TextFrame
    <3> QED BY <3>1 DEF Pong, FrameSet
  <2> QED BY <1>1, <2>1, <2>2, <2>3, SessionSends
<1>3. CASE ServerAnswers
  <2>1. Sends(Pong) /\ pings > 0 /\ pings' = pings - 1 /\ UNCHANGED <<readerVars, beatVars, alive, link, posted>>
    BY <1>3 DEF ServerAnswers
  <2>2. Pong \in FrameSet
    BY DEF FrameSet
  <2>3. pings' \in 0..MaxPings /\ pings' + 1 = pings
    BY <1>1, <2>1
  <2> QED BY <2>1, <2>2, <2>3, SessionSends
<1> QED BY <1>2, <1>3

\* The answer was handed over: the reader turns to frames, whatever it still holds.
LEMMA SessionTypeIsWs == SessionInv /\ TypeIsWs => SessionInv'
<1> SUFFICES ASSUME SessionInv, TypeIsWs PROVE SessionInv'
  OBVIOUS
<1>1. /\ posted # <<>> /\ Head(posted) = "REGISTER" /\ posted' = Tail(posted) \o <<>> /\ type' = "WS"
      /\ link' = (IF link = "handshake" THEN "open" ELSE link)
      /\ network_spro' = network_spro /\ torn' = torn /\ large' = large /\ garbled' = garbled
      /\ alive' = alive /\ stream' = stream /\ frames' = frames /\ pings' = pings
      /\ beat' = beat /\ ping_counter' = ping_counter /\ pong_counter' = pong_counter /\ refused' = refused /\ reset' = reset
  BY DEF TypeIsWs, Next1, serverVars, beatVars
<1>2. SessionTypeOK /\ Calm(network_spro)
  BY DEF SessionInv
<1>3. /\ posted' \in Seq(PostedEvent) /\ ToSet(posted') \subseteq ToSet(posted) /\ "REGISTER" \in ToSet(posted)
      /\ Count(posted', "WS_PING_OK") = Count(posted, "WS_PING_OK")
  <2>1. posted' = Tail(posted)
    BY <1>1, <1>2, TakenEvent
  <2> QED BY <1>1, <1>2, <2>1, TakenEvent, UnansweredType
<1>4. Registering
  BY <1>3 DEF Registering
<1>5. SessionTypeOK'
  BY <1>1, <1>2, <1>3 DEF SessionTypeOK
<1>6. NoEnd(network_spro) /\ NoneWhole(network_spro)
      /\ (type = "HTTP" => network_spro.index = 0 \/ (network_spro.index = 1 /\ network_spro.cell[1] = "101"))
  <2>1. CASE type = "WS"
    BY <2>1 DEF SessionInv, WsInv
  <2>2. CASE type = "HTTP"
    <3>1. network_spro.index = 0 \/ Only101(network_spro)
      BY <1>4, <2>2 DEF SessionInv, HttpInv
    <3>2. network_spro \in Reader
      BY <1>2 DEF Calm
    <3>3. CASE network_spro.index = 0
      BY <1>2, <3>3, BlankIs DEF Calm, NoEnd, NoneWhole
    <3>4. CASE Only101(network_spro)
      <4>1. WsLength(network_spro) = -1
        BY <3>2, <3>4, Only101Is
      <4> QED BY <3>4, <4>1, Only101Is DEF NoneWhole
    <3> QED BY <3>1, <3>3, <3>4
  <2> QED BY <1>2, <2>1, <2>2 DEF SessionTypeOK
<1>7. HttpInv' /\ WsInv'
  BY <1>1, <1>6 DEF HttpInv, WsInv
<1>8. EndInv' /\ ShakeInv' /\ AnswerInv'
  BY <1>1, <1>3 DEF SessionInv, EndInv, ShakeInv, AnswerInv
<1>9. OpenInv'
  <2>1. CASE link = "open"
    BY <1>1, <2>1 DEF SessionInv, OpenInv
  <2>2. CASE link = "handshake"
    <3>1. /\ type = "HTTP" /\ stream \in {Answer101, <<EndOfHead>>, <<>>}
          /\ network_spro.index = 1 => stream = <<EndOfHead>>
      BY <1>4, <2>2 DEF SessionInv, ShakeInv
    <3>2. Answer101 # <<EndOfHead>>
      BY DEF Answer101
    <3>3. CASE stream = Answer101
      <4>1. Len(stream) = 2 /\ stream[1] = "101" /\ stream[2] = "end" /\ network_spro.index = 0
        BY <1>6, <3>1, <3>2, <3>3 DEF Answer101, EndOfHead
      <4>2. AnswerFirst(network_spro, stream)
        BY <4>1 DEF AnswerFirst, EndOfHead, Lengths
      <4> QED BY <1>1, <4>2 DEF OpenInv
    <3>4. CASE stream = <<EndOfHead>>
      <4>1. Len(stream) = 1 /\ stream[1] = "end"
        BY <3>4 DEF EndOfHead
      <4>2. AnswerFirst(network_spro, stream)
        BY <1>6, <3>1, <4>1 DEF AnswerFirst, EndOfHead, Lengths
      <4> QED BY <1>1, <4>2 DEF OpenInv
    <3>5. CASE stream = <<>>
      <4>1. AnswerFirst(network_spro, stream)
        BY <3>5 DEF AnswerFirst
      <4> QED BY <1>1, <4>1 DEF OpenInv
    <3> QED BY <3>1, <3>3, <3>4, <3>5
  <2>3. CASE link \notin {"open", "handshake"}
    BY <1>1, <2>3 DEF OpenInv
  <2> QED BY <2>1, <2>2, <2>3
<1>10. FrameInv'
  <2>1. CASE link = "open"
    BY <1>1, <2>1 DEF SessionInv, FrameInv
  <2>2. CASE link = "handshake"
    <3> SUFFICES ASSUME ~torn PROVE /\ frames \in Seq(FrameSet) /\ (\A i \in 1..Len(stream) : stream[i] # EndOfHead)
                                    /\ \E p : Cut(p, frames, network_spro, stream)
      BY <1>1 DEF FrameInv
    <3>1. frames = <<>> /\ stream = <<>> /\ network_spro.index = 0
      BY <1>4, <2>2 DEF SessionInv, AnswerInv
    <3> DEFINE p == [i \in 0..0 |-> 0]
    <3>2. p \in [0..0 -> Nat] /\ p[0] = 0 /\ \A i, j \in 0..0 : p[i] <= p[j]
      OBVIOUS
    <3> HIDE DEF p
    <3>3. Cut(p, frames, network_spro, stream)
      <4>1. Len(frames) = 0 /\ Len(stream) = 0 /\ 1..0 = {} /\ network_spro.index + Len(stream) = 0
        BY <3>1
      <4> QED BY <3>2, <4>1 DEF Cut
    <3> QED BY <3>1, <3>3
  <2>3. CASE link \notin {"open", "handshake"}
    BY <1>1, <2>3 DEF FrameInv
  <2> QED BY <2>1, <2>2, <2>3
<1>11. BalanceInv'
  <2>1. Counting' => Counting
    BY <1>1, <1>3 DEF Counting
  <2>2. Unanswered' = Unanswered
    BY <1>1, <1>3 DEF Unanswered
  <2> QED BY <1>1, <2>1, <2>2 DEF SessionInv, BalanceInv
<1> QED BY <1>1, <1>2, <1>5, <1>7, <1>8, <1>9, <1>10, <1>11 DEF SessionInv

LEMMA SessionPing == SessionInv /\ Ping => SessionInv'
<1> SUFFICES ASSUME SessionInv, Ping PROVE SessionInv'
  OBVIOUS
<1>1. posted # <<>> /\ Head(posted) = "WS_PING" /\ UNCHANGED readerVars /\ SessionTypeOK
  BY DEF Ping, SessionInv
<1>2. /\ Tail(posted) \in Seq(PostedEvent) /\ ToSet(Tail(posted)) \subseteq ToSet(posted)
      /\ Count(Tail(posted), "WS_PING_OK") = Count(posted, "WS_PING_OK")
  BY <1>1, TakenEvent, UnansweredType
<1>3. /\ Width \in Nat /\ Width > 2 /\ MaxPings \in Nat /\ MaxPings > 1 /\ pings \in Nat /\ refused \in Nat
      /\ Count(frames, Pong) \in Nat /\ Count(posted, "WS_PING_OK") \in Nat
      /\ ping_counter \in 0..Width - 1 /\ pong_counter \in 0..Width - 1
  BY <1>1, UnansweredType
<1>4. CASE Overdue
  <2>1. /\ beat' = FALSE /\ ping_counter' = 1 /\ pong_counter' = 0 /\ refused' = 0 /\ reset' = FALSE
        /\ \/ Gone(Tail(posted))
           \/ posted' = Tail(posted) /\ UNCHANGED <<serverVars, link>>
    BY <1>4 DEF Ping
  <2>2. {beat', reset'} \subseteq BOOLEAN /\ refused' \in 0..MaxPings /\ {ping_counter', pong_counter'} \subseteq 0..Width - 1
    <3>1. 1 \in 0..Width - 1 /\ 0 \in 0..Width - 1 /\ 0 \in 0..MaxPings
      BY <1>3
    <3> QED BY <2>1, <3>1
  <2>3. CASE Gone(Tail(posted))
    BY <1>1, <1>2, <2>2, <2>3, SessionGone
  <2>4. CASE posted' = Tail(posted) /\ UNCHANGED <<serverVars, link>>
    <3>1. SameStream /\ alive' = alive /\ pings' = pings
      BY <1>1, <2>4 DEF SameStream, readerVars, serverVars
    <3>2. SessionTypeOK'
      BY <1>1, <1>2, <2>1, <2>2, <2>4, <3>1 DEF SessionTypeOK, SameStream
    <3>3. BalanceInv'
      BY <2>1 DEF BalanceInv, Counting
    <3> QED BY <1>2, <2>4, <3>1, <3>2, <3>3, SessionCounts
  <2> QED BY <2>1, <2>3, <2>4
<1>5. CASE ~Overdue
  <2>1. PICK sent \in BOOLEAN : /\ CountPing(sent)
                                /\ pings' = IF sent /\ link \in {"handshake", "open"} THEN Capped(pings) ELSE pings
    BY <1>5 DEF Ping
  <2>2. posted' = Tail(posted) /\ UNCHANGED <<beat, pong_counter, reset, link, alive, stream, frames>>
    BY <1>5 DEF Ping
  <2>3. SameStream
    BY <1>1, <2>2 DEF SameStream, readerVars
  <2>4. ping_counter' = (ping_counter + 1) % Width /\ refused' = (IF sent THEN refused ELSE Capped(refused))
    BY <2>1 DEF CountPing
  <2>5. ping_counter' \in 0..Width - 1
    BY <1>3, <2>4, NextIs
  <2>6. \A n \in 0..MaxPings : Capped(n) \in 0..MaxPings
    BY <1>3 DEF Capped
  <2>7. pings' \in 0..MaxPings /\ refused' \in 0..MaxPings
    BY <1>1, <2>1, <2>4, <2>6 DEF SessionTypeOK
  <2>8. SessionTypeOK'
    BY <1>1, <1>2, <2>2, <2>3, <2>5, <2>7 DEF SessionTypeOK, SameStream
  <2>9. BalanceInv'
    <3> SUFFICES ASSUME Counting' PROVE (ping_counter' - pong_counter') % Width = Unanswered'
      BY DEF BalanceInv
    <3>1. Counting
      BY <1>2, <2>2, <2>3 DEF Counting, SameStream
    <3>2. link \in {"handshake", "open"}
      BY <3>1 DEF Counting
    <3>3. (ping_counter - pong_counter) % Width = Unanswered /\ Unanswered \in Nat /\ Unanswered < 2
      <4>1. (ping_counter - pong_counter) % Width = Unanswered
        BY <3>1 DEF SessionInv, BalanceInv
      <4>2. Unanswered \in Nat
        BY <1>1, UnansweredType
      <4> QED BY <1>5, <4>1, <4>2 DEF Overdue, Limit
    <3>4. PICK x, y, a, c, u \in Nat : x = pings /\ y = refused /\ a = Count(frames, Pong) /\ c = Count(posted, "WS_PING_OK") /\ u = Unanswered
      BY <1>3, <3>3
    <3>5. u = ((x + a) + c) + y /\ u < 2
      BY <3>3, <3>4 DEF Unanswered
    <3>6. Capped(pings) = x + 1 /\ Capped(refused) = y + 1
      BY <1>3, <3>4, <3>5 DEF Capped
    <3>7. \/ pings' = x + 1 /\ refused' = y
          \/ pings' = x /\ refused' = y + 1
      BY <2>1, <2>4, <3>2, <3>4, <3>6
    <3>8. Unanswered' = ((pings' + a) + c) + refused'
      <4>1. Count(frames', Pong) = a /\ Count(posted', "WS_PING_OK") = c
        BY <1>2, <2>2, <3>4
      <4>2. Unanswered' = pings' + Count(frames', Pong) + Count(posted', "WS_PING_OK") + refused'
        BY DEF Unanswered
      <4> QED BY <4>1, <4>2, Zenon
    <3>9. Unanswered' = u + 1
      BY <3>5, <3>7, <3>8
    <3>10. (((ping_counter + 1) % Width) - pong_counter) % Width = u + 1
      <4>1. u + 1 < Width /\ Width > 1 /\ (ping_counter - pong_counter) % Width = u
        BY <1>3, <3>3, <3>4
      <4> QED BY <1>3, <4>1, DifferenceMoves
    <3> QED BY <2>2, <2>4, <3>9, <3>10
  <2> QED BY <1>2, <2>2, <2>3, <2>8, <2>9, SessionCounts
<1> QED BY <1>4, <1>5

\* The callbacks leave the counters in balance: they post what they took out of
\* the stream, and a setting of the heartbeat clears all or says that it did not.
LEMMA HandsBalance ==
    ASSUME SessionTypeOK, NEW res, res.calls \in Seq(CallBack), HandOver(res), pings' = pings,
           frames' \in Seq(Frames \cup {Pong, Answer101}),
           Count(PostsOf(res.calls), "WS_PING_OK") + Count(frames', Pong) = Count(frames, Pong),
           beat /\ ~reset => (ping_counter - pong_counter) % Width = Unanswered,
           beat', ~reset'
    PROVE  (ping_counter' - pong_counter') % Width = Unanswered'
<1>1. posted' = posted \o PostsOf(res.calls)
  BY DEF HandOver, PostsOf
<1>2. PostsOf(res.calls) \in Seq(PostedEvent) /\ posted \in Seq(PostedEvent)
  <2>1. PostsOf(res.calls) \in Seq(PostedByCall)
    BY PostsOfType
  <2>2. PostedByCall \subseteq PostedEvent
    BY DEF PostedByCall, PostedEvent
  <2> QED BY <2>1, <2>2 DEF SessionTypeOK
<1>3. Count(posted', "WS_PING_OK") = Count(posted, "WS_PING_OK") + Count(PostsOf(res.calls), "WS_PING_OK")
  BY <1>1, <1>2, CountBoth
<1>4. PICK x, y, a, b, c, d, e \in Nat : /\ x = pings /\ y = refused /\ a = Count(frames, Pong) /\ b = Count(frames', Pong)
                                         /\ c = Count(posted, "WS_PING_OK") /\ d = Count(posted', "WS_PING_OK")
                                         /\ e = Count(PostsOf(res.calls), "WS_PING_OK")
  <2>1. Count(frames', Pong) \in Nat
    BY CountType, Zenon
  <2>2. Count(PostsOf(res.calls), "WS_PING_OK") \in Nat
    BY <1>2, CountType
  <2>3. pings \in Nat /\ refused \in Nat /\ Count(frames, Pong) \in Nat /\ Count(posted, "WS_PING_OK") \in Nat
    BY UnansweredType
  <2>4. Count(posted', "WS_PING_OK") \in Nat
    BY <1>3, <2>2, <2>3
  <2> QED BY <2>1, <2>2, <2>3, <2>4, Zenon
<1>5. e + b = a /\ d = c + e
  BY <1>3, <1>4, Zenon
<1>6. Unanswered = ((x + a) + c) + y /\ Unanswered' = ((x + b) + d) + refused'
  <2>1. Unanswered' = pings' + Count(frames', Pong) + Count(posted', "WS_PING_OK") + refused'
    BY DEF Unanswered
  <2> QED BY <1>4, <2>1, Zenon DEF Unanswered
<1>7. ((x + b) + d) + y = ((x + a) + c) + y
  BY ONLY <1>5, x \in Nat, y \in Nat, a \in Nat, b \in Nat, c \in Nat, d \in Nat, e \in Nat
<1>8. CASE UNCHANGED beatVars
  <2>1. /\ beat' = beat /\ ping_counter' = ping_counter /\ pong_counter' = pong_counter /\ refused' = refused /\ reset' = reset
    BY <1>8 DEF beatVars
  <2>2. (ping_counter - pong_counter) % Width = Unanswered
    BY <2>1
  <2>3. Unanswered' = Unanswered
    BY <1>4, <1>6, <1>7, <2>1, Zenon
  <2> QED BY <2>1, <2>2, <2>3
<1>9. ASSUME NEW hb \in BOOLEAN, HeartbeatSet(hb, reset \/ Unanswered > 0)
      PROVE  (ping_counter' - pong_counter') % Width = Unanswered'
  <2>1. reset' = (reset \/ Unanswered > 0) /\ refused' = 0 /\ (ping_counter' - pong_counter') % Width = 0
    BY <1>9, HeartbeatBalance
  <2>2. ~(Unanswered > 0)
    BY <2>1, Zenon
  <2>3. x = 0 /\ a = 0 /\ c = 0 /\ y = 0
    BY <1>6, <2>2
  <2>4. ((x + b) + d) + 0 = 0
    BY ONLY <1>5, <2>3, x \in Nat, y \in Nat, a \in Nat, b \in Nat, c \in Nat, d \in Nat, e \in Nat
  <2> QED BY <1>6, <2>1, <2>4, Zenon
<1> QED BY <1>8, <1>9 DEF HandOver

\* The types after the callbacks.
LEMMA HandsType ==
    ASSUME SessionTypeOK, NEW res, res.r \in Reader, res.calls \in Seq(CallBack), HandOver(res),
           type' = type, link' = link, alive' = alive, pings' = pings, {torn', large', garbled'} \subseteq BOOLEAN,
           frames' \in Seq(Frames \cup {Pong, Answer101})
    PROVE  /\ SessionTypeOK' /\ network_spro' = res.r
           /\ posted' = posted \o PostsOf(res.calls) /\ ToSet(posted') \subseteq ToSet(posted) \cup PostedByCall
<1>1. network_spro' = res.r /\ posted' = posted \o PostsOf(res.calls)
  BY DEF HandOver, PostsOf
<1>2. PostsOf(res.calls) \in Seq(PostedByCall) /\ PostedByCall \subseteq PostedEvent
  BY PostsOfType DEF PostedByCall, PostedEvent
<1>3. PostsOf(res.calls) \in Seq(PostedEvent) /\ posted \in Seq(PostedEvent)
  BY <1>2 DEF SessionTypeOK
<1>4. posted' \in Seq(PostedEvent) /\ ToSet(posted') = ToSet(posted) \cup ToSet(PostsOf(res.calls))
  BY <1>1, <1>3, QueueBoth
<1>5. ToSet(PostsOf(res.calls)) \subseteq PostedByCall
  <2>1. \A i \in 1..Len(PostsOf(res.calls)) : PostsOf(res.calls)[i] \in PostedByCall
    BY <1>2
  <2>2. ToSet(PostsOf(res.calls)) = {PostsOf(res.calls)[j] : j \in 1..Len(PostsOf(res.calls))}
    BY <1>2, SetOf
  <2> QED BY <2>1, <2>2
<1>6. {beat', reset'} \subseteq BOOLEAN /\ refused' \in 0..MaxPings /\ {ping_counter', pong_counter'} \subseteq 0..Width - 1
  <2>1. CASE UNCHANGED beatVars
    BY <2>1 DEF beatVars, SessionTypeOK
  <2>2. ASSUME NEW hb \in BOOLEAN, HeartbeatSet(hb, reset \/ Unanswered > 0)
        PROVE  {beat', reset'} \subseteq BOOLEAN /\ refused' \in 0..MaxPings /\ {ping_counter', pong_counter'} \subseteq 0..Width - 1
    <3>1. /\ beat' = hb /\ reset' = (reset \/ Unanswered > 0) /\ refused' \in 0..MaxPings
          /\ {ping_counter', pong_counter'} \subseteq 0..Width - 1
      BY <2>2, HeartbeatBalance
    <3>2. (reset \/ Unanswered > 0) \in BOOLEAN
      OBVIOUS
    <3>3. reset' \in BOOLEAN /\ beat' \in BOOLEAN
      BY ONLY <3>1, <3>2, hb \in BOOLEAN, Zenon
    <3> QED BY <3>1, <3>3
  <2> QED BY <2>1, <2>2 DEF HandOver
<1>7. network_spro'.index \in 0..Size /\ Len(network_spro'.cell) = Size
      /\ {network_spro'.opened, network_spro'.armed, network_spro'.wild} \subseteq BOOLEAN
  BY <1>1, ReaderFits
<1>8. SessionTypeOK'
  BY <1>4, <1>6, <1>7 DEF SessionTypeOK
<1> QED BY <1>1, <1>4, <1>5, <1>8

LEMMA PostsOfFew == PostsOf(<<>>) = <<>> /\ \A c : PostsOf(<<c>>) = Posts(c)
<1>1. PostsOf(<<>>) = <<>>
  <2> DEFINE s == [i \in DOMAIN <<>> |-> Posts(<<>>[i])]
  <2>1. s = <<>>
    OBVIOUS
  <2> HIDE DEF s
  <2>2. FlattenSeq(s) = <<>>
    BY <2>1 DEF FlattenSeq
  <2> QED BY <2>2 DEF PostsOf, s
<1>2. ASSUME NEW c PROVE PostsOf(<<c>>) = Posts(c)
  <2> DEFINE s == [i \in DOMAIN <<c>> |-> Posts(<<c>>[i])]
  <2>1. s \in Seq(Seq(PostedByCall)) /\ s # <<>> /\ Len(s) = 1 /\ s[1] = Posts(c)
    BY PostsType
  <2> HIDE DEF s
  <2>2. FlattenSeq(s) = s[1]
    BY <2>1, FlattenRun
  <2> QED BY <2>1, <2>2 DEF PostsOf, s
<1> QED BY <1>1, <1>2

\* The timer of the reader empties the buffer.
LEMMA ExpiredIs ==
    ASSUME NEW r, Calm(r)
    PROVE  /\ Empty(Expired(r).r) /\ Expired(r).r.wild = r.wild /\ Expired(r).r \in Reader /\ Expired(r).calls \in Seq(CallBack)
           /\ r.index = 0 => PostsOf(Expired(r).calls) = <<>>
<1>1. r \in Reader /\ (r.index = 0 => r.cell = Blank)
  BY DEF Calm
<1>2. Expired(r).r \in Reader /\ Expired(r).calls \in Seq(CallBack)
  BY <1>1, ExpiredType
<1>3. Expired(r).r = [Flushed(r) EXCEPT !.armed = FALSE, !.opened = FALSE] /\ Expired(r).calls = <<Call(r, r.index, FALSE)>>
  BY DEF Expired
<1>4. Flushed(r).index = 0 /\ Flushed(r).cell = Blank /\ Flushed(r).wild = r.wild /\ Flushed(r) \in Reader
  BY <1>1, FlushedType DEF Flushed, Reader
<1>5. Empty(Expired(r).r) /\ Expired(r).r.wild = r.wild
  BY <1>2, <1>3, <1>4 DEF Empty, Reader
<1>6. ASSUME r.index = 0 PROVE Posts(Call(r, r.index, FALSE)) = <<>>
  <2>1. r.cell[1] = Nul /\ 1 \in 1..Size
    BY <1>1, <1>6, BlankIs, ReaderAssumption
  <2>2. PICK n \in 0..Size : /\ Len(Text(r)) = n /\ \A i \in 1..n : Text(r)[i] = r.cell[i] /\ r.cell[i] # Nul
                             /\ n = Size \/ r.cell[n + 1] = Nul
    BY <1>1, TextIs
  <2>3. n = 0
    <3>1. 1 \notin 1..n
      BY <2>1, <2>2
    <3> QED BY <3>1, ReaderAssumption
  <2>4. "101" \notin ToSet(Text(r))
    <3>1. Text(r) \in Seq(Unit)
      BY <1>1, TextType
    <3>2. ToSet(Text(r)) = {Text(r)[j] : j \in 1..Len(Text(r))}
      BY <3>1, SetOf
    <3> QED BY <2>2, <2>3, <3>2
  <2>5. r.cell[1] # "8a"
    BY <2>1 DEF Nul
  <2>6. Call(r, r.index, FALSE).r = r
    BY DEF Call
  <2> QED BY <2>4, <2>5, <2>6, Zenon DEF Posts
<1>7. r.index = 0 => PostsOf(Expired(r).calls) = <<>>
  BY <1>3, <1>6, PostsOfFew, Zenon
<1> QED BY <1>2, <1>5, <1>7

LEMMA SessionReaderTimer == SessionInv /\ ReaderTimer => SessionInv'
<1> SUFFICES ASSUME SessionInv, ReaderTimer PROVE SessionInv'
  OBVIOUS
<1> DEFINE r == network_spro
           res == Expired(network_spro)
<1>1. /\ HandOver(res) /\ torn' = (torn \/ r.index > 0) /\ type' = type /\ large' = large /\ garbled' = garbled /\ link' = link
      /\ alive' = alive /\ stream' = stream /\ frames' = frames /\ pings' = pings
  BY DEF ReaderTimer, serverVars
<1>2. /\ SessionTypeOK /\ Calm(r) /\ ~garbled /\ stream \in Seq(Unit) /\ r \in Reader /\ r.index \in Nat
      /\ (r.wild => large) /\ frames \in Seq(Frames \cup {Pong, Answer101})
  BY ReaderAssumption DEF SessionInv, Calm, Reader, SessionTypeOK
<1>3. Empty(res.r) /\ res.r.wild = r.wild /\ res.r \in Reader /\ res.calls \in Seq(CallBack) /\ (r.index = 0 => PostsOf(res.calls) = <<>>)
  BY <1>2, ExpiredIs
<1> HIDE DEF r, res
<1>4. {torn', large', garbled'} \subseteq BOOLEAN
  <2>1. (torn \/ r.index > 0) \in BOOLEAN /\ large \in BOOLEAN /\ garbled \in BOOLEAN
    BY <1>2 DEF SessionTypeOK
  <2>2. torn' \in BOOLEAN /\ large' \in BOOLEAN /\ garbled' \in BOOLEAN
    BY ONLY <1>1, <2>1, Zenon
  <2> QED BY <2>2
<1>5. /\ SessionTypeOK' /\ network_spro' = res.r /\ posted' = posted \o PostsOf(res.calls)
      /\ ToSet(posted') \subseteq ToSet(posted) \cup PostedByCall
  <2>1. frames' \in Seq(Frames \cup {Pong, Answer101})
    BY <1>1, <1>2
  <2> QED BY <1>1, <1>2, <1>3, <1>4, <2>1, HandsType, Zenon
<1>6. network_spro'.index = 0 /\ Calm(network_spro') /\ NoEnd(network_spro') /\ Hidden(network_spro') /\ NoneWhole(network_spro')
  BY <1>3, <1>5, EmptyIs
<1>7. HttpInv' /\ WsInv'
  BY <1>6 DEF HttpInv, WsInv
<1>8. /\ "DISCONNECTED" \in ToSet(posted') => "DISCONNECTED" \in ToSet(posted)
      /\ "REGISTER" \in ToSet(posted') => "REGISTER" \in ToSet(posted)
  BY <1>5 DEF PostedByCall
<1>9. EndInv' /\ ShakeInv' /\ OpenInv'
  <2>1. EndInv'
    BY <1>1, <1>8 DEF SessionInv, EndInv
  <2>2. ShakeInv'
    BY <1>1, <1>6 DEF SessionInv, ShakeInv
  <2>3. AnswerFirst(r, stream) => AnswerFirst(network_spro', stream)
    BY <1>6 DEF AnswerFirst
  <2> QED BY <1>1, <2>1, <2>2, <2>3 DEF SessionInv, OpenInv, r
<1>10. ~torn' => ~torn /\ r.index = 0 /\ posted' = posted
  <2>1. ~torn' => ~torn /\ ~(r.index > 0)
    BY <1>1, Zenon
  <2>2. posted \o <<>> = posted
    BY <1>2 DEF SessionTypeOK
  <2>3. ~torn' => r.index = 0
    BY <1>2, <2>1
  <2> QED BY <1>3, <1>5, <2>1, <2>2, <2>3, Zenon
<1>11. AnswerInv'
  <2> SUFFICES ASSUME link = "handshake", ~torn'
               PROVE  \/ frames' = <<>> /\ stream' = <<>> /\ network_spro'.index = 0
                      \/ /\ frames' = <<Answer101>> /\ ~Registering'
                         /\ \/ stream' = Answer101 /\ network_spro'.index = 0
                            \/ stream' = <<EndOfHead>> /\ Only101(network_spro')
    BY <1>1 DEF AnswerInv
  <2>1. r.index = 0 /\ Registering' = Registering /\ ~Only101(r)
    BY <1>10 DEF Registering, Only101
  <2> QED BY <1>1, <1>6, <1>10, <2>1 DEF SessionInv, AnswerInv, r
<1>12. FrameInv'
  <2> SUFFICES ASSUME link = "open", ~torn'
               PROVE  /\ frames \in Seq(FrameSet) /\ (\A i \in 1..Len(stream) : stream[i] # EndOfHead)
                      /\ \E p : Cut(p, frames, network_spro', stream)
    BY <1>1 DEF FrameInv
  <2>1. frames \in Seq(FrameSet) /\ \A i \in 1..Len(stream) : stream[i] # EndOfHead
    BY <1>10 DEF SessionInv, FrameInv
  <2>2. PICK p : Cut(p, frames, r, stream)
    BY <1>10 DEF SessionInv, FrameInv, r
  <2>3. r.index = 0 /\ network_spro'.index = 0 /\ network_spro' \in Reader
    BY <1>3, <1>5, <1>6, <1>10
  <2>4. \A i \in 1..r.index + Len(stream) : At(network_spro', stream, i) = At(r, stream, i)
    BY <1>2, <2>3 DEF At
  <2>5. Cut(p, frames, network_spro', stream)
    <3>1. network_spro'.index + Len(stream) = r.index + Len(stream)
      BY <2>3
    <3> QED BY <1>2, <2>1, <2>2, <2>3, <2>4, <3>1, CutMoves
  <2> QED BY <2>1, <2>5
<1>13. BalanceInv'
  <2> SUFFICES ASSUME Counting' PROVE (ping_counter' - pong_counter') % Width = Unanswered'
    BY DEF BalanceInv
  <2>1. PostsOf(res.calls) = <<>> /\ beat' /\ ~reset'
    BY <1>3, <1>10 DEF Counting
  <2>2. beat /\ ~reset => (ping_counter - pong_counter) % Width = Unanswered
    BY <1>1, <1>8, <1>10 DEF SessionInv, BalanceInv, Counting
  <2>3. Count(PostsOf(res.calls), "WS_PING_OK") + Count(frames', Pong) = Count(frames, Pong)
    <3>1. Count(PostsOf(res.calls), "WS_PING_OK") = 0 /\ Count(frames, Pong) \in Nat
      BY <1>2, <2>1, CountOne, UnansweredType
    <3> QED BY <1>1, <3>1
  <2>4. frames' \in Seq(Frames \cup {Pong, Answer101})
    BY <1>1, <1>2
  <2> QED BY <1>1, <1>2, <1>3, <2>1, <2>2, <2>3, <2>4, HandsBalance, Zenon
<1>14. network_spro'.wild => large'
  BY <1>1, <1>2, <1>3, <1>5, Zenon
<1> QED BY <1>1, <1>2, <1>5, <1>6, <1>7, <1>9, <1>11, <1>12, <1>13, <1>14 DEF SessionInv

------------------------------------------------------------------------------
(* A segment arrives.                                                      *)
\* What a segment of n units does.
Arrival(n, res) ==
    /\ n \in 1..Len(stream) /\ ~network_spro.wild /\ res = Recv(network_spro, type, SubSeq(stream, 1, n))
    /\ stream' = SubSeq(stream, n + 1, Len(stream))
    /\ frames' = SubSeq(frames, Len(res.calls) + 1, Len(frames))
    /\ torn' = (torn \/ network_spro.index + n > Size) /\ large' = (large \/ 2 * n > Size)
    /\ garbled' = (garbled \/ (~torn' /\ ~Matches(res.calls)))
    /\ HandOver(res)
    /\ type' = type /\ link' = link /\ alive' = alive /\ pings' = pings

LEMMA RestType ==
    ASSUME NEW S, NEW s \in Seq(S), NEW c \in Nat
    PROVE  LET t == SubSeq(s, c + 1, Len(s)) IN
           t \in Seq(S) /\ \A i \in 1..Len(t) : c + i \in 1..Len(s) /\ t[i] = s[c + i]
<1>1. CASE c <= Len(s)
  BY <1>1
<1>2. CASE c > Len(s)
  <2>1. c + 1 > Len(s) /\ c + 1 \in Nat /\ Len(s) \in Nat
    BY <1>2
  <2>2. SubSeq(s, c + 1, Len(s)) = <<>>
    BY <2>1
  <2> QED BY <2>2
<1> QED BY <1>1, <1>2

\* The types after a segment, whatever it held.
LEMMA ArrivalTypes ==
    ASSUME SessionInv, NEW n, NEW res, Arrival(n, res), res.r \in Reader, res.calls \in Seq(CallBack),
           ~torn' => Matches(res.calls), res.r.wild => 2 * n > Size
    PROVE  /\ SessionTypeOK' /\ ~garbled' /\ (network_spro'.wild => large') /\ network_spro' = res.r /\ stream' \in Seq(Unit)
           /\ posted' = posted \o PostsOf(res.calls) /\ ToSet(posted') \subseteq ToSet(posted) \cup PostedByCall
           /\ EndInv' /\ frames' \in Seq(Frames \cup {Pong, Answer101})
<1>1. /\ SessionTypeOK /\ ~garbled /\ stream \in Seq(Unit) /\ frames \in Seq(Frames \cup {Pong, Answer101}) /\ EndInv
  BY DEF SessionInv, SessionTypeOK
<1>2. /\ n \in 1..Len(stream) /\ stream' = SubSeq(stream, n + 1, Len(stream)) /\ HandOver(res)
      /\ frames' = SubSeq(frames, Len(res.calls) + 1, Len(frames)) /\ garbled' = (garbled \/ (~torn' /\ ~Matches(res.calls)))
      /\ torn' = (torn \/ network_spro.index + n > Size) /\ large' = (large \/ 2 * n > Size)
      /\ type' = type /\ link' = link /\ alive' = alive /\ pings' = pings
  BY DEF Arrival
<1>3. frames' \in Seq(Frames \cup {Pong, Answer101}) /\ stream' \in Seq(Unit)
  <2>1. n \in Nat /\ Len(res.calls) \in Nat
    BY <1>1, <1>2
  <2> QED BY <1>1, <1>2, <2>1, RestType, Zenon
<1>4. ~garbled'
  BY <1>1, <1>2, Zenon
<1>5. {torn', large', garbled'} \subseteq BOOLEAN
  <2>1. /\ (torn \/ network_spro.index + n > Size) \in BOOLEAN /\ (large \/ 2 * n > Size) \in BOOLEAN
        /\ (garbled \/ (~torn' /\ ~Matches(res.calls))) \in BOOLEAN
    OBVIOUS
  <2>2. torn' \in BOOLEAN /\ large' \in BOOLEAN /\ garbled' \in BOOLEAN
    BY ONLY <1>2, <2>1, Zenon
  <2> QED BY <2>2
<1>6. /\ SessionTypeOK' /\ network_spro' = res.r /\ posted' = posted \o PostsOf(res.calls)
      /\ ToSet(posted') \subseteq ToSet(posted) \cup PostedByCall
  BY <1>1, <1>2, <1>3, <1>5, HandsType, Zenon
<1>7. EndInv'
  <2>1. "DISCONNECTED" \in ToSet(posted') => "DISCONNECTED" \in ToSet(posted)
    BY <1>6 DEF PostedByCall
  <2>2. stream = <<>> => FALSE
    BY <1>2
  <2> QED BY <1>1, <1>2, <2>1, <2>2 DEF EndInv
<1>8. network_spro'.wild => large'
  BY <1>2, <1>6, Zenon
<1> QED BY <1>3, <1>4, <1>6, <1>7, <1>8

\* What is not torn by a segment was not torn before, and the segment fits.
LEMMA ArrivalFits ==
    ASSUME SessionInv, NEW n, NEW res, Arrival(n, res), ~torn'
    PROVE  ~torn /\ network_spro.index + n <= Size
<1>1. torn' = (torn \/ network_spro.index + n > Size) /\ n \in Nat
  BY DEF Arrival
<1>2. ~torn /\ ~(network_spro.index + n > Size)
  BY <1>1, Zenon
<1>3. network_spro.index \in Nat /\ Size \in Nat
  BY ReaderAssumption DEF SessionInv, Calm, Reader
<1> QED BY <1>1, <1>2, <1>3

\* A segment of an open connection.
LEMMA SessionFrames == ASSUME SessionInv, link = "open", NEW n, NEW res, Arrival(n, res) PROVE SessionInv'
<1> DEFINE r == network_spro
           rest == SubSeq(stream, n + 1, Len(stream))
<1>1. /\ SessionTypeOK /\ Calm(r) /\ stream \in Seq(Unit) /\ type = "WS" /\ AnswerFirst(r, stream)
      /\ NoEnd(r) /\ NoneWhole(r)
  BY DEF SessionInv, OpenInv, WsInv
<1>2. /\ n \in 1..Len(stream) /\ ~r.wild /\ res = Recv(r, "WS", SubSeq(stream, 1, n))
      /\ stream' = rest /\ frames' = SubSeq(frames, Len(res.calls) + 1, Len(frames)) /\ HandOver(res)
      /\ type' = type /\ link' = link /\ alive' = alive /\ pings' = pings
  BY <1>1 DEF Arrival
<1>3. Calm(res.r) /\ NoneWhole(res.r) /\ NoEnd(res.r) /\ res.calls \in Seq(CallBack) /\ AnswerFirst(res.r, rest)
      /\ (res.r.wild => 2 * n > Size)
  <2> HIDE DEF r
  <2> QED BY <1>1, <1>2, WsFront
<1>4. ASSUME ~torn'
      PROVE  /\ frames \in Seq(FrameSet) /\ (\A i \in 1..Len(stream) : stream[i] # EndOfHead)
             /\ Len(res.calls) <= Len(frames) /\ (\A i \in 1..Len(res.calls) : Given(res.calls[i], frames[i]))
             /\ \E q : Cut(q, frames', res.r, rest)
  <2>0. ~torn /\ r.index + n <= Size
    BY <1>4, ArrivalFits
  <2>1. frames \in Seq(FrameSet) /\ \A i \in 1..Len(stream) : stream[i] # EndOfHead
    BY <2>0 DEF SessionInv, FrameInv
  <2>2. PICK p : Cut(p, frames, r, stream)
    BY <2>0 DEF SessionInv, FrameInv
  <2>3. \A i \in 1..Len(stream) : stream[i] \notin Lengths \cup {EndOfHead}
    BY <1>1, <2>1 DEF AnswerFirst
  <2> HIDE DEF r, rest
  <2>4. LET x == Recv(r, "WS", SubSeq(stream, 1, n)) IN
        /\ Len(x.calls) <= Len(frames) /\ \A i \in 1..Len(x.calls) : Given(x.calls[i], frames[i])
        /\ \E q : Cut(q, SubSeq(frames, Len(x.calls) + 1, Len(frames)), x.r, SubSeq(stream, n + 1, Len(stream)))
    BY <1>1, <1>2, <2>0, <2>1, <2>2, <2>3, WsRecvFrames
  <2>5. /\ Len(res.calls) <= Len(frames) /\ \A i \in 1..Len(res.calls) : Given(res.calls[i], frames[i])
        /\ \E q : Cut(q, SubSeq(frames, Len(res.calls) + 1, Len(frames)), res.r, SubSeq(stream, n + 1, Len(stream)))
    BY <1>2, <2>4, Zenon
  <2> QED BY <1>2, <2>1, <2>5, Zenon DEF rest
<1>5. ~torn' => Matches(res.calls)
  <2> SUFFICES ASSUME ~torn' PROVE Matches(res.calls)
    OBVIOUS
  <2>1. Len(res.calls) <= Len(frames) /\ DOMAIN res.calls = 1..Len(res.calls)
    BY <1>3, <1>4
  <2>2. ASSUME NEW i \in 1..Len(res.calls)
        PROVE  res.calls[i].flag /\ SubSeq(res.calls[i].r.cell, 1, res.calls[i].len) = frames[i]
    BY <1>4, <2>2, Zenon DEF Given
  <2> QED BY <2>1, <2>2, Zenon DEF Matches
<1>6. /\ SessionTypeOK' /\ ~garbled' /\ (network_spro'.wild => large') /\ network_spro' = res.r /\ stream' \in Seq(Unit)
      /\ posted' = posted \o PostsOf(res.calls) /\ ToSet(posted') \subseteq ToSet(posted) \cup PostedByCall
      /\ EndInv' /\ frames' \in Seq(Frames \cup {Pong, Answer101})
  <2>1. res.r \in Reader
    BY <1>3 DEF Calm
  <2> QED BY <1>3, <1>5, <2>1, ArrivalTypes, Zenon
<1>7. HttpInv' /\ WsInv' /\ ShakeInv' /\ OpenInv' /\ AnswerInv'
  <2> HIDE DEF rest
  <2> QED BY <1>1, <1>2, <1>3, <1>6 DEF HttpInv, WsInv, ShakeInv, OpenInv, AnswerInv
<1>8. FrameInv'
  <2> SUFFICES ASSUME ~torn'
               PROVE  /\ frames' \in Seq(FrameSet) /\ (\A i \in 1..Len(stream') : stream'[i] # EndOfHead)
                      /\ \E p : Cut(p, frames', network_spro', stream')
    BY DEF FrameInv
  <2>1. frames' \in Seq(FrameSet)
    <3>1. frames \in Seq(FrameSet) /\ Len(res.calls) \in Nat
      BY <1>3, <1>4
    <3> QED BY <1>2, <3>1, RestType, Zenon
  <2>2. \A i \in 1..Len(stream') : stream'[i] # EndOfHead
    <3>1. n \in Nat
      BY <1>1, <1>2
    <3>2. \A i \in 1..Len(rest) : n + i \in 1..Len(stream) /\ rest[i] = stream[n + i]
      BY <1>1, <3>1, RestType
    <3> HIDE DEF rest
    <3> QED BY <1>2, <1>4, <3>2
  <2> HIDE DEF rest
  <2> QED BY <1>2, <1>4, <1>6, <2>1, <2>2
<1>9. BalanceInv'
  <2> SUFFICES ASSUME Counting' PROVE (ping_counter' - pong_counter') % Width = Unanswered'
    BY DEF BalanceInv
  <2>1. ~torn' /\ ~torn /\ beat' /\ ~reset'
    BY ArrivalFits DEF Counting
  <2>2. beat /\ ~reset => (ping_counter - pong_counter) % Width = Unanswered
    BY <2>1 DEF SessionInv, BalanceInv, Counting
  <2>3. Count(PostsOf(res.calls), "WS_PING_OK") + Count(frames', Pong) = Count(frames, Pong)
    BY <1>2, <1>3, <1>4, <2>1, PostsCounted
  <2> QED BY <1>1, <1>2, <1>3, <1>6, <2>1, <2>2, <2>3, HandsBalance, Zenon
<1> QED BY <1>3, <1>6, <1>7, <1>8, <1>9 DEF SessionInv

\* The segments of an answer of one piece.
LEMMA OneSegment == ASSUME NEW s, NEW a, s = <<a>> PROVE SubSeq(s, 1, 1) = s /\ SubSeq(s, 2, 1) = <<>>
<1>1. s \in Seq({a}) /\ Len(s) = 1
  OBVIOUS
<1>2. SubSeq(s, 1, Len(s)) = s
  BY ONLY <1>1, SubSeqFull
<1>3. SubSeq(s, 2, 1) = <<>>
  BY ONLY SubSeqEmpty, 2 \in Int, 1 \in Int, 1 < 2
<1> QED BY <1>1, <1>2, <1>3, Zenon

\* The segments of the answer of two pieces.
LEMMA TwoSegments == LET s == Answer101 IN
    SubSeq(s, 1, 1) = <<"101">> /\ SubSeq(s, 2, 2) = <<EndOfHead>> /\ SubSeq(s, 1, 2) = s /\ SubSeq(s, 3, 2) = <<>>
<1> DEFINE s == Answer101
           a == "101"
           b == EndOfHead
<1>1. s \in Seq({a, b}) /\ Len(s) = 2 /\ s[1] = a /\ s[2] = b
  BY DEF Answer101
<1> HIDE DEF s, a, b
<1> DEFINE A == <<a>>
           B == <<b>>
           P == SubSeq(s, 1, 1)
           Q == SubSeq(s, 2, 2)
<1>2. A \in Seq({a, b}) /\ Len(A) = 1 /\ A[1] = a /\ B \in Seq({a, b}) /\ Len(B) = 1 /\ B[1] = b
  OBVIOUS
<1>3. SubSeq(s, 1, Len(s)) = s
  BY ONLY <1>1, SubSeqFull
<1>4. SubSeq(s, 3, 2) = <<>>
  BY ONLY SubSeqEmpty, 3 \in Int, 2 \in Int, 2 < 3
<1> HIDE DEF A, B
<1>5. P \in Seq({a, b}) /\ Len(P) = 1 /\ P[1] = s[1]
  <2>1. \A i \in 1..1 : s[i] \in {a, b}
    BY <1>1
  <2> QED BY ONLY <2>1, SubSeqProperties
<1>6. Q \in Seq({a, b}) /\ Len(Q) = 1 /\ Q[1] = s[2]
  <2>1. \A i \in 2..2 : s[i] \in {a, b}
    BY <1>1
  <2> QED BY ONLY <2>1, SubSeqProperties
<1> HIDE DEF P, Q
<1>7. P = A
  <2>1. \A i \in 1..Len(P) : P[i] = A[i]
    BY <1>1, <1>2, <1>5
  <2> QED BY ONLY <1>2, <1>5, <2>1, SeqEqual
<1>8. Q = B
  <2>1. \A i \in 1..Len(Q) : Q[i] = B[i]
    BY <1>1, <1>2, <1>6
  <2> QED BY ONLY <1>2, <1>6, <2>1, SeqEqual
<1> QED BY <1>1, <1>3, <1>4, <1>7, <1>8, Zenon DEF A, B, P, Q, s, a, b

\* The answer is cut into two segments at most.
LEMMA AnswerCut ==
    ASSUME NEW s \in {Answer101, <<EndOfHead>>}, NEW n \in 1..Len(s)
    PROVE  LET data == SubSeq(s, 1, n)
               rest == SubSeq(s, n + 1, Len(s)) IN
           /\ Len(data) = n
           /\ \/ s = Answer101 /\ data = <<"101">> /\ rest = <<EndOfHead>>
              \/ s = Answer101 /\ data = Answer101 /\ rest = <<>>
              \/ s = <<EndOfHead>> /\ data = <<EndOfHead>> /\ rest = <<>>
<1>1. CASE s = Answer101
  <2>1. s = <<"101", EndOfHead>> /\ Len(s) = 2
    BY <1>1 DEF Answer101
  <2>2. /\ SubSeq(s, 1, 1) = <<"101">> /\ SubSeq(s, 2, 2) = <<EndOfHead>>
        /\ SubSeq(s, 1, 2) = s /\ SubSeq(s, 3, 2) = <<>>
    BY ONLY <2>1, <1>1, TwoSegments, Zenon
  <2>3. Len(<<"101">>) = 1
    OBVIOUS
  <2>4. CASE n = 1
    BY ONLY <1>1, <2>1, <2>2, <2>3, <2>4, 1 + 1 = 2, Zenon
  <2>5. CASE n = 2
    BY ONLY <1>1, <2>1, <2>2, <2>5, 2 + 1 = 3, Zenon
  <2>6. n = 1 \/ n = 2
    BY ONLY <2>1, n \in 1..Len(s)
  <2> QED BY <2>4, <2>5, <2>6
<1>2. CASE s = <<EndOfHead>>
  <2>1. Len(s) = 1
    BY ONLY <1>2
  <2>2. SubSeq(s, 1, 1) = s /\ SubSeq(s, 2, 1) = <<>>
    BY ONLY <1>2, OneSegment, Zenon
  <2>3. n = 1
    BY ONLY <2>1, n \in 1..Len(s)
  <2> QED BY ONLY <1>2, <2>1, <2>2, <2>3, 1 + 1 = 2, Zenon
<1> QED BY <1>1, <1>2

LEMMA FewCalls == \A w \in Reader : <<Call(w, w.index, TRUE)>> \in Seq(CallBack)
<1> SUFFICES ASSUME NEW w \in Reader PROVE <<Call(w, w.index, TRUE)>> \in Seq(CallBack)
  OBVIOUS
<1>1. w.index \in Int
  BY ReaderAssumption DEF Reader
<1>2. Call(w, w.index, TRUE) \in CallBack
  BY <1>1 DEF Call, CallBack
<1>3. \A c \in CallBack : <<c>> \in Seq(CallBack)
  OBVIOUS
<1> QED BY <1>2, <1>3, Zenon

\* A segment of the answer to the handshake.
LEMMA SessionAnswer == ASSUME SessionInv, link = "handshake", NEW n, NEW res, Arrival(n, res) PROVE SessionInv'
<1> DEFINE r == network_spro
           data == SubSeq(stream, 1, n)
           rest == SubSeq(stream, n + 1, Len(stream))
<1>1. /\ SessionTypeOK /\ Calm(r) /\ stream \in Seq(Unit) /\ type = "HTTP" /\ Hidden(r)
      /\ stream \in {Answer101, <<EndOfHead>>, <<>>}
      /\ Registering => (r.index = 0 \/ Only101(r)) /\ (r.index = 1 => stream = <<EndOfHead>>)
  BY DEF SessionInv, HttpInv, ShakeInv
<1>2. /\ n \in 1..Len(stream) /\ ~r.wild /\ res = Recv(r, "HTTP", data)
      /\ stream' = rest /\ frames' = SubSeq(frames, Len(res.calls) + 1, Len(frames)) /\ HandOver(res)
      /\ type' = type /\ link' = link /\ alive' = alive /\ pings' = pings
  BY <1>1 DEF Arrival
<1>3. stream \in {Answer101, <<EndOfHead>>}
  BY <1>1, <1>2
<1>4. /\ data \in AnswerParts
      /\ \/ stream = Answer101 /\ data = <<"101">> /\ rest = <<EndOfHead>>
         \/ stream = Answer101 /\ data = Answer101 /\ rest = <<>>
         \/ stream = <<EndOfHead>> /\ data = <<EndOfHead>> /\ rest = <<>>
  <2>1. /\ Len(data) = n
        /\ \/ stream = Answer101 /\ data = <<"101">> /\ rest = <<EndOfHead>>
           \/ stream = Answer101 /\ data = Answer101 /\ rest = <<>>
           \/ stream = <<EndOfHead>> /\ data = <<EndOfHead>> /\ rest = <<>>
    BY <1>2, <1>3, AnswerCut, Zenon
  <2> HIDE DEF data, rest
  <2> QED BY <1>2, <2>1 DEF AnswerParts
<1> HIDE DEF r, data, rest
<1>5. Answer101 # <<"101">> /\ Answer101 # <<EndOfHead>> /\ <<"101">> # <<EndOfHead>>
  BY DEF Answer101, EndOfHead
<1>6. /\ Calm(res.r) /\ Hidden(res.r) /\ res.calls \in Seq(CallBack)
      /\ (res.calls # <<>> => res.r.index = 0) /\ ~res.r.wild
  <2> DEFINE w == Written(r, data)
  <2>1. \/ /\ Calm(w) /\ Hidden(w) /\ Calm(res.r) /\ res.r.index = w.index /\ res.r.cell = w.cell /\ res.calls = <<>>
           /\ res.r.wild = r.wild
        \/ Empty(res.r) /\ res.r.wild = r.wild /\ res.calls = <<Call(w, w.index, TRUE)>>
    BY <1>1, <1>2, <1>4, HttpRecvCalm
  <2>2. w \in Reader
    <3>1. data \in Seq(Unit) /\ r \in Reader
      <4>1. n \in 1..Len(stream)
        BY <1>2
      <4> QED BY <1>1, <4>1 DEF data, Calm
    <3> QED BY <3>1, WrittenIs
  <2> HIDE DEF w
  <2>3. CASE Calm(w) /\ Hidden(w) /\ Calm(res.r) /\ res.r.index = w.index /\ res.r.cell = w.cell /\ res.calls = <<>>
               /\ res.r.wild = r.wild
    <3>1. ~res.r.wild
      BY <1>2, <2>3, Zenon
    <3>2. Hidden(res.r)
      BY <2>3 DEF Hidden
    <3> QED BY <2>3, <3>1, <3>2
  <2>4. CASE Empty(res.r) /\ res.r.wild = r.wild /\ res.calls = <<Call(w, w.index, TRUE)>>
    <3>1. res.calls \in Seq(CallBack)
      BY <2>2, <2>4, FewCalls
    <3> QED BY <1>2, <2>4, <3>1, EmptyIs
  <2> QED BY <2>1, <2>3, <2>4
<1>7. r.index = 0 \/ (Only101(r) /\ data = <<EndOfHead>>) => AnswerWaits(r, data, res) \/ AnswerTaken(r, data, res)
  BY <1>1, <1>2, <1>4, AnswerComes
<1>8. Registering => AnswerWaits(r, data, res) \/ AnswerTaken(r, data, res)
  <2>1. Registering /\ Only101(r) => data = <<EndOfHead>>
    BY <1>1, <1>4, <1>5 DEF Only101
  <2> QED BY <1>1, <1>7, <2>1
<1>9. ~torn => /\ frames = <<Answer101>> /\ ~Registering
               /\ \/ stream = Answer101 /\ r.index = 0
                  \/ stream = <<EndOfHead>> /\ Only101(r)
  <2>1. stream # <<>>
    BY <1>3 DEF Answer101
  <2> QED BY <2>1 DEF SessionInv, AnswerInv, r
<1>10. ~torn => /\ AnswerWaits(r, data, res) \/ AnswerTaken(r, data, res)
                /\ data # <<"101">> => data = Answer101 \/ Only101(r)
  BY <1>4, <1>5, <1>7, <1>9
<1>11. ~torn => /\ Matches(res.calls)
                /\ \/ AnswerWaits(r, data, res) /\ res.calls = <<>>
                   \/ AnswerTaken(r, data, res) /\ Len(res.calls) = 1
  <2> SUFFICES ASSUME ~torn PROVE /\ Matches(res.calls)
                                  /\ \/ AnswerWaits(r, data, res) /\ res.calls = <<>>
                                     \/ AnswerTaken(r, data, res) /\ Len(res.calls) = 1
    OBVIOUS
  <2>1. frames = <<Answer101>> /\ Len(frames) = 1 /\ frames[1] = Answer101
    BY <1>9
  <2>2. CASE AnswerWaits(r, data, res)
    <3>1. res.calls = <<>>
      BY <2>2 DEF AnswerWaits
    <3>2. Matches(<<>>)
      BY <2>1 DEF Matches
    <3> QED BY <2>2, <3>1, <3>2
  <2>3. CASE AnswerTaken(r, data, res)
    <3>1. PICK w \in Reader : /\ res.calls = <<Call(w, w.index, TRUE)>>
                              /\ data = Answer101 \/ Only101(r) => SubSeq(w.cell, 1, w.index) = Answer101
      BY <2>3 DEF AnswerTaken
    <3>2. SubSeq(w.cell, 1, w.index) = Answer101
      BY <1>10, <2>3, <3>1 DEF AnswerTaken
    <3>3. Call(w, w.index, TRUE).flag = TRUE /\ Call(w, w.index, TRUE).r = w /\ Call(w, w.index, TRUE).len = w.index
      BY DEF Call
    <3> DEFINE c == Call(w, w.index, TRUE)
    <3>4. c.flag /\ SubSeq(c.r.cell, 1, c.len) = Answer101
      BY <3>2, <3>3, Zenon
    <3> HIDE DEF c
    <3>5. Len(<<c>>) = 1 /\ DOMAIN <<c>> = {1} /\ <<c>>[1] = c
      OBVIOUS
    <3>6. Len(<<c>>) <= Len(frames) /\ frames[1] = Answer101
      BY <2>1, <3>5
    <3>7. Matches(<<c>>)
      <4>1. \A i \in DOMAIN <<c>> : <<c>>[i].flag /\ SubSeq(<<c>>[i].r.cell, 1, <<c>>[i].len) = frames[i]
        BY ONLY <3>4, <3>5, <3>6, Zenon
      <4> QED BY ONLY <3>6, <4>1, Zenon DEF Matches
    <3> QED BY <2>3, <3>1, <3>5, <3>7, Zenon DEF c
  <2> QED BY <1>10, <2>2, <2>3
<1>12. /\ SessionTypeOK' /\ ~garbled' /\ (network_spro'.wild => large') /\ network_spro' = res.r /\ stream' \in Seq(Unit)
       /\ posted' = posted \o PostsOf(res.calls) /\ ToSet(posted') \subseteq ToSet(posted) \cup PostedByCall
       /\ EndInv' /\ frames' \in Seq(Frames \cup {Pong, Answer101})
  <2>1. res.r \in Reader
    BY <1>6 DEF Calm
  <2> QED BY <1>6, <1>11, <2>1, ArrivalFits, ArrivalTypes, Zenon
<1>13. res.calls = <<>> => Registering' = Registering
  <2> SUFFICES ASSUME res.calls = <<>> PROVE Registering' = Registering
    OBVIOUS
  <2>1. PostsOf(res.calls) = <<>>
    BY PostsOfFew
  <2>2. posted \o <<>> = posted
    BY <1>1 DEF SessionTypeOK
  <2>3. posted' = posted
    BY <1>12, <2>1, <2>2, Zenon
  <2> QED BY <2>3 DEF Registering
<1>14. Registering' /\ res.r.index # 0 => AnswerWaits(r, data, res)
  <2>1. AnswerTaken(r, data, res) => res.r.index = 0
    BY DEF AnswerTaken, Empty
  <2>2. Registering' /\ res.r.index # 0 => Registering
    BY <1>6, <1>13
  <2> QED BY <1>8, <2>1, <2>2
<1>15. HttpInv' /\ WsInv' /\ OpenInv' /\ FrameInv'
  <2>1. Registering' => res.r.index = 0 \/ Only101(res.r)
    BY <1>14 DEF AnswerWaits
  <2> QED BY <1>1, <1>2, <1>6, <1>12, <2>1 DEF HttpInv, WsInv, OpenInv, FrameInv
<1>16. ShakeInv'
  <2>1. rest \in {<<EndOfHead>>, <<>>}
    BY <1>4
  <2>2. AnswerWaits(r, data, res) => rest = <<EndOfHead>>
    BY <1>4, <1>5 DEF AnswerWaits
  <2>3. Registering' /\ res.r.index = 1 => rest = <<EndOfHead>>
    BY <1>14, <2>2
  <2> QED BY <1>1, <1>2, <1>12, <2>1, <2>3 DEF ShakeInv
<1>17. AnswerInv'
  <2> SUFFICES ASSUME ~torn'
               PROVE  \/ frames' = <<>> /\ stream' = <<>> /\ network_spro'.index = 0
                      \/ /\ frames' = <<Answer101>> /\ ~Registering'
                         /\ \/ stream' = Answer101 /\ network_spro'.index = 0
                            \/ stream' = <<EndOfHead>> /\ Only101(network_spro')
    BY DEF AnswerInv
  <2>0. ~torn
    BY ArrivalFits
  <2>1. frames = <<Answer101>> /\ Len(frames) = 1 /\ ~Registering
    BY <1>9, <2>0
  <2>2. CASE AnswerWaits(r, data, res) /\ res.calls = <<>>
    <3>1. data = <<"101">> /\ Only101(res.r)
      BY <2>2 DEF AnswerWaits
    <3>2. rest = <<EndOfHead>>
      BY <1>4, <1>5, <3>1
    <3>3. frames' = <<Answer101>>
      <4>1. Len(res.calls) = 0
        BY <2>2
      <4>2. SubSeq(<<Answer101>>, 0 + 1, 1) = <<Answer101>>
        BY ONLY OneSegment, 0 + 1 = 1, Zenon
      <4> QED BY <1>2, <2>1, <4>1, <4>2, Zenon
    <3> QED BY <1>2, <1>12, <1>13, <2>1, <2>2, <3>1, <3>2, <3>3
  <2>3. CASE AnswerTaken(r, data, res) /\ Len(res.calls) = 1
    <3>1. data # <<"101">> /\ res.r.index = 0
      BY <2>3 DEF AnswerTaken, Empty
    <3>2. rest = <<>>
      BY <1>4, <3>1
    <3>3. frames' = <<>>
      <4>1. SubSeq(<<Answer101>>, 1 + 1, 1) = <<>>
        OBVIOUS
      <4> QED BY <1>2, <2>1, <2>3, <4>1, Zenon
    <3> QED BY <1>2, <1>12, <3>1, <3>2, <3>3
  <2> QED BY <1>11, <2>0, <2>2, <2>3
<1>18. BalanceInv'
  <2>1. Counting' => "REGISTER" \in ToSet(posted) /\ ~torn
    BY <1>2, <1>12, ArrivalFits DEF Counting, PostedByCall
  <2>2. ~Counting'
    BY <1>9, <2>1 DEF Registering
  <2> QED BY <2>2 DEF BalanceInv
<1> QED BY <1>6, <1>12, <1>15, <1>16, <1>17, <1>18 DEF SessionInv

LEMMA SessionSegment == SessionInv /\ SegmentArrives => SessionInv'
<1> SUFFICES ASSUME SessionInv, SegmentArrives PROVE SessionInv'
  OBVIOUS
<1>1. link \in {"handshake", "open"}
  BY DEF SegmentArrives
<1>2. \E n, res : Arrival(n, res)
  <2>1. PICK n \in 1..Len(stream) :
           LET res == Recv(network_spro, type, SubSeq(stream, 1, n)) IN
           /\ n <= Segment /\ ~network_spro.wild
           /\ stream' = SubSeq(stream, n + 1, Len(stream))
           /\ frames' = SubSeq(frames, Len(res.calls) + 1, Len(frames))
           /\ torn' = (torn \/ network_spro.index + n > Size)
           /\ large' = (large \/ 2 * n > Size)
           /\ garbled' = (garbled \/ (~torn' /\ ~Matches(res.calls)))
           /\ HandOver(res)
    BY Zenon DEF SegmentArrives
  <2>2. type' = type /\ link' = link /\ alive' = alive /\ pings' = pings
    BY DEF SegmentArrives
  <2>3. Arrival(n, Recv(network_spro, type, SubSeq(stream, 1, n)))
    BY <2>1, <2>2, Zenon DEF Arrival
  <2> QED BY <2>3
<1> QED BY <1>1, <1>2, SessionAnswer, SessionFrames

------------------------------------------------------------------------------
LEMMA SessionStarts == SessionInit => SessionInv
<1> SUFFICES ASSUME SessionInit PROVE SessionInv
  OBVIOUS
<1>1. /\ network_spro = NewReader /\ type = "HTTP"
      /\ link = "none" /\ alive = FALSE /\ stream = <<>> /\ frames = <<>> /\ pings = 0
      /\ posted = <<>> /\ beat = FALSE /\ ping_counter = 0 /\ pong_counter = 0 /\ refused = 0
      /\ reset = FALSE /\ torn = FALSE /\ large = FALSE /\ garbled = FALSE
  BY DEF SessionInit
<1>2. Empty(network_spro) /\ ~network_spro.wild
  BY <1>1, NewReaderType DEF NewReader, Empty
<1>3. Calm(network_spro) /\ Hidden(network_spro) /\ network_spro.index = 0 /\ network_spro \in Reader
  BY <1>2, EmptyIs DEF Empty
<1>4. SessionTypeOK
  <2>1. 0 \in 0..MaxPings /\ 0 \in 0..Width - 1
    BY SessionAssumption
  <2>2. network_spro.index \in 0..Size /\ Len(network_spro.cell) = Size
        /\ {network_spro.opened, network_spro.armed, network_spro.wild} \subseteq BOOLEAN
    BY <1>3, ReaderFits
  <2>3. <<>> \in Seq(PostedEvent) /\ <<>> \in Seq(Frames \cup {Pong, Answer101}) /\ <<>> \in Seq(Unit)
    OBVIOUS
  <2> HIDE DEF SessionInit
  <2> QED BY ONLY <1>1, <1>3, <2>1, <2>2, <2>3 DEF SessionTypeOK
<1>5. ToSet(posted) = {}
  BY <1>1, QueueOne
<1>6. HttpInv /\ WsInv /\ EndInv /\ ShakeInv /\ OpenInv /\ AnswerInv /\ FrameInv /\ BalanceInv
  BY <1>1, <1>3, <1>5 DEF HttpInv, WsInv, EndInv, ShakeInv, OpenInv, AnswerInv, FrameInv, BalanceInv, Counting, Registering
<1> QED BY <1>1, <1>2, <1>3, <1>4, <1>6 DEF SessionInv

LEMMA SessionSteps == SessionInv /\ [SessionNext]_sessionVars => SessionInv'
<1>1. SessionInv /\ SessionNext => SessionInv'
  BY SessionConnect, SessionSegment, SessionReaderTimer, SessionHeartbeatStarts, SessionTypeIsWs, SessionDisconnection,
     SessionPing, SessionPingOk, SessionHeartbeatDue, SessionFails, SessionServer, SessionSilence, Zenon
     DEF SessionNext, SessionTask
<1>2. SessionInv /\ UNCHANGED sessionVars => SessionInv'
  <2> SUFFICES ASSUME SessionInv, UNCHANGED sessionVars PROVE SessionInv'
    OBVIOUS
  <2>1. /\ network_spro' = network_spro /\ type' = type /\ torn' = torn /\ large' = large /\ garbled' = garbled
        /\ alive' = alive /\ stream' = stream /\ frames' = frames /\ pings' = pings /\ link' = link /\ posted' = posted
        /\ beat' = beat /\ ping_counter' = ping_counter /\ pong_counter' = pong_counter /\ refused' = refused /\ reset' = reset
    BY DEF sessionVars, readerVars, serverVars, beatVars
  <2>2. SameStream
    BY <2>1 DEF SameStream
  <2>3. SessionTypeOK'
    BY <2>1 DEF SessionInv, SessionTypeOK
  <2>4. BalanceInv'
    BY <2>1 DEF SessionInv, BalanceInv, Counting, Unanswered
  <2> QED BY <2>1, <2>2, <2>3, <2>4, SessionCounts
<1> QED BY <1>1, <1>2

(* For every size of the buffer and of the segments, every set of frames   *)
(* of the server and every cut of its stream, the buffer and the stream    *)
(* hold, one behind the other, the packages that were not handed over,     *)
(* unless one was torn; and whatever is left in the buffer, the reader     *)
(* writes beyond it only after a single segment of more than half of it.   *)
THEOREM SessionInvHolds == SessionSpec => []SessionInv
BY SessionStarts, SessionSteps, PTL DEF SessionSpec

(* Spro.c: each callback gets the next whole package and a package that    *)
(* has arrived is handed over, unless one was torn; nothing is written     *)
(* outside of the buffer before a segment of more than half of it.         *)
THEOREM FramesIntactHolds == SessionSpec => []FramesIntact
<1>1. SessionInv => FramesIntact
  <2> SUFFICES ASSUME SessionInv PROVE FramesIntact
    OBVIOUS
  <2>1. ~garbled /\ (network_spro.wild => large) /\ Calm(network_spro) /\ stream \in Seq(Unit)
    BY DEF SessionInv, Calm
  <2>2. ASSUME stream = <<>>, ~torn, link = "handshake" PROVE frames = <<>>
    <3>1. stream # Answer101 /\ stream # <<EndOfHead>>
      BY <2>2 DEF Answer101
    <3> QED BY <2>2, <3>1 DEF SessionInv, AnswerInv
  <2>3. ASSUME stream = <<>>, ~torn, link = "open", frames # <<>> PROVE FALSE
    <3>1. frames \in Seq(FrameSet) /\ NoneWhole(network_spro) /\ network_spro \in Reader
      BY <2>1, <2>3 DEF SessionInv, FrameInv, OpenInv, WsInv, Calm
    <3>2. PICK p : Cut(p, frames, network_spro, stream)
      BY <2>3 DEF SessionInv, FrameInv
    <3>3. network_spro.index < Len(frames[1])
      BY <2>1, <2>3, <3>1, <3>2, FirstShort DEF NoneWhole
    <3>4. 1 \in 1..Len(frames) /\ frames[1] \in FrameSet /\ Len(frames) \in 0..Len(frames) /\ 1 \in 0..Len(frames) /\ 1 <= Len(frames)
      BY <2>3, <3>1
    <3>5. p[1] <= p[Len(frames)] /\ p[Len(frames)] = network_spro.index + Len(stream) /\ p[1] = p[1 - 1] + Len(frames[1]) /\ p[0] = 0
      BY <3>2, <3>4 DEF Cut
    <3>6. Len(frames[1]) \in Nat /\ Len(stream) = 0 /\ network_spro.index \in Nat
      BY <2>3, <3>1, <3>4, FrameType, ReaderAssumption DEF Reader
    <3> QED BY <3>3, <3>5, <3>6
  <2> QED BY <2>1, <2>2, <2>3 DEF FramesIntact
<1> QED BY <1>1, SessionInvHolds, PTL

(* iotgo_core.c: while the heartbeat runs on an open connection, the       *)
(* counters differ by the pings that were not answered, unless a setting   *)
(* of the server cleared them in between or a package was torn; and every  *)
(* variable keeps its type.                                                *)
THEOREM PingsBalanceHolds == SessionSpec => []PingsBalance
<1>1. SessionInv => PingsBalance
  BY DEF SessionInv, BalanceInv, Counting, PingsBalance
<1> QED BY <1>1, SessionInvHolds, PTL
==============================================================================
