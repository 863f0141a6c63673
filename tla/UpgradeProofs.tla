---------------------------- MODULE UpgradeProofs ----------------------------
(* Proofs about the firmware upgrade, for every number of versions and of  *)
(* sectors and any backlog of events.                                      *)
EXTENDS Upgrade, TLAPS

Has(q, e) == \E i \in 1..Len(q) : q[i] = e
Waiting == "enter" \in timers \/ Has(events, "ENTER")
Restarting == timers \cap {"reboot", "restart"} # {}

\* The image to download is newer, a restart begins in a good one, and a
\* download has its buffers and its information.
Underway ==
    /\ info # None => Newer(info)
    /\ Restarting => running # Junk
    /\ flag \/ "progress" \in timers => buffers
    /\ buffers => info # None

\* A request on its way to Start is the only one, and nothing was written yet.
EnterOnce ==
    /\ Waiting => info # None /\ ~buffers /\ index = 0 /\ \A code \in Code : ~Has(events, code)
    /\ "enter" \in timers => ~Has(events, "ENTER")
    /\ \A i, j \in 1..Len(events) : events[i] = "ENTER" /\ events[j] = "ENTER" => i = j

\* What the digest was checked of is still in flash when it counts.
StillHolds ==
    /\ info # None /\ Has(events, "OK") => index >= Size /\ Holds(info)
    /\ Restarting => info = None /\ \E v \in Version : Newer(v) /\ Holds(v)

\* The bytes that came are at most the sectors written, and just these as
\* long as no package was short.
InStep ==
    /\ index = file.counter
    /\ index < Size => file.downloaded <= index * SectorLen
    /\ ~file.short => IF index < Size THEN file.downloaded = index * SectorLen
                                      ELSE file.downloaded >= Length

InOrder ==
    /\ Underway
    /\ OneAtATime =>
        /\ InStep
        /\ info = None => ~buffers /\ index = 0
        /\ EnterOnce
        /\ StillHolds

UpgradeInv == TypeOK /\ InOrder

------------------------------------------------------------------------------
\* The types, by the groups of variables that actions leave alone.
FlashOK ==
    /\ running \in Version \cup {Junk}
    /\ sector \in [0..Size - 1 -> Part \cup {Junk}]
    /\ new_bin \in Version \cup {None}
InfoOK == info \in Version \cup {None} /\ auto \in BOOLEAN
LoadOK ==
    /\ buffers \in BOOLEAN /\ flag \in BOOLEAN
    /\ file \in Files
    /\ index \in 0..Size /\ tries \in 0..Tries
ConnOK ==
    /\ conn \in {"none", "connecting", "up", "closing"}
    /\ asked \in Seq(Asked) /\ old \in BOOLEAN /\ stray \subseteq Asked
QueueOK == events \in Seq(Event) /\ Len(events) <= MaxBacklog /\ timers \subseteq Timer

\* The length of an image.
LEMMA LengthIs ==
    /\ Length \in Nat \ {0} /\ Size * SectorLen >= Length
    /\ \A k \in Nat : k * SectorLen \in Nat /\ (k < Size => k * SectorLen < Length)
<1>1. Size \in Nat \ {0} /\ SectorLen \in Nat \ {0} /\ LastLen \in 1..SectorLen
  BY UpgradeAssumption
<1>2. (Size - 1) * SectorLen \in Nat /\ Size * SectorLen = (Size - 1) * SectorLen + SectorLen
  BY <1>1
<1>3. ASSUME NEW k \in Nat
      PROVE  k * SectorLen \in Nat /\ (k < Size => k * SectorLen <= (Size - 1) * SectorLen)
  <2>1. ASSUME k < Size PROVE k * SectorLen <= (Size - 1) * SectorLen
    <3>1. PICK d \in Nat : Size - 1 = k + d
      <4>1. Size - 1 - k \in Nat /\ Size - 1 = k + (Size - 1 - k)
        BY <1>1, <2>1
      <4> QED BY <4>1
    <3>2. (Size - 1) * SectorLen = k * SectorLen + d * SectorLen /\ d * SectorLen \in Nat
      BY <1>1, <3>1
    <3> QED BY <1>1, <3>2
  <2> QED BY <1>1, <2>1
<1> QED BY <1>1, <1>2, <1>3 DEF Length

LEMMA NoFileIs ==
    /\ NoFile \in Files
    /\ NoFile.downloaded = 0 /\ NoFile.counter = 0 /\ ~NoFile.short
    /\ 0 < Size /\ 0 * SectorLen = 0
BY LengthIs, UpgradeAssumption DEF NoFile, Files

\* A package that was stored keeps the counts in step.
LEMMA CountedKeeps ==
    ASSUME LoadOK, NEW n \in 0..SectorLen, Counted(n)
    PROVE  index' \in 0..Size /\ index <= index' /\ file' \in Files /\ (InStep => InStep')
<1>1. PICK i \in 0..Size : i = index
  BY DEF LoadOK
<1>2. PICK d \in 0..Length + 1 : d = file.downloaded
  BY DEF LoadOK, Files
<1>3. PICK c \in 0..Size : c = file.counter
  BY DEF LoadOK, Files
<1>4. /\ Size \in Nat \ {0} /\ SectorLen \in Nat \ {0} /\ LastLen \in 1..SectorLen
      /\ Length \in Nat \ {0} /\ Length = (Size - 1) * SectorLen + LastLen
  BY UpgradeAssumption, LengthIs DEF Length
<1> DEFINE j == IF i + 1 < Size THEN i + 1 ELSE Size
           e == IF d + n < Length + 1 THEN d + n ELSE Length + 1
           k == IF c + 1 < Size THEN c + 1 ELSE Size
           b == file.short \/ n < (IF i = Size - 1 THEN LastLen ELSE SectorLen)
<1>5. /\ j \in 0..Size /\ i <= j /\ e \in 0..Length + 1 /\ k \in 0..Size /\ b \in BOOLEAN
      /\ c = i => k = j
  BY <1>4
<1>6. /\ index' = j
      /\ file' = [started |-> TRUE, length |-> Length, downloaded |-> e, counter |-> k, short |-> b]
  BY <1>1, <1>2, <1>3 DEF Counted, Capped, Sum
<1>7. file' \in Files
  <2> HIDE DEF e, k, b
  <2> QED BY <1>5, <1>6 DEF Files
<1>8. ASSUME InStep PROVE InStep'
  <2>1. /\ c = i /\ (i < Size => d <= i * SectorLen)
        /\ ~file.short => IF i < Size THEN d = i * SectorLen ELSE d >= Length
    BY <1>1, <1>2, <1>3, <1>8 DEF InStep
  <2>2. /\ i * SectorLen \in Nat /\ (i + 1) * SectorLen = i * SectorLen + SectorLen
        /\ i + 1 < Size => (i + 1) * SectorLen < Length
    BY <1>4, LengthIs
  <2>3. j < Size => e <= j * SectorLen
    <3>1. CASE i + 1 < Size
      <4>1. d + n <= (i + 1) * SectorLen /\ d + n < Length
        BY <1>4, <2>1, <2>2, <3>1
      <4> QED BY <1>4, <3>1, <4>1
    <3> QED BY <1>4, <3>1
  <2>4. ASSUME ~b PROVE IF j < Size THEN e = j * SectorLen ELSE e >= Length
    <3>1. CASE i + 1 < Size
      <4>1. n = SectorLen /\ d = i * SectorLen
        BY <1>4, <2>1, <2>4, <3>1
      <4> QED BY <1>4, <2>2, <3>1, <4>1
    <3>2. CASE i = Size - 1
      <4>1. n >= LastLen /\ d = (Size - 1) * SectorLen
        BY <1>4, <2>1, <2>4, <3>2
      <4> QED BY <1>4, <3>2, <4>1
    <3>3. CASE i = Size
      BY <1>4, <2>1, <2>4, <3>3
    <3> QED BY <1>4, <3>1, <3>2, <3>3
  <2>5. /\ index' = j /\ file'.counter = k /\ file'.downloaded = e /\ file'.short = b /\ k = j
    BY <1>5, <1>6, <2>1
  <2> HIDE DEF j, e, k, b
  <2> QED BY <2>3, <2>4, <2>5 DEF InStep
<1> QED BY <1>1, <1>5, <1>6, <1>7, <1>8

LEMMA TypeParts == TypeOK <=> FlashOK /\ InfoOK /\ LoadOK /\ ConnOK /\ QueueOK
BY DEF TypeOK, FlashOK, InfoOK, LoadOK, ConnOK, QueueOK

LEMMA UnchangedParts ==
    ASSUME TypeOK
    PROVE  /\ UNCHANGED flashVars => FlashOK'
           /\ UNCHANGED infoVars => InfoOK'
           /\ UNCHANGED loadVars => LoadOK'
           /\ UNCHANGED connVars => ConnOK'
<1>1. FlashOK /\ InfoOK /\ LoadOK /\ ConnOK
  BY TypeParts
<1> QED BY <1>1 DEF FlashOK, InfoOK, LoadOK, ConnOK, flashVars, infoVars, loadVars, connVars

LEMMA TypePartsNext == FlashOK' /\ InfoOK' /\ LoadOK' /\ ConnOK' /\ QueueOK' => TypeOK'
BY DEF TypeOK, FlashOK, InfoOK, LoadOK, ConnOK, QueueOK

------------------------------------------------------------------------------
\* The events r hold no request and no success that q does not.
Calm(q, r) ==
    /\ \A e \in {"ENTER", "OK"} : Has(r, e) => Has(q, e)
    /\ Has(q, "ENTER") => Has(r, "ENTER")
    /\ (\A i, j \in 1..Len(q) : q[i] = "ENTER" /\ q[j] = "ENTER" => i = j)
           => \A i, j \in 1..Len(r) : r[i] = "ENTER" /\ r[j] = "ENTER" => i = j

LEMMA TailIs ==
    ASSUME NEW S, NEW q \in Seq(S), q # <<>>
    PROVE  /\ Tail(q) \in Seq(S) /\ Len(q) \in Nat \ {0} /\ Len(Tail(q)) = Len(q) - 1
           /\ Head(q) = q[1] /\ q[1] \in S
           /\ \A i \in 1..Len(Tail(q)) : i + 1 \in 2..Len(q) /\ Tail(q)[i] = q[i + 1]
OBVIOUS

LEMMA AppendIs ==
    ASSUME NEW S, NEW q \in Seq(S), NEW e \in S
    PROVE  /\ Append(q, e) \in Seq(S) /\ Len(q) \in Nat /\ Len(Append(q, e)) = Len(q) + 1
           /\ \A i \in 1..Len(q) : Append(q, e)[i] = q[i]
           /\ Append(q, e)[Len(q) + 1] = e
OBVIOUS

LEMMA HasTail ==
    ASSUME NEW q \in Seq(Event), q # <<>>, NEW e, Has(Tail(q), e)
    PROVE  Has(q, e)
<1>1. \A i \in 1..Len(Tail(q)) : i + 1 \in 1..Len(q) /\ Tail(q)[i] = q[i + 1]
  BY TailIs
<1> QED BY <1>1 DEF Has

LEMMA CalmTail ==
    ASSUME NEW q \in Seq(Event), q # <<>>, Head(q) # "ENTER"
    PROVE  Calm(q, Tail(q))
<1>1. /\ Len(q) \in Nat \ {0} /\ Len(Tail(q)) = Len(q) - 1 /\ q[1] # "ENTER"
      /\ \A i \in 1..Len(Tail(q)) : i + 1 \in 1..Len(q) /\ Tail(q)[i] = q[i + 1]
  BY TailIs
<1>2. \A i \in 1..Len(q) : i = 1 \/ (i - 1 \in 1..Len(Tail(q)) /\ Tail(q)[i - 1] = q[i])
  BY <1>1
<1>3. Has(q, "ENTER") => Has(Tail(q), "ENTER")
  BY <1>1, <1>2 DEF Has
<1>4. (\A i, j \in 1..Len(q) : q[i] = "ENTER" /\ q[j] = "ENTER" => i = j)
          => \A i, j \in 1..Len(Tail(q)) : Tail(q)[i] = "ENTER" /\ Tail(q)[j] = "ENTER" => i = j
  BY <1>1
<1> QED BY <1>3, <1>4, HasTail DEF Calm

LEMMA HasAppend ==
    ASSUME NEW q \in Seq(Event), NEW x \in Event
    PROVE  \A e : Has(Append(q, x), e) <=> Has(q, e) \/ x = e
<1> DEFINE r == Append(q, x)
<1>1. /\ Len(q) \in Nat /\ Len(r) = Len(q) + 1 /\ r[Len(q) + 1] = x
      /\ \A i \in 1..Len(q) : r[i] = q[i] /\ i \in 1..Len(r)
  BY AppendIs
<1>2. Len(q) + 1 \in 1..Len(r) /\ \A i \in 1..Len(r) : i \in 1..Len(q) \/ i = Len(q) + 1
  BY <1>1
<1> HIDE DEF r
<1>3. \A e : Has(r, e) <=> Has(q, e) \/ x = e
  BY <1>1, <1>2 DEF Has
<1> QED BY <1>3 DEF r

LEMMA CalmAppend ==
    ASSUME NEW q \in Seq(Event), NEW x \in Event \ {"ENTER", "OK"}
    PROVE  Calm(q, Append(q, x))
<1> DEFINE r == Append(q, x)
<1>1. /\ Len(q) \in Nat /\ Len(r) = Len(q) + 1 /\ r[Len(q) + 1] # "ENTER"
      /\ \A i \in 1..Len(q) : r[i] = q[i]
  BY AppendIs
<1>2. \A i \in 1..Len(r) : i \in 1..Len(q) \/ i = Len(q) + 1
  BY <1>1
<1>3. \A e : Has(r, e) <=> Has(q, e) \/ x = e
  BY HasAppend
<1> HIDE DEF r
<1>4. (\A i, j \in 1..Len(q) : q[i] = "ENTER" /\ q[j] = "ENTER" => i = j)
          => \A i, j \in 1..Len(r) : r[i] = "ENTER" /\ r[j] = "ENTER" => i = j
  BY <1>1, <1>2
<1>5. Calm(q, r)
  BY <1>3, <1>4 DEF Calm
<1> QED BY <1>5 DEF r

LEMMA CalmTwice ==
    ASSUME NEW q, NEW r, NEW s, Calm(q, r), Calm(r, s)
    PROVE  Calm(q, s)
BY DEF Calm

LEMMA PostIs ==
    ASSUME NEW q \in Seq(Event), Len(q) < MaxBacklog, NEW e \in Event, Post(q, e)
    PROVE  events' = Append(q, e) /\ events' \in Seq(Event) /\ Len(events') <= MaxBacklog
BY UpgradeAssumption, AppendIs DEF Post

LEMMA Taken ==
    ASSUME TypeOK, NEW e, Take(e)
    PROVE  /\ events \in Seq(Event) /\ events # <<>> /\ Head(events) = e /\ Has(events, e)
           /\ Tail(events) \in Seq(Event) /\ Len(Tail(events)) < MaxBacklog
           /\ Len(Tail(events)) <= MaxBacklog
<1>1. events \in Seq(Event) /\ events # <<>> /\ Len(events) <= MaxBacklog /\ Head(events) = e
  BY DEF TypeOK, Take
<1>2. /\ Tail(events) \in Seq(Event) /\ Len(Tail(events)) = Len(events) - 1
      /\ Head(events) = events[1] /\ 1 \in 1..Len(events) /\ Len(events) \in Nat \ {0}
  BY <1>1, TailIs
<1> QED BY <1>1, <1>2, UpgradeAssumption DEF Has

SameCounts == UNCHANGED <<file.downloaded, file.counter, file.short>>

\* A step that neither requests, nor writes, nor restarts.
LEMMA CalmKeeps ==
    ASSUME UpgradeInv, UNCHANGED <<running, sector, info, buffers, flag, index>>,
           SameCounts, Calm(events, events'),
           \A code \in Code : Has(events', code) => Has(events, code) \/ buffers,
           "enter" \in timers' <=> "enter" \in timers,
           "progress" \in timers' => "progress" \in timers,
           Restarting' => Restarting
    PROVE  InOrder'
<1>1. Underway'
  BY DEF UpgradeInv, InOrder, Underway, Newer
<1>2. ASSUME OneAtATime PROVE InStep' /\ EnterOnce' /\ StillHolds'
  <2>1. EnterOnce'
    BY <1>2 DEF UpgradeInv, InOrder, EnterOnce, Waiting, Calm
  <2>2. StillHolds'
    BY <1>2 DEF UpgradeInv, InOrder, StillHolds, Holds, Newer, Calm
  <2>3. InStep'
    BY <1>2 DEF UpgradeInv, InOrder, InStep, SameCounts
  <2> QED BY <2>1, <2>2, <2>3
<1> QED BY <1>1, <1>2 DEF UpgradeInv, InOrder

------------------------------------------------------------------------------
\* A reset, from whatever it leaves of the flash.
LEMMA PowerOnKeeps == ASSUME PowerOn, FlashOK' PROVE UpgradeInv'
<1>1. /\ info' = None /\ auto' = FALSE
      /\ buffers' = FALSE /\ flag' = FALSE /\ file' = NoFile /\ index' = 0 /\ tries' = 0
      /\ conn' = "none" /\ asked' = <<>> /\ old' = FALSE /\ stray' = {}
      /\ events' = <<>> /\ timers' = {}
  BY DEF PowerOn
<1>2. InfoOK' /\ ConnOK'
  <2>1. auto' \in BOOLEAN /\ old' \in BOOLEAN
    BY <1>1
  <2>2. asked' \in Seq(Asked) /\ stray' \subseteq Asked
    BY <1>1
  <2> QED BY <1>1, <2>1, <2>2 DEF InfoOK, ConnOK
<1>3. LoadOK'
  <2>1. NoFile \in Files
    BY NoFileIs
  <2>2. buffers' \in BOOLEAN /\ flag' \in BOOLEAN
    BY <1>1
  <2>3. index' \in 0..Size /\ tries' \in 0..Tries
    BY <1>1, UpgradeAssumption
  <2> QED BY <1>1, <2>1, <2>2, <2>3 DEF LoadOK
<1>4. QueueOK'
  BY <1>1, UpgradeAssumption DEF QueueOK
<1>5. TypeOK'
  BY <1>2, <1>3, <1>4, TypePartsNext
<1>6. Len(events') = 0 /\ ~Has(events, "ENTER")' /\ ~Waiting' /\ ~Restarting' /\ "progress" \notin timers'
  BY <1>1 DEF Has, Waiting, Restarting
<1>7. Underway' /\ EnterOnce' /\ StillHolds'
  BY <1>1, <1>6 DEF Underway, EnterOnce, StillHolds
<1>8. InStep'
  BY <1>1, NoFileIs DEF InStep
<1> QED BY <1>1, <1>5, <1>7, <1>8 DEF UpgradeInv, InOrder

LEMMA UpgradeInvInit == Init => UpgradeInv
<1> SUFFICES ASSUME Init PROVE UpgradeInv
  OBVIOUS
<1>1. /\ running = 0 /\ sector = [k \in 0..Size - 1 |-> Junk] /\ new_bin = None
      /\ info = None /\ auto = FALSE
      /\ buffers = FALSE /\ flag = FALSE /\ file = NoFile /\ index = 0 /\ tries = 0
      /\ conn = "none" /\ asked = <<>> /\ old = FALSE /\ stray = {}
      /\ events = <<>> /\ timers = {} /\ Len(events) = 0
  BY DEF Init
<1>2. FlashOK
  BY <1>1, UpgradeAssumption DEF FlashOK, Version
<1>3. InfoOK /\ ConnOK
  <2>1. auto \in BOOLEAN /\ old \in BOOLEAN
    BY <1>1
  <2>2. asked \in Seq(Asked) /\ stray \subseteq Asked
    BY <1>1
  <2> QED BY <1>1, <2>1, <2>2 DEF InfoOK, ConnOK
<1>4. LoadOK
  <2>1. NoFile \in Files
    BY NoFileIs
  <2>2. buffers \in BOOLEAN /\ flag \in BOOLEAN
    BY <1>1
  <2>3. index \in 0..Size /\ tries \in 0..Tries
    BY <1>1, UpgradeAssumption
  <2> QED BY <1>1, <2>1, <2>2, <2>3 DEF LoadOK
<1>5. QueueOK
  BY <1>1, UpgradeAssumption DEF QueueOK
<1>6. TypeOK
  BY <1>2, <1>3, <1>4, <1>5, TypeParts
<1>7. ~Has(events, "ENTER") /\ ~Waiting /\ ~Restarting /\ "progress" \notin timers
  BY <1>1 DEF Has, Waiting, Restarting
<1>8. Underway /\ EnterOnce /\ StillHolds
  BY <1>1, <1>7 DEF Underway, EnterOnce, StillHolds
<1>9. InStep
  BY <1>1, NoFileIs DEF InStep
<1> QED BY <1>1, <1>6, <1>8, <1>9 DEF UpgradeInv, InOrder

LEMMA ResetStep ==
    ASSUME UpgradeInv, NullPointer \/ EndlessVerify \/ Reboot \/ PowerLoss
    PROVE  UpgradeInv'
<1>1. TypeOK /\ FlashOK
  BY TypeParts DEF UpgradeInv
<1>2. PowerOn
  BY DEF NullPointer, EndlessVerify, Reboot, PowerLoss, Reset
<1>3. CASE NullPointer \/ EndlessVerify
  <2>1. UNCHANGED flashVars
    BY <1>3 DEF NullPointer, EndlessVerify, Reset
  <2> QED BY <1>1, <1>2, <2>1, UnchangedParts, PowerOnKeeps
<1>4. CASE PowerLoss
  <2>1. /\ running' = running /\ new_bin' = new_bin
        /\ sector' = sector \/ sector' = [sector EXCEPT ![index] = Junk]
    BY <1>4 DEF PowerLoss
  <2>2. FlashOK'
    BY <1>1, <2>1 DEF FlashOK
  <2> QED BY <1>2, <2>2, PowerOnKeeps
<1>5. CASE Reboot
  <2>1. /\ running' = IF \E v \in Version : Holds(v) THEN sector[0][1] ELSE Junk
        /\ sector' = Image(running) /\ new_bin' = None /\ running # Junk
    BY <1>5 DEF Reboot, UpgradeInv, InOrder, Underway, Restarting
  <2>2. running' \in Version \cup {Junk}
    <3>1. ASSUME NEW v \in Version, Holds(v) PROVE sector[0][1] \in Version
      BY <3>1, UpgradeAssumption DEF Holds, Image
    <3> QED BY <2>1, <3>1
  <2>3. sector' \in [0..Size - 1 -> Part \cup {Junk}]
    BY <1>1, <2>1 DEF Image, Part, FlashOK
  <2>4. FlashOK'
    BY <2>1, <2>2, <2>3 DEF FlashOK
  <2> QED BY <1>2, <2>4, PowerOnKeeps
<1> QED BY <1>3, <1>4, <1>5

------------------------------------------------------------------------------
\* A request, and its way to the start.
LEMMA RequestStep ==
    ASSUME UpgradeInv, Len(events) < MaxBacklog, NEW v \in Version, NEW a \in BOOLEAN, ProcessRequest(v, a)
    PROVE  UpgradeInv'
<1>1. /\ TypeOK /\ InOrder /\ FlashOK /\ LoadOK /\ ConnOK /\ InfoOK /\ QueueOK
  BY TypeParts DEF UpgradeInv
<1>2. /\ OneAtATime => Idle
      /\ Newer(v) /\ info' = v /\ auto' = a
      /\ timers' = (timers \ {}) \cup {"enter"} /\ events' = events
      /\ UNCHANGED <<flashVars, loadVars, connVars>>
  BY DEF ProcessRequest, Timers
<1>3. TypeOK'
  <2>1. InfoOK'
    BY <1>2 DEF InfoOK
  <2>2. QueueOK'
    BY <1>1, <1>2 DEF QueueOK, Timer
  <2> QED BY <1>1, <1>2, <2>1, <2>2, UnchangedParts, TypePartsNext
<1>4. UNCHANGED <<running, sector, buffers, flag, file, index>>
  BY <1>2 DEF flashVars, loadVars
<1>5. Underway'
  <2>1. info' # None
    BY <1>2, UpgradeAssumption DEF Version
  <2>2. Restarting' <=> Restarting
    BY <1>2 DEF Restarting
  <2>3. "progress" \in timers' <=> "progress" \in timers
    BY <1>2
  <2> QED BY <1>1, <1>2, <1>4, <2>1, <2>2, <2>3 DEF InOrder, Underway, Newer
<1>6. ASSUME OneAtATime PROVE EnterOnce' /\ StillHolds' /\ info' # None
  <2>1. info = None /\ events = <<>> /\ ~Restarting /\ Len(events) = 0
    BY <1>2, <1>6 DEF Idle, Restarting
  <2>2. ~buffers' /\ index' = 0 /\ info' # None
    BY <1>1, <1>2, <1>4, <1>6, <2>1, UpgradeAssumption DEF InOrder, Version
  <2>3. \A e : ~Has(events, e)'
    BY <1>2, <2>1 DEF Has
  <2>4. ~Restarting'
    BY <1>2, <2>1 DEF Restarting
  <2> QED BY <1>2, <2>1, <2>2, <2>3, <2>4 DEF EnterOnce, StillHolds
<1>7. OneAtATime => InStep'
  BY <1>1, <1>4 DEF InOrder, InStep
<1> QED BY <1>3, <1>5, <1>6, <1>7 DEF UpgradeInv, InOrder

LEMMA EnterTimerStep ==
    ASSUME UpgradeInv, Len(events) < MaxBacklog, EnterTimer
    PROVE  UpgradeInv'
<1>1. /\ TypeOK /\ InOrder /\ QueueOK /\ events \in Seq(Event)
  BY TypeParts DEF UpgradeInv, QueueOK
<1>2. /\ "enter" \in timers /\ timers' = (timers \ {"enter"}) \cup {}
      /\ Post(events, "ENTER") /\ UNCHANGED <<flashVars, infoVars, loadVars, connVars>>
  BY DEF EnterTimer, Timers
<1>3. events' = Append(events, "ENTER") /\ events' \in Seq(Event) /\ Len(events') <= MaxBacklog
  BY <1>1, <1>2, PostIs DEF Event
<1>4. TypeOK'
  <2>1. QueueOK'
    BY <1>1, <1>2, <1>3 DEF QueueOK
  <2> QED BY <1>1, <1>2, <2>1, UnchangedParts, TypePartsNext
<1>5. UNCHANGED <<running, sector, info, buffers, flag, file, index>>
  BY <1>2 DEF flashVars, infoVars, loadVars
<1>6. /\ (Restarting' <=> Restarting) /\ "enter" \notin timers'
      /\ "progress" \in timers' <=> "progress" \in timers
  BY <1>2 DEF Restarting
<1>7. Underway'
  BY <1>1, <1>5, <1>6 DEF InOrder, Underway, Newer
<1>8. ASSUME OneAtATime PROVE EnterOnce' /\ StillHolds'
  <2>1. EnterOnce /\ StillHolds /\ ~Has(events, "ENTER") /\ Waiting
    BY <1>1, <1>2, <1>8 DEF InOrder, EnterOnce, Waiting
  <2>2. \A code \in Code : Has(events, code)' <=> Has(events, code)
    BY <1>1, <1>3, HasAppend DEF Event, Code
  <2>3. \A i, j \in 1..Len(events') : events'[i] = "ENTER" /\ events'[j] = "ENTER" => i = j
    <3>1. /\ Len(events) \in Nat /\ Len(events') = Len(events) + 1
          /\ \A i \in 1..Len(events) : events'[i] = events[i] /\ events[i] # "ENTER"
      BY <1>1, <1>3, <2>1, AppendIs DEF Has, Event
    <3>2. \A i \in 1..Len(events') : i \in 1..Len(events) \/ i = Len(events) + 1
      BY <3>1
    <3> QED BY <3>1, <3>2
  <2>4. EnterOnce'
    BY <1>5, <1>6, <2>1, <2>2, <2>3 DEF EnterOnce
  <2>5. StillHolds'
    BY <1>5, <1>6, <2>1, <2>2 DEF StillHolds, Holds, Newer, Code
  <2> QED BY <2>4, <2>5
<1>9. OneAtATime => InStep'
  BY <1>1, <1>5 DEF InOrder, InStep
<1> QED BY <1>1, <1>4, <1>5, <1>7, <1>8, <1>9 DEF UpgradeInv, InOrder

LEMMA ConnectKeeps == ASSUME ConnOK, ConnectToDownloadServer PROVE ConnOK'
<1>1. /\ conn' = "connecting" /\ old' = (old \/ conn # "none") /\ asked' = <<>>
      /\ stray' = stray \cup {asked[n] : n \in 1..Len(asked)}
  BY DEF ConnectToDownloadServer
<1>2. asked \in Seq(Asked) /\ stray \subseteq Asked
  BY DEF ConnOK
<1>3. \A n \in 1..Len(asked) : asked[n] \in Asked
  BY <1>2
<1>4. stray' \subseteq Asked
  BY <1>1, <1>2, <1>3
<1>5. old' \in BOOLEAN
  BY <1>1
<1>6. asked' \in Seq(Asked)
  BY <1>1
<1> QED BY <1>1, <1>4, <1>5, <1>6 DEF ConnOK

LEMMA StartStep == ASSUME UpgradeInv, Start PROVE UpgradeInv'
<1>1. /\ TypeOK /\ InOrder /\ FlashOK /\ LoadOK /\ ConnOK /\ InfoOK /\ QueueOK
  BY TypeParts DEF UpgradeInv
<1>2. /\ Take("ENTER") /\ info # None
      /\ buffers' = TRUE /\ flag' = TRUE /\ file' = NoFile /\ tries' = 0
      /\ ConnectToDownloadServer
      /\ timers' = (timers \ {}) \cup {"progress"}
      /\ events' = Tail(events)
      /\ UNCHANGED <<flashVars, infoVars, index>>
  BY DEF Start, Timers, NoPost
<1>3. /\ events \in Seq(Event) /\ events # <<>> /\ Head(events) = "ENTER" /\ Has(events, "ENTER")
      /\ Tail(events) \in Seq(Event) /\ Len(Tail(events)) <= MaxBacklog
  BY <1>1, <1>2, Taken
<1>4. TypeOK'
  <2>1. QueueOK'
    BY <1>1, <1>2, <1>3 DEF QueueOK, Timer
  <2>2. NoFile \in Files /\ 0 \in 0..Tries
    BY UpgradeAssumption, NoFileIs
  <2>3. LoadOK'
    BY <1>1, <1>2, <2>2 DEF LoadOK
  <2> QED BY <1>1, <1>2, <2>1, <2>3, ConnectKeeps, UnchangedParts, TypePartsNext
<1>5. UNCHANGED <<running, sector, info, index>>
  BY <1>2 DEF flashVars, infoVars
<1>6. (Restarting' <=> Restarting) /\ ("enter" \in timers' <=> "enter" \in timers)
  BY <1>2 DEF Restarting
<1>7. Underway'
  BY <1>1, <1>2, <1>5, <1>6 DEF InOrder, Underway, Newer
<1>8. ASSUME OneAtATime PROVE EnterOnce' /\ StillHolds' /\ InStep'
  <2>1. /\ EnterOnce /\ StillHolds /\ Waiting /\ index = 0 /\ "enter" \notin timers
    BY <1>1, <1>3, <1>8 DEF InOrder, EnterOnce, Waiting
  <2>2. /\ \A i \in 1..Len(Tail(events)) : i + 1 \in 1..Len(events) /\ Tail(events)[i] = events[i + 1] /\ i + 1 # 1
        /\ events[1] = "ENTER" /\ 1 \in 1..Len(events)
    BY <1>3, TailIs
  <2>3. ~Has(Tail(events), "ENTER")
    BY <2>1, <2>2 DEF EnterOnce, Has
  <2>4. ~Has(events, "OK")
    <3>1. ~(index >= Size)
      BY <2>1, UpgradeAssumption
    <3> QED BY <1>2, <2>1, <3>1 DEF StillHolds
  <2>5. ~Has(Tail(events), "OK")
    BY <1>3, <2>4, HasTail
  <2>6. ~Waiting'
    BY <1>2, <1>6, <2>1, <2>3 DEF Waiting
  <2>7. EnterOnce'
    BY <1>2, <2>3, <2>6 DEF EnterOnce, Waiting, Has
  <2>8. StillHolds'
    BY <1>2, <1>5, <1>6, <2>1, <2>5 DEF StillHolds
  <2>9. InStep'
    BY <1>2, <1>5, <2>1, NoFileIs DEF InStep
  <2> QED BY <2>7, <2>8, <2>9
<1> QED BY <1>2, <1>4, <1>5, <1>7, <1>8 DEF UpgradeInv, InOrder

\* A restart into the image that was recorded.
LEMMA RestartStep == ASSUME UpgradeInv, RestartForNewBin PROVE UpgradeInv'
<1>1. /\ TypeOK /\ InOrder /\ QueueOK /\ FlashOK
  BY TypeParts DEF UpgradeInv
<1>2. /\ OneAtATime => Idle
      /\ NewBinOk /\ timers' = (timers \ {}) \cup {"restart"}
      /\ UNCHANGED <<flashVars, infoVars, loadVars, connVars, events>>
  BY DEF RestartForNewBin, Timers
<1>3. TypeOK'
  <2>1. QueueOK'
    BY <1>1, <1>2 DEF QueueOK, Timer
  <2> QED BY <1>1, <1>2, <2>1, UnchangedParts, TypePartsNext
<1>4. UNCHANGED <<running, sector, info, buffers, flag, file, index, events>>
  BY <1>2 DEF flashVars, infoVars, loadVars
<1>5. running # Junk /\ new_bin \in Version /\ Newer(new_bin) /\ Holds(new_bin)
  BY <1>1, <1>2 DEF NewBinOk, Newer, FlashOK
<1>6. Underway'
  BY <1>1, <1>2, <1>4, <1>5 DEF InOrder, Underway, Newer
<1>7. ASSUME OneAtATime PROVE EnterOnce' /\ StillHolds'
  <2>1. EnterOnce /\ StillHolds /\ info = None
    BY <1>1, <1>2, <1>7 DEF InOrder, Idle
  <2>2. "enter" \in timers' <=> "enter" \in timers
    BY <1>2
  <2>3. EnterOnce'
    BY <1>4, <2>1, <2>2 DEF EnterOnce, Waiting
  <2>4. StillHolds'
    BY <1>4, <1>5, <2>1 DEF StillHolds, Holds, Newer
  <2> QED BY <2>3, <2>4
<1>8. OneAtATime => InStep'
  BY <1>1, <1>4 DEF InOrder, InStep
<1> QED BY <1>1, <1>3, <1>4, <1>6, <1>7, <1>8 DEF UpgradeInv, InOrder

LEMMA CappedIs == \A top \in Nat : \A n \in 0..top : Capped(n, top) \in 0..top /\ n <= Capped(n, top)
BY DEF Capped, Sum

\* The end of an upgrade: only a verified image is recorded and started.
LEMMA StopStep == ASSUME UpgradeInv, NEW code \in Code, Stop(code) PROVE UpgradeInv'
<1>1. /\ TypeOK /\ InOrder /\ FlashOK /\ LoadOK /\ ConnOK /\ InfoOK /\ QueueOK
  BY TypeParts DEF UpgradeInv
<1>2. /\ Take(code) /\ info # None
      /\ new_bin' = (IF code = "OK" THEN info ELSE new_bin)
      /\ timers' = (timers \ {"again", "progress"}) \cup (IF code = "OK" /\ auto THEN {"reboot"} ELSE {})
      /\ conn' = (IF conn = "up" THEN "closing" ELSE conn)
      /\ info' = None /\ auto' = FALSE
      /\ buffers' = FALSE /\ flag' = FALSE /\ file' = NoFile /\ index' = 0 /\ tries' = 0
      /\ events' = Tail(events)
      /\ UNCHANGED <<running, sector, asked, old, stray>>
  BY DEF Stop, Timers, NoPost
<1>3. /\ events \in Seq(Event) /\ events # <<>> /\ Head(events) = code /\ Has(events, code)
      /\ Tail(events) \in Seq(Event) /\ Len(Tail(events)) <= MaxBacklog
  BY <1>1, <1>2, Taken
<1>4. TypeOK'
  <2>1. FlashOK'
    BY <1>1, <1>2 DEF FlashOK, InfoOK
  <2>2. InfoOK'
    <3>1. auto' \in BOOLEAN
      BY <1>2
    <3> QED BY <1>2, <3>1 DEF InfoOK
  <2>3. LoadOK'
    <3>1. NoFile \in Files
      BY NoFileIs
    <3>2. buffers' \in BOOLEAN /\ flag' \in BOOLEAN
      BY <1>2
    <3>3. index' \in 0..Size /\ tries' \in 0..Tries
      BY <1>2, UpgradeAssumption
    <3> QED BY <1>2, <3>1, <3>2, <3>3 DEF LoadOK
  <2>4. ConnOK'
    <3>1. conn' \in {"none", "connecting", "up", "closing"}
      BY <1>1, <1>2 DEF ConnOK
    <3> QED BY <1>1, <1>2, <3>1 DEF ConnOK
  <2>5. QueueOK'
    BY <1>1, <1>2, <1>3 DEF QueueOK, Timer
  <2> QED BY <2>1, <2>2, <2>3, <2>4, <2>5, TypePartsNext
<1>5. Newer(info) /\ info \in Version
  BY <1>1, <1>2 DEF InOrder, Underway, InfoOK
<1>6. Underway'
  BY <1>1, <1>2, <1>5 DEF InOrder, Underway, Newer, Restarting
<1>7. ASSUME OneAtATime PROVE EnterOnce' /\ StillHolds'
  <2>1. EnterOnce /\ StillHolds /\ ("enter" \in timers' <=> "enter" \in timers)
    BY <1>1, <1>2, <1>7 DEF InOrder
  <2>2. ~Restarting
    BY <1>2, <2>1 DEF StillHolds
  <2>3. ~Waiting
    BY <1>3, <2>1 DEF EnterOnce
  <2>4. ~Waiting' /\ ~Has(Tail(events), "ENTER") /\ "progress" \notin timers'
    BY <1>2, <1>3, <2>1, <2>3, HasTail DEF Waiting
  <2>5. EnterOnce'
    BY <1>2, <2>4 DEF EnterOnce, Waiting, Has
  <2>6. Restarting' => Holds(info)
    <3>1. Restarting' => code = "OK"
      BY <1>2, <2>2 DEF Restarting
    <3> QED BY <1>2, <1>3, <2>1, <3>1 DEF StillHolds
  <2>7. StillHolds'
    BY <1>2, <1>5, <2>6 DEF StillHolds, Holds, Newer
  <2> QED BY <2>5, <2>7
<1>8. InStep'
  BY <1>2, NoFileIs DEF InStep
<1> QED BY <1>2, <1>4, <1>6, <1>7, <1>8 DEF UpgradeInv, InOrder

\* What is written goes on where the image ended, which a verified one does
\* not; the digest is checked of what was written.
LEMMA WriteKeeps ==
    ASSUME UpgradeInv, UNCHANGED <<running, info, buffers, flag, timers>>, buffers,
           index' \in Nat, index <= index', sector' = sector \/ index < Size,
           OneAtATime => InStep',
           Has(events', "ENTER") => Has(events, "ENTER"),
           OneAtATime /\ Has(events', "OK") => Has(events, "OK") \/ (index' >= Size /\ sector' = Image(info))
    PROVE  InOrder'
<1>1. Underway'
  BY DEF UpgradeInv, InOrder, Underway, Newer, Restarting
<1>2. ASSUME OneAtATime PROVE EnterOnce' /\ StillHolds' /\ info' # None
  <2>1. EnterOnce /\ StillHolds /\ info # None /\ ~Waiting /\ ~Restarting
    BY <1>2 DEF UpgradeInv, InOrder, EnterOnce, StillHolds
  <2>2. ~Waiting' /\ ~Has(events, "ENTER")'
    BY <2>1 DEF Waiting
  <2>3. EnterOnce'
    BY <2>1, <2>2 DEF EnterOnce, Waiting, Has
  <2>4. index \in Int /\ index' \in Int /\ Size \in Int
    BY <1>2, UpgradeAssumption DEF UpgradeInv, TypeOK
  <2>5. ASSUME Has(events', "OK") PROVE index' >= Size /\ sector' = Image(info)
    <3>1. CASE Has(events, "OK")
      <4>1. index >= Size /\ sector = Image(info)
        BY <2>1, <3>1 DEF StillHolds, Holds
      <4> QED BY <4>1, <2>4
    <3> QED BY <1>2, <2>5, <3>1
  <2>6. StillHolds'
    BY <2>1, <2>5 DEF StillHolds, Holds, Restarting
  <2> QED BY <2>1, <2>3, <2>6
<1> QED BY <1>1, <1>2 DEF UpgradeInv, InOrder

LEMMA AnsweredKeeps ==
    ASSUME ConnOK, UNCHANGED <<conn, old>>, \E r \in Asked : Answered(r)
    PROVE  ConnOK'
<1>1. PICK r \in Asked : Answered(r)
  OBVIOUS
<1>2. \/ asked # <<>> /\ asked' = Tail(asked) /\ stray' = stray
      \/ stray' = stray \ {r} /\ asked' = asked
  BY <1>1 DEF Answered
<1>3. asked' \in Seq(Asked) /\ stray' \subseteq Asked
  BY <1>2 DEF ConnOK
<1> QED BY <1>3 DEF ConnOK

\* A sector that arrives, good or bad.
LEMMA SectorStep == ASSUME UpgradeInv, Len(events) < MaxBacklog, SectorPackage PROVE UpgradeInv'
<1>1. /\ TypeOK /\ InOrder /\ FlashOK /\ LoadOK /\ ConnOK /\ InfoOK /\ QueueOK /\ events \in Seq(Event)
  BY TypeParts DEF UpgradeInv, QueueOK
<1>2. buffers /\ UNCHANGED <<running, new_bin, infoVars, buffers, flag, tries, conn, old, timers>>
  BY DEF SectorPackage
<1>0. PICK r \in Asked, n \in 0..SectorLen :
          Answered(r) /\ r[2] < Size /\ \E part \in {r, Junk} : Store(part, n)
  BY DEF SectorPackage
<1>3. PICK part \in {r, Junk} : Store(part, n)
  BY <1>0
<1> DEFINE e == IF file'.downloaded < Length THEN "GET"
                ELSE IF sector' = Image(info) THEN "OK" ELSE "DIGEST"
<1>4. /\ sector' = IF index < Size THEN [sector EXCEPT ![index] = part] ELSE sector
      /\ Counted(n)
      /\ Post(events, e)
  BY <1>3 DEF Store
<1>5. part \in Part \cup {Junk}
  <2>1. r[1] \in Version /\ r[2] \in 0..Size /\ r = <<r[1], r[2]>>
    BY DEF Asked
  <2>2. r[2] \in 0..Size - 1
    BY <1>0, <2>1, UpgradeAssumption
  <2> QED BY <2>1, <2>2 DEF Part
<1>6. e \in Event
  BY DEF Event, Code
<1>7. events' = Append(events, e) /\ events' \in Seq(Event) /\ Len(events') <= MaxBacklog
  BY <1>1, <1>4, <1>6, PostIs
<1>8. index' \in 0..Size /\ index <= index' /\ file' \in Files /\ (InStep => InStep')
  BY <1>1, <1>4, CountedKeeps
<1>9. TypeOK'
  <2>1. sector' \in [0..Size - 1 -> Part \cup {Junk}]
    BY <1>1, <1>4, <1>5 DEF FlashOK
  <2>2. FlashOK'
    BY <1>1, <1>2, <2>1 DEF FlashOK
  <2>3. LoadOK'
    BY <1>1, <1>2, <1>4, <1>8 DEF LoadOK
  <2>4. QueueOK'
    BY <1>1, <1>2, <1>7 DEF QueueOK
  <2> QED BY <1>0, <1>1, <1>2, <2>2, <2>3, <2>4, AnsweredKeeps, UnchangedParts, TypePartsNext
<1>10. InOrder'
  <2>1. OneAtATime => InStep'
    BY <1>1, <1>8 DEF InOrder
  <2>2. sector' = sector \/ index < Size
    BY <1>4
  <2>3. \A x : Has(events', x) <=> Has(events, x) \/ e = x
    BY <1>1, <1>6, <1>7, HasAppend
  <2>4. Has(events', "ENTER") => Has(events, "ENTER")
    BY <2>3
  <2>5. ASSUME Has(events', "OK"), ~Has(events, "OK"), OneAtATime
        PROVE  index' >= Size /\ sector' = Image(info)
    <3>1. e = "OK"
      BY <2>3, <2>5
    <3>2. ~(file'.downloaded < Length) /\ sector' = Image(info)
      BY <3>1
    <3>3. ~(index' < Size)
      <4>1. CASE index' < Size
        <5>1. /\ file'.downloaded <= index' * SectorLen /\ index' * SectorLen < Length
              /\ index' * SectorLen \in Int
          <6>1. InStep' /\ index' \in Nat
            BY <1>8, <2>1, <2>5, UpgradeAssumption
          <6>2. index' * SectorLen < Length /\ index' * SectorLen \in Nat
            BY <4>1, <6>1, LengthIs
          <6> QED BY <4>1, <6>1, <6>2 DEF InStep
        <5> QED BY <1>8, <3>2, <5>1, LengthIs DEF Files
      <4> QED BY <4>1
    <3>4. index' \in Int /\ Size \in Int
      BY <1>8, UpgradeAssumption
    <3> QED BY <3>2, <3>3, <3>4
  <2>6. index' \in Nat /\ index <= index'
    BY <1>8, UpgradeAssumption
  <2> QED BY <1>2, <2>1, <2>2, <2>4, <2>5, <2>6, WriteKeeps DEF infoVars
<1> QED BY <1>9, <1>10 DEF UpgradeInv

LEMMA FlashErrorStep == ASSUME UpgradeInv, Len(events) < MaxBacklog, FlashError PROVE UpgradeInv'
<1>1. /\ TypeOK /\ InOrder /\ FlashOK /\ LoadOK /\ ConnOK /\ InfoOK /\ QueueOK /\ events \in Seq(Event)
  BY TypeParts DEF UpgradeInv, QueueOK
<1>2. /\ buffers /\ \E r \in Asked : Answered(r)
      /\ sector' = (IF index < Size THEN [sector EXCEPT ![index] = Junk] ELSE sector)
      /\ file' = [file EXCEPT !.started = TRUE, !.length = Length]
      /\ Post(events, "DOWNLOAD")
      /\ UNCHANGED <<running, new_bin, infoVars, buffers, flag, index, tries, conn, old, timers>>
  BY DEF FlashError
<1>3. events' = Append(events, "DOWNLOAD") /\ events' \in Seq(Event) /\ Len(events') <= MaxBacklog
  BY <1>1, <1>2, PostIs DEF Event, Code
<1>4. file' \in Files /\ SameCounts
  BY <1>1, <1>2 DEF LoadOK, Files, SameCounts
<1>5. TypeOK'
  <2>1. sector' \in [0..Size - 1 -> Part \cup {Junk}]
    BY <1>1, <1>2 DEF FlashOK
  <2>2. FlashOK'
    BY <1>1, <1>2, <2>1 DEF FlashOK
  <2>3. LoadOK'
    BY <1>1, <1>2, <1>4 DEF LoadOK
  <2>4. QueueOK'
    BY <1>1, <1>2, <1>3 DEF QueueOK
  <2> QED BY <1>1, <1>2, <2>2, <2>3, <2>4, AnsweredKeeps, UnchangedParts, TypePartsNext
<1>6. InOrder'
  <2>1. OneAtATime => InStep'
    BY <1>1, <1>2, <1>4 DEF InOrder, InStep, SameCounts
  <2>2. sector' = sector \/ index < Size
    BY <1>2
  <2>3. \A x : Has(events', x) <=> Has(events, x) \/ "DOWNLOAD" = x
    BY <1>1, <1>3, HasAppend DEF Event, Code
  <2>4. index' \in Nat /\ index <= index'
    BY <1>1, <1>2, UpgradeAssumption DEF LoadOK
  <2> QED BY <1>2, <2>1, <2>2, <2>3, <2>4, WriteKeeps DEF infoVars
<1> QED BY <1>5, <1>6 DEF UpgradeInv

------------------------------------------------------------------------------
\* The steps that touch neither the request nor the flash.
CalmFrame ==
    /\ UNCHANGED <<running, sector, info, buffers, flag, index>>
    /\ SameCounts
    /\ "enter" \in timers' <=> "enter" \in timers
    /\ "progress" \in timers' => "progress" \in timers
    /\ Restarting' => Restarting

\* An event is taken, or one is posted, or both.
LEMMA CalmEvents ==
    ASSUME TypeOK,
           \/ UNCHANGED events
           \/ \E e \in Event \ {"ENTER"} : Take(e) /\ events' = Tail(events)
           \/ /\ Len(events) < MaxBacklog
              /\ \E x \in Event \ {"ENTER", "OK"} : Post(events, x) /\ (x \in Code => buffers)
           \/ \E e \in Event \ {"ENTER"}, x \in Event \ {"ENTER", "OK"} :
                  Take(e) /\ Post(Tail(events), x) /\ (x \in Code => buffers)
    PROVE  /\ Calm(events, events') /\ events' \in Seq(Event) /\ Len(events') <= MaxBacklog
           /\ \A code \in Code : Has(events', code) => Has(events, code) \/ buffers
<1>1. events \in Seq(Event) /\ Len(events) <= MaxBacklog
  BY DEF TypeOK
<1>2. CASE UNCHANGED events
  BY <1>1, <1>2 DEF Calm
<1>3. ASSUME NEW e \in Event \ {"ENTER"}, Take(e)
      PROVE  /\ Calm(events, Tail(events)) /\ Tail(events) \in Seq(Event) /\ Len(Tail(events)) < MaxBacklog
             /\ Len(Tail(events)) <= MaxBacklog
             /\ \A code : Has(Tail(events), code) => Has(events, code)
  <2>1. /\ events # <<>> /\ Head(events) # "ENTER"
        /\ Tail(events) \in Seq(Event) /\ Len(Tail(events)) < MaxBacklog /\ Len(Tail(events)) <= MaxBacklog
    BY <1>3, Taken
  <2> QED BY <1>1, <2>1, CalmTail, HasTail
<1>4. ASSUME NEW q \in Seq(Event), Len(q) < MaxBacklog, NEW x \in Event \ {"ENTER", "OK"}, Post(q, x)
      PROVE  /\ Calm(q, events') /\ events' \in Seq(Event) /\ Len(events') <= MaxBacklog
             /\ \A code : Has(events', code) => Has(q, code) \/ code = x
  <2>1. events' = Append(q, x) /\ events' \in Seq(Event) /\ Len(events') <= MaxBacklog
    BY <1>4, PostIs
  <2>2. Calm(q, Append(q, x))
    BY CalmAppend
  <2>3. \A code : Has(Append(q, x), code) <=> Has(q, code) \/ x = code
    BY HasAppend
  <2> QED BY <2>1, <2>2, <2>3
<1>5. CASE \E e \in Event \ {"ENTER"} : Take(e) /\ events' = Tail(events)
  BY <1>3, <1>5
<1>6. CASE /\ Len(events) < MaxBacklog
           /\ \E x \in Event \ {"ENTER", "OK"} : Post(events, x) /\ (x \in Code => buffers)
  BY <1>1, <1>4, <1>6
<1>7. CASE \E e \in Event \ {"ENTER"}, x \in Event \ {"ENTER", "OK"} :
               Take(e) /\ Post(Tail(events), x) /\ (x \in Code => buffers)
  <2>1. PICK e \in Event \ {"ENTER"}, x \in Event \ {"ENTER", "OK"} :
            Take(e) /\ Post(Tail(events), x) /\ (x \in Code => buffers)
    BY <1>7
  <2>2. /\ Calm(events, Tail(events)) /\ Tail(events) \in Seq(Event) /\ Len(Tail(events)) < MaxBacklog
        /\ \A code : Has(Tail(events), code) => Has(events, code)
    BY <1>3, <2>1
  <2>3. /\ Calm(Tail(events), events') /\ events' \in Seq(Event) /\ Len(events') <= MaxBacklog
        /\ \A code : Has(events', code) => Has(Tail(events), code) \/ code = x
    BY <1>4, <2>1, <2>2
  <2>4. Calm(events, events')
    BY <2>2, <2>3, CalmTwice
  <2> QED BY <2>1, <2>2, <2>3, <2>4
<1> QED BY <1>2, <1>5, <1>6, <1>7

LEMMA CalmStep ==
    ASSUME UpgradeInv, CalmFrame,
           UNCHANGED flashVars, UNCHANGED infoVars, LoadOK', ConnOK', timers' \subseteq Timer,
           Calm(events, events'), events' \in Seq(Event), Len(events') <= MaxBacklog,
           \A code \in Code : Has(events', code) => Has(events, code) \/ buffers
    PROVE  UpgradeInv'
<1>1. TypeOK'
  BY UnchangedParts, TypePartsNext DEF UpgradeInv, QueueOK
<1>2. InOrder'
  BY CalmKeeps DEF CalmFrame
<1> QED BY <1>1, <1>2 DEF UpgradeInv

LEMMA ConnectionStep ==
    ASSUME UpgradeInv, Len(events) < MaxBacklog, AgainTimer \/ Connected \/ Disconnected
    PROVE  UpgradeInv'
<1>1. /\ TypeOK /\ LoadOK /\ ConnOK /\ QueueOK
  BY TypeParts DEF UpgradeInv
<1>2. /\ UNCHANGED <<flashVars, infoVars, loadVars>>
      /\ timers' = timers \/ timers' = (timers \ {"again"}) \cup {}
      /\ UNCHANGED events \/ \E x \in Event \ {"ENTER", "OK"} : Post(events, x) /\ x \notin Code
  BY DEF AgainTimer, Connected, Disconnected, Timers, Event, Code
<1>3. ConnOK'
  <2>1. CASE AgainTimer
    BY <1>1, <2>1, ConnectKeeps DEF AgainTimer
  <2>2. CASE Connected
    BY <1>1, <2>2 DEF Connected, ConnOK
  <2>3. CASE Disconnected
    <3>1. CASE conn' = "none" /\ asked' = <<>> /\ UNCHANGED <<old, stray>>
      <4>1. asked' \in Seq(Asked)
        BY <3>1
      <4> QED BY <1>1, <3>1, <4>1 DEF ConnOK
    <3>2. CASE old' = FALSE /\ stray' = {} /\ UNCHANGED <<conn, asked>>
      <4>1. old' \in BOOLEAN
        BY <3>2
      <4> QED BY <1>1, <3>2, <4>1 DEF ConnOK
    <3> QED BY <2>3, <3>1, <3>2 DEF Disconnected
  <2> QED BY <2>1, <2>2, <2>3
<1>4. CalmFrame
  BY <1>2 DEF CalmFrame, SameCounts, Restarting, flashVars, infoVars, loadVars
<1>5. timers' \subseteq Timer
  BY <1>1, <1>2 DEF QueueOK
<1> QED BY <1>1, <1>2, <1>3, <1>4, <1>5, UnchangedParts, CalmEvents, CalmStep

LEMMA ReconnectStep == ASSUME UpgradeInv, Reconnect PROVE UpgradeInv'
<1>1. /\ TypeOK /\ LoadOK /\ ConnOK /\ QueueOK
  BY TypeParts DEF UpgradeInv
<1>2. /\ Take("AGAIN") /\ UNCHANGED <<flashVars, infoVars, buffers, flag, file, index, connVars>>
      /\ timers' = timers \/ timers' = (timers \ {}) \cup {"again"}
      /\ tries' = tries \/ tries' = Capped(tries, Tries)
      /\ events' = Tail(events) \/ (flag /\ Post(Tail(events), "DOWNLOAD"))
  BY DEF Reconnect, Timers, NoPost
<1>3. flag => buffers
  BY DEF UpgradeInv, InOrder, Underway
<1>4. LoadOK'
  <2>1. tries' \in 0..Tries
    BY <1>1, <1>2, CappedIs, UpgradeAssumption DEF LoadOK
  <2> QED BY <1>1, <1>2, <2>1 DEF LoadOK
<1>5. CalmFrame
  BY <1>2 DEF CalmFrame, SameCounts, Restarting, flashVars, infoVars
<1>6. /\ Calm(events, events') /\ events' \in Seq(Event) /\ Len(events') <= MaxBacklog
      /\ \A code \in Code : Has(events', code) => Has(events, code) \/ buffers
  BY <1>1, <1>2, <1>3, CalmEvents DEF Event, Code
<1>7. timers' \subseteq Timer
  BY <1>1, <1>2 DEF QueueOK, Timer
<1> QED BY <1>1, <1>2, <1>4, <1>5, <1>6, <1>7, UnchangedParts, CalmStep

LEMMA DownloadStep == ASSUME UpgradeInv, Download PROVE UpgradeInv'
<1>1. /\ TypeOK /\ InfoOK /\ LoadOK /\ ConnOK /\ QueueOK /\ InOrder
  BY TypeParts DEF UpgradeInv
<1>2. /\ Take("GET") /\ buffers /\ UNCHANGED <<flashVars, infoVars, loadVars, conn, old, stray, timers>>
      /\ \/ asked' = Append(asked, <<info, file.counter>>) /\ events' = Tail(events)
         \/ asked' = asked /\ Post(Tail(events), "AGAIN")
  BY DEF Download, NoPost
<1>3. info # None
  BY <1>1, <1>2 DEF InOrder, Underway
<1>4. ConnOK'
  <2>1. <<info, file.counter>> \in Asked
    BY <1>1, <1>3 DEF InfoOK, LoadOK, Files, Asked
  <2>2. asked' \in Seq(Asked)
    BY <1>1, <1>2, <2>1 DEF ConnOK
  <2> QED BY <1>1, <1>2, <2>2 DEF ConnOK
<1>5. CalmFrame
  BY <1>2 DEF CalmFrame, SameCounts, Restarting, flashVars, infoVars, loadVars
<1>6. /\ Calm(events, events') /\ events' \in Seq(Event) /\ Len(events') <= MaxBacklog
      /\ \A code \in Code : Has(events', code) => Has(events, code) \/ buffers
  BY <1>1, <1>2, CalmEvents DEF Event, Code
<1>7. timers' \subseteq Timer
  BY <1>1, <1>2 DEF QueueOK
<1> QED BY <1>1, <1>2, <1>4, <1>5, <1>6, <1>7, UnchangedParts, CalmStep

LEMMA OtherAnswerStep ==
    ASSUME UpgradeInv, Len(events) < MaxBacklog, ErrorPackage \/ IgnoredPackage
    PROVE  UpgradeInv'
<1>1. /\ TypeOK /\ LoadOK /\ ConnOK /\ QueueOK
  BY TypeParts DEF UpgradeInv
<1>2. /\ UNCHANGED <<flashVars, infoVars, buffers, flag, index, tries, conn, old, timers>>
      /\ \E r \in Asked : Answered(r)
      /\ \/ file' = file
         \/ \E b \in BOOLEAN, l \in {-1, Length} : file' = [file EXCEPT !.started = b, !.length = l]
      /\ UNCHANGED events \/ (buffers /\ Post(events, "DOWNLOAD"))
  BY DEF ErrorPackage, IgnoredPackage, loadVars
<1>3. file' \in Files /\ SameCounts
  BY <1>1, <1>2 DEF LoadOK, Files, SameCounts
<1>4. LoadOK'
  BY <1>1, <1>2, <1>3 DEF LoadOK
<1>5. CalmFrame
  BY <1>2, <1>3 DEF CalmFrame, SameCounts, Restarting, flashVars, infoVars
<1>6. /\ Calm(events, events') /\ events' \in Seq(Event) /\ Len(events') <= MaxBacklog
      /\ \A code \in Code : Has(events', code) => Has(events, code) \/ buffers
  BY <1>1, <1>2, CalmEvents DEF Event, Code
<1>7. timers' \subseteq Timer
  BY <1>1, <1>2 DEF QueueOK
<1> QED BY <1>1, <1>2, <1>4, <1>5, <1>6, <1>7, AnsweredKeeps, UnchangedParts, CalmStep

LEMMA ProgressStep == ASSUME UpgradeInv, Len(events) < MaxBacklog, ProgressTimer PROVE UpgradeInv'
<1>1. /\ TypeOK /\ LoadOK /\ ConnOK /\ QueueOK
  BY TypeParts DEF UpgradeInv
<1>2. /\ "progress" \in timers /\ UNCHANGED <<flashVars, infoVars, loadVars, connVars>>
      /\ timers' = timers \/ timers' = (timers \ {"progress"}) \cup {}
      /\ events' = events \/ Post(events, "DOWNLOAD")
  BY DEF ProgressTimer, Timers, NoPost
<1>3. buffers
  BY <1>2 DEF UpgradeInv, InOrder, Underway
<1>5. CalmFrame
  BY <1>2 DEF CalmFrame, SameCounts, Restarting, flashVars, infoVars, loadVars
<1>6. /\ Calm(events, events') /\ events' \in Seq(Event) /\ Len(events') <= MaxBacklog
      /\ \A code \in Code : Has(events', code) => Has(events, code) \/ buffers
  BY <1>1, <1>2, <1>3, CalmEvents DEF Event, Code
<1>7. timers' \subseteq Timer
  BY <1>1, <1>2 DEF QueueOK
<1> QED BY <1>1, <1>2, <1>5, <1>6, <1>7, UnchangedParts, CalmStep

LEMMA StutterStep == ASSUME UpgradeInv, UNCHANGED vars PROVE UpgradeInv'
<1>1. UNCHANGED <<flashVars, infoVars, loadVars, connVars, events, timers>>
  BY DEF vars
<1>2. TypeOK /\ LoadOK /\ ConnOK /\ QueueOK
  BY TypeParts DEF UpgradeInv
<1>3. CalmFrame
  BY <1>1 DEF CalmFrame, SameCounts, Restarting, flashVars, infoVars, loadVars
<1>4. /\ Calm(events, events') /\ events' \in Seq(Event) /\ Len(events') <= MaxBacklog
      /\ \A code \in Code : Has(events', code) => Has(events, code) \/ buffers
  BY <1>1, <1>2, CalmEvents
<1> QED BY <1>1, <1>2, <1>3, <1>4, UnchangedParts, CalmStep DEF QueueOK

LEMMA UpgradeInvStep == UpgradeInv /\ [Next]_vars => UpgradeInv'
<1> SUFFICES ASSUME UpgradeInv, [Next]_vars PROVE UpgradeInv'
  OBVIOUS
<1>1. CASE CoreTask
  BY <1>1, StartStep, ReconnectStep, DownloadStep, ResetStep, StopStep DEF CoreTask
<1>2. CASE Len(events) < MaxBacklog /\ Outside
  BY <1>2, RequestStep, RestartStep, EnterTimerStep, ConnectionStep, ProgressStep, SectorStep,
     FlashErrorStep, OtherAnswerStep, ResetStep DEF Outside
<1> QED BY <1>1, <1>2, StutterStep DEF Next

------------------------------------------------------------------------------
\* The next package goes to the sector of the range asked for next, the
\* digest is not checked before the last sector is written, and is then
\* unless a package was shorter than its sector.
THEOREM IndexIsRight == Spec => []IndexFollows
<1>1. UpgradeInv => IndexFollows
  <2> SUFFICES ASSUME UpgradeInv PROVE IndexFollows
    OBVIOUS
  <2>1. TypeOK /\ index \in 0..Size /\ file.downloaded \in Nat
    <3>1. Length \in Nat
      BY LengthIs
    <3>2. TypeOK /\ index \in 0..Size /\ file.downloaded \in 0..Length + 1
      BY DEF UpgradeInv, TypeOK, Files
    <3> QED BY <3>1, <3>2
  <2>2. ASSUME OneAtATime, file.downloaded >= Length PROVE index >= Size
    <3>1. CASE index < Size
      <4>1. /\ file.downloaded <= index * SectorLen /\ index * SectorLen \in Nat
            /\ index * SectorLen < Length /\ Length \in Nat
        BY <2>1, <2>2, <3>1, LengthIs, UpgradeAssumption DEF UpgradeInv, InOrder, InStep
      <4> QED BY <2>1, <2>2, <4>1
    <3> QED BY <2>1, <3>1, UpgradeAssumption
  <2>3. OneAtATime => InStep
    BY DEF UpgradeInv, InOrder
  <2> QED BY <2>1, <2>2, <2>3 DEF IndexFollows, InStep
<1> QED BY <1>1, UpgradeInvInit, UpgradeInvStep, PTL DEF Spec

\* If the server waits for the end of an upgrade before the next request,
\* the device restarts only into complete images that are newer.
THEOREM BootsOnlyVerified == OneAtATime => (Spec => BootsVerified)
<1> SUFFICES ASSUME OneAtATime PROVE Spec => BootsVerified
  OBVIOUS
<1>1. UpgradeInv /\ [Next]_vars => [running' # running => running' # Junk /\ running' > running]_vars
  <2> SUFFICES ASSUME UpgradeInv, Next, running' # running
               PROVE  running' # Junk /\ running' > running
    OBVIOUS
  <2>1. Reboot
    BY DEF Next, CoreTask, Outside, Start, Reconnect, Download, NullPointer, Stop, ProcessRequest,
           RestartForNewBin, EnterTimer, AgainTimer, ProgressTimer, Connected, Disconnected,
           SectorPackage, FlashError, ErrorPackage, EndlessVerify, IgnoredPackage, PowerLoss,
           Reset, flashVars
  <2>2. PICK v \in Version : Newer(v) /\ Holds(v)
    BY <2>1 DEF UpgradeInv, InOrder, StillHolds, Reboot, Restarting
  <2>3. running' = sector[0][1]
    BY <2>1, <2>2 DEF Reboot
  <2>4. sector[0][1] = v
    BY <2>2, UpgradeAssumption DEF Holds, Image
  <2> QED BY <2>2, <2>3, <2>4, UpgradeAssumption DEF Newer, Version
<1> QED BY <1>1, UpgradeInvInit, UpgradeInvStep, PTL DEF Spec, BootsVerified

\* And what it records for a later restart is in flash.
THEOREM RecordsOnlyVerified == OneAtATime => (Spec => RecordsWhatIsThere)
<1> SUFFICES ASSUME OneAtATime PROVE Spec => RecordsWhatIsThere
  OBVIOUS
<1>1. UpgradeInv /\ [Next]_vars => [new_bin' # new_bin /\ new_bin' # None => Holds(new_bin')]_vars
  <2> SUFFICES ASSUME UpgradeInv, Next, new_bin' # new_bin, new_bin' # None
               PROVE  Holds(new_bin')
    OBVIOUS
  <2>1. ~Reboot
    BY DEF Reboot
  <2>2. PICK code \in Code : Stop(code)
    BY <2>1 DEF Next, CoreTask, Outside, Start, Reconnect, Download, NullPointer, ProcessRequest,
           RestartForNewBin, EnterTimer, AgainTimer, ProgressTimer, Connected, Disconnected,
           SectorPackage, FlashError, ErrorPackage, EndlessVerify, IgnoredPackage, PowerLoss,
           Reset, flashVars
  <2>3. code = "OK" /\ new_bin' = info /\ info # None /\ Take("OK")
    BY <2>2 DEF Stop
  <2>4. Has(events, "OK")
    BY <2>3, Taken DEF UpgradeInv
  <2> QED BY <2>3, <2>4 DEF UpgradeInv, InOrder, StillHolds
<1> QED BY <1>1, UpgradeInvInit, UpgradeInvStep, PTL DEF Spec, RecordsWhatIsThere
==============================================================================
