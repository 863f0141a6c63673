--------------------------- MODULE SendPumpProofs ----------------------------
(* Proofs about the send pump, for every set of messages, every size of    *)
(* the two queues and any number of events of other components.            *)
EXTENDS SendPump, TLAPS

NoPump(q) == \A i \in 1..Len(q) : ~PumpEvent(q[i])
AtMostOne(q) == \A i, j \in 1..Len(q) : PumpEvent(q[i]) /\ PumpEvent(q[j]) => i = j
Finished(e) == e.sig = "SEND_JSON_FINISHED"

\* A message is queued once, and only the head can have been sent.
OnlyHeadSent ==
    /\ \A i, j \in 1..Len(queue) : queue[i] = queue[j] => i = j
    /\ \A i \in 1..Len(queue) : queue[i] \notin unused
    /\ \A i \in 2..Len(queue) : queue[i] \notin delivered
    /\ \A m \in delivered : m \notin unused

\* If it has, the event that drops it is on its way, cleared queue or not.
SentIsDropped ==
    queue # <<>> /\ queue[1] \in delivered => \E i \in 1..Len(events) : Finished(events[i])

Outcomes == \A i \in 1..Len(events) : Finished(events[i]) => events[i].par \in Result

\* One pump, which has something to send, in one place: an event or the timer.
Pumping ==
    ~stale =>
        /\ AtMostOne(events)
        /\ timer => NoPump(events)
        /\ timer \/ ~NoPump(events) => queue # <<>>
        /\ ~fault
        /\ \A i \in 1..Len(events) :
              Finished(events[i]) => (events[i].par = "SEND_OK" <=> queue[1] \in delivered)

PumpInv == TypeOK /\ OnlyHeadSent /\ SentIsDropped /\ Outcomes /\ Pumping

------------------------------------------------------------------------------
LEMMA TailIs ==
    ASSUME NEW S, NEW q \in Seq(S), q # <<>>
    PROVE  /\ Tail(q) \in Seq(S) /\ Len(q) \in Nat \ {0} /\ Len(Tail(q)) = Len(q) - 1
           /\ Head(q) = q[1] /\ q[1] \in S
           /\ \A i \in 1..Len(Tail(q)) : i + 1 \in 2..Len(q) /\ Tail(q)[i] = q[i + 1]
OBVIOUS

LEMMA AppendIs ==
    ASSUME NEW S, NEW q \in Seq(S), NEW e \in S
    PROVE  /\ Append(q, e) \in Seq(S) /\ Len(q) \in Nat /\ Len(Append(q, e)) = Len(q) + 1
           /\ \A i \in 1..Len(q) : Append(q, e)[i] = q[i]
           /\ Append(q, e)[Len(q) + 1] = e
OBVIOUS

\* For the pump the events r are as good as the events q.
SamePump(q, r) ==
    /\ AtMostOne(q) => AtMostOne(r)
    /\ NoPump(q) <=> NoPump(r)
    /\ (\E i \in 1..Len(q) : Finished(q[i])) => \E i \in 1..Len(r) : Finished(r[i])
    /\ \A i \in 1..Len(r) : Finished(r[i]) => \E j \in 1..Len(q) : q[j] = r[i]

LEMMA SameTail ==
    ASSUME NEW q \in Seq(Event), q # <<>>, ~PumpEvent(Head(q))
    PROVE  SamePump(q, Tail(q))
<1>1. /\ Tail(q) \in Seq(Event) /\ Len(q) \in Nat \ {0} /\ Len(Tail(q)) = Len(q) - 1
      /\ \A i \in 1..Len(Tail(q)) : i + 1 \in 2..Len(q) /\ Tail(q)[i] = q[i + 1]
      /\ ~PumpEvent(q[1])
  BY TailIs
<1>2. \A i \in 1..Len(q) : i = 1 \/ (i - 1 \in 1..Len(Tail(q)) /\ Tail(q)[i - 1] = q[i])
  BY <1>1
<1>3. AtMostOne(q) => AtMostOne(Tail(q))
  BY <1>1 DEF AtMostOne
<1>4. NoPump(q) <=> NoPump(Tail(q))
  BY <1>1, <1>2 DEF NoPump
<1>5. ~Finished(q[1])
  BY <1>1 DEF PumpEvent, Finished, PumpSig
<1>6. ASSUME NEW i \in 1..Len(q), Finished(q[i]) PROVE \E k \in 1..Len(Tail(q)) : Finished(Tail(q)[k])
  BY <1>2, <1>5, <1>6
<1>7. \A i \in 1..Len(Tail(q)) : \E j \in 1..Len(q) : q[j] = Tail(q)[i]
  BY <1>1
<1> QED BY <1>3, <1>4, <1>6, <1>7 DEF SamePump

LEMMA SameAppend ==
    ASSUME NEW q \in Seq(Event), NEW e \in Event, ~PumpEvent(e)
    PROVE  SamePump(q, Append(q, e))
<1> DEFINE r == Append(q, e)
<1>1. /\ Len(q) \in Nat /\ Len(r) = Len(q) + 1 /\ r[Len(q) + 1] = e
      /\ \A i \in 1..Len(q) : r[i] = q[i] /\ i \in 1..Len(r)
  BY AppendIs
<1>2. \A i \in 1..Len(r) : i \in 1..Len(q) \/ i = Len(q) + 1
  BY <1>1
<1>3. ~Finished(e)
  BY DEF PumpEvent, Finished, PumpSig
<1> HIDE DEF r
<1>4. AtMostOne(q) => AtMostOne(r)
  BY <1>1, <1>2 DEF AtMostOne
<1>5. NoPump(q) <=> NoPump(r)
  BY <1>1, <1>2 DEF NoPump
<1>6. \A i \in 1..Len(r) : Finished(r[i]) => \E j \in 1..Len(q) : q[j] = r[i]
  BY <1>1, <1>2, <1>3
<1>7. SamePump(q, r)
  BY <1>1, <1>4, <1>5, <1>6 DEF SamePump
<1> QED BY <1>7 DEF r

LEMMA SameTwice ==
    ASSUME NEW q, NEW r, NEW s, SamePump(q, r), SamePump(r, s)
    PROVE  SamePump(q, s)
<1>1. \A i \in 1..Len(s) : Finished(s[i]) => \E j \in 1..Len(q) : q[j] = s[i]
  <2> SUFFICES ASSUME NEW i \in 1..Len(s), Finished(s[i]) PROVE \E j \in 1..Len(q) : q[j] = s[i]
    OBVIOUS
  <2>1. PICK k \in 1..Len(r) : r[k] = s[i]
    BY DEF SamePump
  <2>2. \E j \in 1..Len(q) : q[j] = r[k]
    BY <2>1 DEF SamePump
  <2> QED BY <2>1, <2>2
<1> QED BY <1>1 DEF SamePump

\* What an event of the pump leaves in its place.
LEMMA AppendPump ==
    ASSUME NEW q \in Seq(Event), NEW e \in Event, NoPump(q)
    PROVE  LET r == Append(q, e) IN
           /\ AtMostOne(r)
           /\ PumpEvent(e) => ~NoPump(r)
           /\ \A i \in 1..Len(r) : Finished(r[i]) => r[i] = e
           /\ Finished(e) => \E i \in 1..Len(r) : Finished(r[i])
<1> DEFINE r == Append(q, e)
<1>1. /\ Len(q) \in Nat /\ Len(r) = Len(q) + 1 /\ r[Len(q) + 1] = e /\ Len(q) + 1 \in 1..Len(r)
      /\ \A i \in 1..Len(q) : r[i] = q[i]
  BY AppendIs
<1>2. \A i \in 1..Len(r) : i \in 1..Len(q) \/ i = Len(q) + 1
  BY <1>1
<1>3. \A i \in 1..Len(q) : ~PumpEvent(r[i]) /\ ~Finished(r[i])
  BY <1>1 DEF NoPump, PumpEvent, Finished, PumpSig
<1> HIDE DEF r
<1>4. AtMostOne(r)
  BY <1>2, <1>3 DEF AtMostOne
<1>5. PumpEvent(e) => ~NoPump(r)
  BY <1>1 DEF NoPump
<1>6. \A i \in 1..Len(r) : Finished(r[i]) => r[i] = e
  BY <1>1, <1>2, <1>3
<1> QED BY <1>1, <1>4, <1>5, <1>6 DEF r

LEMMA TailPump ==
    ASSUME NEW q \in Seq(Event), q # <<>>, AtMostOne(q), PumpEvent(Head(q))
    PROVE  NoPump(Tail(q))
BY TailIs DEF AtMostOne, NoPump

------------------------------------------------------------------------------
LEMMA PostIs ==
    ASSUME NEW q \in Seq(Event), Len(q) <= CoreQLen, NEW sig \in PumpSig \cup OtherSig,
           NEW par \in Result \cup {"none"}, refused \in BOOLEAN, Post(q, sig, par)
    PROVE  /\ Ev(sig, par) \in Event
           /\ events' \in Seq(Event) /\ Len(events') <= CoreQLen /\ refused' \in BOOLEAN
           /\ events' = q \/ events' = Append(q, Ev(sig, par))
           /\ Len(q) < CoreQLen => events' = Append(q, Ev(sig, par))
           /\ events' = q => refused'
<1>1. Ev(sig, par) \in Event
  BY DEF Ev, Event
<1>2. /\ events' = q \/ (events' = Append(q, Ev(sig, par)) /\ Len(q) < CoreQLen)
      /\ Len(q) < CoreQLen => events' = Append(q, Ev(sig, par))
  <2>1. events' = IF Len(q) < CoreQLen THEN Append(q, Ev(sig, par)) ELSE q
    BY DEF Post
  <2>2. CASE Len(q) < CoreQLen
    BY <2>1, <2>2
  <2>3. CASE ~(Len(q) < CoreQLen)
    <3>1. events' = q
      BY <2>1, <2>3
    <3> QED BY <3>1, <2>3
  <2> QED BY <2>2, <2>3
<1>6. refused' <=> refused \/ Len(q) >= CoreQLen
  BY DEF Post
<1>7. refused' \in BOOLEAN
  BY DEF Post
<1>8. Len(q) \in Nat /\ CoreQLen \in Nat /\ (Len(q) < CoreQLen \/ Len(q) >= CoreQLen)
  BY SendPumpAssumption
<1>3. Append(q, Ev(sig, par)) \in Seq(Event) /\ Len(Append(q, Ev(sig, par))) = Len(q) + 1
  BY <1>1, AppendIs
<1>4. events' \in Seq(Event) /\ Len(events') <= CoreQLen
  <2>1. CASE events' = q
    BY <2>1
  <2>2. CASE events' = Append(q, Ev(sig, par)) /\ Len(q) < CoreQLen
    BY <2>2, <1>3, <1>8
  <2> QED BY <2>1, <2>2, <1>2
<1>5. Append(q, Ev(sig, par)) # q
  BY <1>3
<1> QED BY <1>1, <1>2, <1>4, <1>5, <1>6, <1>7, <1>8

\* The room an event leaves is there for what its handler posts.
LEMMA Taken ==
    ASSUME TypeOK, NEW sig, Take(sig)
    PROVE  /\ Tail(events) \in Seq(Event) /\ Len(Tail(events)) < CoreQLen
           /\ Len(Tail(events)) <= CoreQLen
           /\ events # <<>> /\ events \in Seq(Event) /\ Head(events).sig = sig /\ ~fault
           /\ PumpEvent(Head(events)) <=> sig \in PumpSig
           /\ sig \in PumpSig => ~NoPump(events)
<1>1. events \in Seq(Event) /\ events # <<>> /\ Len(events) <= CoreQLen
      /\ Head(events).sig = sig /\ ~fault
  BY DEF TypeOK, Take
<1>2. /\ Tail(events) \in Seq(Event) /\ Len(Tail(events)) = Len(events) - 1
      /\ Head(events) = events[1] /\ 1 \in 1..Len(events) /\ Len(events) \in Nat \ {0}
  BY <1>1, TailIs
<1> QED BY <1>1, <1>2, SendPumpAssumption DEF PumpEvent, NoPump

LEMMA QuietIs == PumpQuiet <=> ~timer /\ NoPump(events)
BY DEF PumpQuiet, NoPump

\* A step that leaves the pump where it is.
LEMMA Keeps ==
    ASSUME PumpInv, SamePump(events, events'),
           UNCHANGED <<timer, fault, delivered, stale>>,
           queue # <<>> => queue' # <<>> /\ queue'[1] = queue[1],
           queue = <<>> /\ queue' # <<>> => queue'[1] \notin delivered
    PROVE  SentIsDropped' /\ Outcomes' /\ Pumping'
<1>1. SentIsDropped'
  BY DEF PumpInv, SentIsDropped, SamePump
<1>2. Outcomes'
  <2> SUFFICES ASSUME NEW i \in 1..Len(events'), Finished(events'[i]) PROVE events'[i].par \in Result
    BY DEF Outcomes
  <2>1. PICK j \in 1..Len(events) : events[j] = events'[i]
    BY DEF SamePump
  <2> QED BY <2>1 DEF PumpInv, Outcomes
<1>3. ASSUME ~stale' PROVE
        /\ AtMostOne(events')
        /\ timer' => NoPump(events')
        /\ timer' \/ ~NoPump(events') => queue' # <<>>
        /\ ~fault'
  BY <1>3 DEF PumpInv, Pumping, SamePump
<1>4. ASSUME ~stale', NEW i \in 1..Len(events'), Finished(events'[i])
      PROVE  events'[i].par = "SEND_OK" <=> queue'[1] \in delivered'
  <2>1. PICK j \in 1..Len(events) : events[j] = events'[i]
    BY <1>4 DEF SamePump
  <2>2. ~NoPump(events)
    BY <2>1, <1>4 DEF NoPump, PumpEvent, PumpSig, Finished
  <2>3. queue # <<>>
    BY <2>2, <1>4 DEF PumpInv, Pumping
  <2>4. events[j].par = "SEND_OK" <=> queue[1] \in delivered
    BY <2>1, <1>4 DEF PumpInv, Pumping
  <2> QED BY <2>1, <2>3, <2>4
<1> QED BY <1>1, <1>2, <1>3, <1>4 DEF Pumping

\* Nothing of a pump is left.
LEMMA QuietKeeps ==
    ASSUME PumpInv, ~timer', NoPump(events'), ~fault',
           \A m \in {queue'[1]} : queue' # <<>> => m \notin delivered'
    PROVE  SentIsDropped' /\ Outcomes' /\ Pumping'
<1>1. \A i \in 1..Len(events') : ~PumpEvent(events'[i]) /\ ~Finished(events'[i])
  BY DEF NoPump, PumpEvent, Finished, PumpSig
<1> QED BY <1>1 DEF SentIsDropped, Outcomes, Pumping, AtMostOne, NoPump

\* The head alone changes sides: it is sent, dropped, or goes with the rest.
LEMMA HeadsKept ==
    ASSUME PumpInv,
           queue' = queue \/ queue' = <<>> \/ (queue # <<>> /\ queue' = Tail(queue)),
           UNCHANGED unused,
           \/ delivered' = delivered
           \/ queue' = queue /\ queue # <<>> /\ delivered' \subseteq delivered \cup {queue[1]}
    PROVE  /\ OnlyHeadSent' /\ queue' \in Seq(Msg) /\ Len(queue') <= QueueMax
           /\ delivered' \subseteq Msg
           /\ queue' # queue /\ queue' # <<>> => queue'[1] \notin delivered'
<1>1. TypeOK /\ OnlyHeadSent /\ queue \in Seq(Msg) /\ Len(queue) <= QueueMax /\ delivered \subseteq Msg
  BY DEF PumpInv, TypeOK
<1>2. CASE queue' = queue
  <2>1. delivered' \subseteq Msg
    BY <1>1, <1>2, TailIs
  <2>2. \A m \in delivered' : m \in delivered \/ (queue # <<>> /\ m = queue[1])
    OBVIOUS
  <2>3. OnlyHeadSent'
    BY <1>1, <1>2, <2>2 DEF OnlyHeadSent
  <2> QED BY <1>1, <1>2, <2>1, <2>3
<1>3. CASE queue' = <<>> /\ delivered' = delivered
  BY <1>1, <1>3, SendPumpAssumption DEF OnlyHeadSent
<1>4. CASE queue # <<>> /\ queue' = Tail(queue) /\ delivered' = delivered
  <2>1. /\ queue' \in Seq(Msg) /\ Len(queue) \in Nat \ {0} /\ Len(queue') = Len(queue) - 1
        /\ \A i \in 1..Len(queue') : i + 1 \in 2..Len(queue) /\ queue'[i] = queue[i + 1]
    BY <1>1, <1>4, TailIs
  <2>2. OnlyHeadSent'
    <3>1. \A i \in 1..Len(queue') : i + 1 \in 1..Len(queue) /\ queue'[i] = queue[i + 1]
      BY <2>1
    <3>2. \A i, j \in 1..Len(queue') : queue'[i] = queue'[j] => i = j
      BY <1>1, <2>1, <3>1 DEF OnlyHeadSent
    <3>3. \A i \in 1..Len(queue') : queue'[i] \notin unused' /\ queue'[i] \notin delivered'
      BY <1>1, <1>4, <2>1, <3>1 DEF OnlyHeadSent
    <3>4. \A i \in 2..Len(queue') : i \in 1..Len(queue')
      BY <2>1
    <3> QED BY <1>1, <1>4, <3>2, <3>3, <3>4 DEF OnlyHeadSent
  <2>3. queue' # <<>> => 1 \in 1..Len(queue')
    BY <2>1
  <2>5. Len(queue') <= QueueMax
    BY <1>1, <2>1, SendPumpAssumption
  <2>4. queue' # <<>> => queue'[1] \notin delivered
    BY <1>1, <2>1, <2>3 DEF OnlyHeadSent
  <2> QED BY <1>1, <1>4, <2>1, <2>2, <2>4, <2>5
<1> QED BY <1>2, <1>3, <1>4

------------------------------------------------------------------------------
LEMMA PumpInvInit == Init => PumpInv
<1> SUFFICES ASSUME Init PROVE PumpInv
  OBVIOUS
<1>1. /\ queue = <<>> /\ events = <<>> /\ Len(queue) = 0 /\ Len(events) = 0 /\ delivered = {}
      /\ timer = FALSE /\ fault = FALSE /\ online = FALSE /\ stale = FALSE /\ refused = FALSE
      /\ send_counter = 0 /\ other = 0 /\ unused = Msg
  BY DEF Init
<1>2. TypeOK
  <2>1. queue \in Seq(Msg) /\ events \in Seq(Event)
    BY <1>1
  <2>2. {timer, online, fault, stale, refused} \subseteq BOOLEAN
    BY <1>1
  <2> QED BY <1>1, <2>1, <2>2, SendPumpAssumption DEF TypeOK
<1>3. OnlyHeadSent /\ SentIsDropped /\ Outcomes
  BY <1>1 DEF OnlyHeadSent, SentIsDropped, Outcomes
<1>4. NoPump(events) /\ AtMostOne(events)
  BY <1>1 DEF NoPump, AtMostOne
<1>5. Pumping
  BY <1>1, <1>4 DEF Pumping
<1> QED BY <1>2, <1>3, <1>5 DEF PumpInv

\* A message that is queued: it starts the pump if it is alone.
LEMMA AddStep == ASSUME PumpInv, NEW m \in Msg, QueueAdd(m) PROVE PumpInv'
<1>1. /\ TypeOK /\ OnlyHeadSent /\ m \in unused /\ unused' = unused \ {m}
      /\ UNCHANGED <<send_counter, timer, online, fault, other, delivered, stale>>
      /\ queue \in Seq(Msg) /\ events \in Seq(Event) /\ Len(events) <= CoreQLen
      /\ Len(queue) <= QueueMax /\ refused \in BOOLEAN
  BY DEF PumpInv, QueueAdd, TypeOK
<1>2. CASE queue' = queue /\ NoPost(events)
  <2>1. TypeOK' /\ OnlyHeadSent'
    BY <1>1, <1>2 DEF TypeOK, OnlyHeadSent, NoPost
  <2>2. SamePump(events, events')
    BY <1>2 DEF NoPost, SamePump
  <2>3. SentIsDropped' /\ Outcomes' /\ Pumping'
    BY <1>1, <1>2, <2>2, Keeps
  <2> QED BY <2>1, <2>3 DEF PumpInv
<1>3. CASE /\ Len(queue) < QueueMax /\ queue' = Append(queue, m)
           /\ IF Len(queue') = 1 THEN Post(events, "SEND_JSON", "none") ELSE NoPost(events)
  <2>1. /\ queue' \in Seq(Msg) /\ Len(queue) \in Nat /\ Len(queue') = Len(queue) + 1
        /\ \A i \in 1..Len(queue) : queue'[i] = queue[i]
        /\ queue'[Len(queue) + 1] = m
    BY <1>1, <1>3, AppendIs
  <2>2. Len(queue') <= QueueMax /\ queue' # <<>> /\ (queue = <<>> <=> Len(queue') = 1)
    BY <1>1, <1>3, <2>1, SendPumpAssumption
  <2>3. OnlyHeadSent'
    <3>1. \A i \in 1..Len(queue') : i \in 1..Len(queue) \/ i = Len(queue) + 1
      BY <2>1
    <3>2. \A i \in 2..Len(queue') : i \in 2..Len(queue) \/ i = Len(queue) + 1
      BY <2>1
    <3>3. m \notin delivered /\ \A i \in 1..Len(queue) : queue[i] # m
      BY <1>1 DEF OnlyHeadSent
    <3>4. \A i, j \in 1..Len(queue') : queue'[i] = queue'[j] => i = j
      BY <1>1, <2>1, <3>1, <3>3 DEF OnlyHeadSent
    <3>5. \A i \in 1..Len(queue') : queue'[i] \notin unused'
      BY <1>1, <2>1, <3>1 DEF OnlyHeadSent
    <3>6. \A i \in 2..Len(queue') : queue'[i] \notin delivered'
      BY <1>1, <2>1, <3>2, <3>3 DEF OnlyHeadSent
    <3> QED BY <1>1, <3>4, <3>5, <3>6 DEF OnlyHeadSent
  <2>4. queue = <<>> => queue'[1] \notin delivered
    BY <1>1, <2>1 DEF OnlyHeadSent
  <2>5. CASE queue # <<>>
    <3>1. events' = events /\ refused' = refused
      BY <1>3, <2>2, <2>5 DEF NoPost
    <3>2. TypeOK'
      BY <1>1, <2>1, <2>2, <3>1 DEF TypeOK
    <3>3. SamePump(events, events') /\ queue'[1] = queue[1]
      BY <2>1, <2>5, <3>1, <1>1, TailIs DEF SamePump
    <3>4. SentIsDropped' /\ Outcomes' /\ Pumping'
      BY <1>1, <2>2, <2>5, <3>3, Keeps
    <3> QED BY <2>3, <3>2, <3>4 DEF PumpInv
  <2>6. CASE queue = <<>>
    <3> DEFINE e == Ev("SEND_JSON", "none")
    <3>0. Post(events, "SEND_JSON", "none")
      BY <1>3, <2>2, <2>6
    <3>1. /\ e \in Event /\ events' \in Seq(Event) /\ Len(events') <= CoreQLen /\ refused' \in BOOLEAN
          /\ events' = events \/ events' = Append(events, e)
      BY <1>1, <3>0, PostIs DEF PumpSig
    <3>2. TypeOK'
      BY <1>1, <2>1, <2>2, <3>1 DEF TypeOK
    <3>3. CASE events' = events
      <4>1. SentIsDropped' /\ Outcomes' /\ Pumping'
        BY <1>1, <2>2, <2>4, <2>6, <3>3, Keeps DEF SamePump
      <4> QED BY <2>3, <3>2, <4>1 DEF PumpInv
    <3>4. CASE events' = Append(events, e)
      <4>1. ~Finished(e) /\ e.par = "none"
        BY DEF Finished, Ev
      <4>2. Outcomes'
        <5>1. \A i \in 1..Len(events') : (i \in 1..Len(events) /\ events'[i] = events[i]) \/ events'[i] = e
          BY <1>1, <3>1, <3>4, AppendIs
        <5> QED BY <5>1, <4>1 DEF PumpInv, Outcomes
      <4>3. ASSUME ~stale' PROVE Pumping'
        <5>1. NoPump(events) /\ ~timer
          BY <1>1, <2>6, <4>3 DEF PumpInv, Pumping
        <5>2. AtMostOne(events') /\ \A i \in 1..Len(events') : Finished(events'[i]) => events'[i] = e
          BY <1>1, <3>1, <3>4, <5>1, AppendPump
        <5> QED BY <1>1, <2>2, <4>1, <4>3, <5>1, <5>2 DEF PumpInv, Pumping
      <4>4. SentIsDropped' /\ Pumping'
        BY <1>1, <2>4, <2>6, <4>3 DEF SentIsDropped, Pumping
      <4> QED BY <2>3, <3>2, <4>2, <4>4 DEF PumpInv
    <3> QED BY <3>1, <3>3, <3>4
  <2> QED BY <2>5, <2>6
<1> QED BY <1>2, <1>3 DEF QueueAdd

\* The trap on an empty queue, which only a pump whose queue was cleared meets.
LEMMA TrapStep == ASSUME PumpInv, NEW sig \in PumpSig, Take(sig), Trap PROVE PumpInv'
<1>1. /\ TypeOK /\ OnlyHeadSent /\ queue = <<>> /\ fault' = TRUE /\ NoPost(Tail(events))
      /\ UNCHANGED <<queue, send_counter, timer, online, unused, other, delivered, stale>>
  BY DEF PumpInv, Trap
<1>2. /\ Tail(events) \in Seq(Event) /\ Len(Tail(events)) <= CoreQLen /\ ~NoPump(events)
      /\ events # <<>> /\ events \in Seq(Event)
  BY <1>1, Taken
<1>3. TypeOK'
  BY <1>1, <1>2 DEF TypeOK, NoPost
<1>4. OnlyHeadSent' /\ SentIsDropped'
  BY <1>1 DEF OnlyHeadSent, SentIsDropped
<1>5. Outcomes'
  <2>1. \A i \in 1..Len(events') : i + 1 \in 1..Len(events) /\ events'[i] = events[i + 1]
    BY <1>1, <1>2, TailIs DEF NoPost
  <2> QED BY <2>1 DEF PumpInv, Outcomes
<1>6. stale /\ stale'
  BY <1>1, <1>2, Zenon DEF PumpInv, Pumping
<1> QED BY <1>3, <1>4, <1>5, <1>6 DEF PumpInv, Pumping

\* While the pump runs nothing ends the time of a cleared queue.
LEMMA StaleWhile ==
    ASSUME TypeOK, NEW b \in BOOLEAN, Clears(b),
           timer' \/ \E i \in 1..Len(events') : PumpEvent(events'[i])
    PROVE  stale' <=> stale \/ b
<1>1. ~PumpQuiet'
  BY DEF PumpQuiet
<1> QED BY <1>1, Zenon DEF Clears, TypeOK

\* An event of the pump is replaced by the next.
LEMMA PumpGoesOn ==
    ASSUME PumpInv, NEW sig \in PumpSig, Take(sig), NEW e \in Event,
           events' = Append(Tail(events), e), Finished(e) => e.par \in Result,
           fault' = fault,
           queue' # <<>> /\ queue'[1] \in delivered' => Finished(e) \/
               (queue' = queue /\ delivered' = delivered /\ sig # "SEND_JSON_FINISHED"),
           ~stale' => /\ ~stale /\ ~timer' /\ queue' # <<>>
                      /\ (Finished(e) => (e.par = "SEND_OK" <=> queue'[1] \in delivered'))
    PROVE  SentIsDropped' /\ Outcomes' /\ Pumping'
<1>1. /\ Tail(events) \in Seq(Event) /\ ~NoPump(events) /\ events \in Seq(Event) /\ events # <<>>
      /\ Head(events).sig = sig /\ PumpEvent(Head(events)) /\ ~fault
  BY Taken DEF PumpInv
<1>2. /\ Len(events') = Len(Tail(events)) + 1 /\ Len(Tail(events)) \in Nat
      /\ \A i \in 1..Len(Tail(events)) : events'[i] = Tail(events)[i]
      /\ events'[Len(Tail(events)) + 1] = e
  BY <1>1, AppendIs
<1>3. /\ \A i \in 1..Len(Tail(events)) : i + 1 \in 1..Len(events) /\ Tail(events)[i] = events[i + 1]
      /\ Len(events) = Len(Tail(events)) + 1 /\ Head(events) = events[1]
  BY <1>1, TailIs
<1>4. \A i \in 1..Len(events') : i \in 1..Len(Tail(events)) \/ events'[i] = e
  BY <1>2
<1>5. Outcomes'
  BY <1>2, <1>3, <1>4 DEF PumpInv, Outcomes
<1>6. SentIsDropped'
  <2> SUFFICES ASSUME queue' # <<>>, queue'[1] \in delivered'
               PROVE  \E i \in 1..Len(events') : Finished(events'[i])
    BY DEF SentIsDropped
  <2>1. CASE Finished(e)
    BY <2>1, <1>2
  <2>2. CASE queue' = queue /\ delivered' = delivered /\ sig # "SEND_JSON_FINISHED"
    <3>1. PICK i \in 1..Len(events) : Finished(events[i])
      BY <2>2 DEF PumpInv, SentIsDropped
    <3>2. i # 1
      BY <2>2, <3>1, <1>1, <1>3 DEF Finished
    <3>3. i - 1 \in 1..Len(Tail(events)) /\ i - 1 \in 1..Len(events') /\ events'[i - 1] = events[i]
      BY <3>2, <1>2, <1>3
    <3> QED BY <3>1, <3>3
  <2> QED BY <2>1, <2>2
<1>7. ASSUME ~stale' PROVE Pumping'
  <2>1. NoPump(Tail(events))
    BY <1>7, <1>1, TailPump DEF PumpInv, Pumping
  <2> DEFINE q == Append(Tail(events), e)
  <2>2. AtMostOne(q) /\ \A i \in 1..Len(q) : Finished(q[i]) => q[i] = e
    BY <2>1, <1>1, AppendPump
  <2>3. AtMostOne(events') /\ \A i \in 1..Len(events') : Finished(events'[i]) => events'[i] = e
    BY <2>2
  <2> QED BY <2>3, <1>1, <1>7 DEF Pumping
<1> QED BY <1>5, <1>6, <1>7 DEF Pumping

\* What is sent, given up or dropped by the pump.
LEMMA SendStep == ASSUME PumpInv, SendJson PROVE PumpInv'
<1>1. TypeOK /\ Take("SEND_JSON") /\ "SEND_JSON" \in PumpSig
  BY DEF PumpInv, SendJson, PumpSig
<1>2. CASE Trap
  BY <1>1, <1>2, TrapStep
<1>3. ASSUME queue # <<>>, NEW status \in Result,
             IF status = "SEND_ERROR"
             THEN Post(Tail(events), "SEND_JSON_AGAIN", status)
             ELSE Post(Tail(events), "SEND_JSON_FINISHED", status),
             delivered' = delivered \cup {m \in {Head(queue)} : status = "SEND_OK"},
             UNCHANGED <<queue, send_counter, timer, online, fault, unused, other>>,
             Clears(FALSE)
      PROVE  PumpInv'
  <2> DEFINE sig == IF status = "SEND_ERROR" THEN "SEND_JSON_AGAIN" ELSE "SEND_JSON_FINISHED"
             e == Ev(sig, status)
  <2>1. /\ Tail(events) \in Seq(Event) /\ Len(Tail(events)) < CoreQLen /\ Len(Tail(events)) <= CoreQLen
        /\ ~fault /\ ~NoPump(events)
    BY <1>1, Taken
  <2>2. Post(Tail(events), sig, status) /\ sig \in PumpSig \cup OtherSig /\ refused \in BOOLEAN
    BY <1>1, <1>3 DEF PumpSig, TypeOK
  <2> HIDE DEF sig
  <2>3. /\ e \in Event /\ events' \in Seq(Event) /\ Len(events') <= CoreQLen /\ refused' \in BOOLEAN
        /\ events' = Append(Tail(events), e)
    BY <2>1, <2>2, PostIs
  <2>4. /\ queue' = queue /\ queue[1] = Head(queue) /\ unused' = unused
        /\ delivered' \subseteq delivered \cup {queue[1]}
        /\ delivered' = IF status = "SEND_OK" THEN delivered \cup {queue[1]} ELSE delivered
    BY <1>1, <1>3, TailIs DEF TypeOK
  <2>5. OnlyHeadSent' /\ delivered' \subseteq Msg
    <3>1. UNCHANGED <<queue, unused>> /\ queue # <<>>
      BY <1>3
    <3> QED BY <3>1, <2>4, HeadsKept
  <2>6. PumpEvent(e) /\ (Finished(e) <=> status # "SEND_ERROR") /\ e.par = status
    BY DEF PumpEvent, PumpSig, Finished, Ev, sig
  <2>7. stale' <=> stale
    <3>1. \E i \in 1..Len(events') : PumpEvent(events'[i])
      BY <2>1, <2>3, <2>6, AppendIs
    <3> QED BY <3>1, <1>1, <1>3, StaleWhile
  <2>8. TypeOK'
    <3>1. stale' \in BOOLEAN
      BY <1>3 DEF Clears
    <3> QED BY <1>1, <1>3, <2>3, <2>5, <3>1 DEF TypeOK
  <2>9. ~stale' => ~stale /\ ~timer' /\ queue' # <<>> /\ queue[1] \notin delivered
    <3> SUFFICES ASSUME ~stale PROVE ~timer /\ queue[1] \notin delivered
      BY <1>3, <2>7
    <3>1. ~timer /\ AtMostOne(events)
      BY <2>1 DEF PumpInv, Pumping
    <3>2. \A i \in 1..Len(events) : ~Finished(events[i])
      <4>1. events \in Seq(Event) /\ events # <<>> /\ Head(events).sig = "SEND_JSON" /\ PumpEvent(Head(events))
        BY <1>1, Taken
      <4>2. 1 \in 1..Len(events) /\ Head(events) = events[1]
        BY <4>1, TailIs
      <4>3. \A i \in 1..Len(events) : Finished(events[i]) => i = 1
        BY <3>1, <4>1, <4>2 DEF AtMostOne, Finished, PumpEvent, PumpSig
      <4> QED BY <4>1, <4>2, <4>3 DEF Finished
    <3> QED BY <1>3, <3>1, <3>2 DEF PumpInv, SentIsDropped
  <2>10. SentIsDropped' /\ Outcomes' /\ Pumping'
    <3>1. ~stale' => (Finished(e) => (e.par = "SEND_OK" <=> queue'[1] \in delivered'))
      BY <2>4, <2>6, <2>9
    <3>2. queue'[1] \in delivered' => Finished(e) \/ (queue' = queue /\ delivered' = delivered)
      BY <2>4, <2>6
    <3>3. Finished(e) => e.par \in Result
      BY <2>6
    <3>4. fault' = fault
      BY <1>3
    <3> HIDE DEF e
    <3>5. /\ ~stale' => ~stale /\ ~timer' /\ queue' # <<>>
                        /\ (Finished(e) => (e.par = "SEND_OK" <=> queue'[1] \in delivered'))
          /\ queue' # <<>> /\ queue'[1] \in delivered'
                => Finished(e) \/ (queue' = queue /\ delivered' = delivered /\ "SEND_JSON" # "SEND_JSON_FINISHED")
      BY <2>9, <3>1, <3>2
    <3> QED BY <1>1, <2>3, <3>3, <3>4, <3>5, PumpGoesOn
  <2> QED BY <2>5, <2>8, <2>10 DEF PumpInv
<1> QED BY <1>2, <1>3, <1>1 DEF SendJson

LEMMA FinishedInTail ==
    ASSUME NEW q \in Seq(Event), q # <<>>, ~Finished(Head(q)), \E i \in 1..Len(q) : Finished(q[i])
    PROVE  \E i \in 1..Len(Tail(q)) : Finished(Tail(q)[i])
<1>1. PICK i \in 1..Len(q) : Finished(q[i])
  OBVIOUS
<1>2. i # 1 /\ Len(q) \in Nat /\ Len(Tail(q)) = Len(q) - 1
  BY <1>1, TailIs
<1>3. i - 1 \in 1..Len(Tail(q)) /\ Tail(q)[i - 1] = q[i]
  BY <1>2, TailIs
<1> QED BY <1>1, <1>3

LEMMA OutcomesInTail ==
    ASSUME TypeOK, Outcomes, events # <<>>
    PROVE  \A i \in 1..Len(Tail(events)) : Finished(Tail(events)[i]) => Tail(events)[i].par \in Result
<1>1. \A i \in 1..Len(Tail(events)) : i + 1 \in 1..Len(events) /\ Tail(events)[i] = events[i + 1]
  BY TailIs DEF TypeOK
<1> QED BY <1>1 DEF Outcomes

\* Taking its event, the one pump is at its head, which is not sent yet.
LEMMA OnlyPump ==
    ASSUME PumpInv, ~stale, NEW sig \in PumpSig, Take(sig)
    PROVE  /\ ~timer /\ NoPump(Tail(events)) /\ queue # <<>>
           /\ sig # "SEND_JSON_FINISHED" => queue[1] \notin delivered
<1>1. /\ events \in Seq(Event) /\ events # <<>> /\ Head(events).sig = sig
      /\ PumpEvent(Head(events)) /\ ~NoPump(events)
  BY Taken DEF PumpInv
<1>2. ~timer /\ AtMostOne(events) /\ queue # <<>>
  BY <1>1 DEF PumpInv, Pumping
<1>3. NoPump(Tail(events))
  BY <1>1, <1>2, TailPump
<1>4. ASSUME sig # "SEND_JSON_FINISHED", queue[1] \in delivered PROVE FALSE
  <2>1. \E i \in 1..Len(Tail(events)) : Finished(Tail(events)[i])
    BY <1>1, <1>2, <1>4, FinishedInTail DEF PumpInv, SentIsDropped, Finished
  <2> QED BY <2>1, <1>3 DEF NoPump, PumpEvent, PumpSig, Finished
<1> QED BY <1>2, <1>3, <1>4

\* Nothing of an empty queue is sent.
LEMMA ClearedKeeps ==
    ASSUME PumpInv, queue' = <<>>, Outcomes', ~fault', Clears(TRUE)
    PROVE  SentIsDropped' /\ Outcomes' /\ Pumping'
<1>1. SentIsDropped'
  BY DEF SentIsDropped
<1>2. CASE stale'
  BY <1>1, <1>2 DEF Pumping
<1>3. CASE ~stale'
  <2>1. PumpQuiet'
    BY <1>3, Zenon DEF Clears
  <2>2. ~timer' /\ NoPump(events')
    BY <2>1 DEF PumpQuiet, NoPump
  <2> QED BY <2>2, QuietKeeps
<1> QED BY <1>2, <1>3

LEMMA AgainStep == ASSUME PumpInv, SendJsonAgain PROVE PumpInv'
<1>1. /\ TypeOK /\ Outcomes /\ Take("SEND_JSON_AGAIN") /\ "SEND_JSON_AGAIN" \in PumpSig
      /\ refused \in BOOLEAN
  BY DEF PumpInv, SendJsonAgain, PumpSig, TypeOK
<1>2. /\ Tail(events) \in Seq(Event) /\ Len(Tail(events)) < CoreQLen /\ Len(Tail(events)) <= CoreQLen
      /\ ~fault /\ ~NoPump(events) /\ events \in Seq(Event) /\ events # <<>>
      /\ Head(events).sig = "SEND_JSON_AGAIN"
  BY <1>1, Taken
<1>3. CASE Trap
  BY <1>1, <1>3, TrapStep
<1>4. CASE /\ queue # <<>> /\ timer' = FALSE /\ send_counter' = 0 /\ queue' = <<>>
           /\ Post(Tail(events), "OTHER", "none") /\ Clears(TRUE)
           /\ UNCHANGED <<online, fault, unused, other, delivered>>
  <2> DEFINE e == Ev("OTHER", "none")
  <2>1. /\ e \in Event /\ events' \in Seq(Event) /\ Len(events') <= CoreQLen /\ refused' \in BOOLEAN
        /\ events' = Append(Tail(events), e)
    BY <1>1, <1>2, <1>4, PostIs DEF OtherSig
  <2>2. OnlyHeadSent' /\ queue' \in Seq(Msg) /\ Len(queue') <= QueueMax
    BY <1>4, HeadsKept
  <2>3. ~Finished(e)
    BY DEF Finished, Ev
  <2>4. Outcomes'
    <3>1. \A i \in 1..Len(events') : (i \in 1..Len(Tail(events)) /\ events'[i] = Tail(events)[i]) \/ events'[i] = e
      BY <1>2, <2>1, AppendIs
    <3> QED BY <3>1, <2>3, <1>1, <1>2, OutcomesInTail DEF Outcomes
  <2>5. TypeOK'
    <3>1. stale' \in BOOLEAN /\ timer' \in BOOLEAN
      BY <1>4 DEF Clears
    <3>2. send_counter' \in 0..3
      BY <1>4
    <3> QED BY <1>1, <1>4, <2>1, <2>2, <3>1, <3>2 DEF TypeOK
  <2>6. SentIsDropped' /\ Outcomes' /\ Pumping'
    BY <1>2, <1>4, <2>4, ClearedKeeps
  <2> QED BY <2>2, <2>5, <2>6 DEF PumpInv
<1>5. CASE /\ queue # <<>> /\ timer' = FALSE /\ send_counter' = 0 /\ UNCHANGED queue
           /\ Post(Tail(events), "SEND_JSON_FINISHED", "SEND_ERROR") /\ Clears(FALSE)
           /\ UNCHANGED <<online, fault, unused, other, delivered>>
  <2> DEFINE e == Ev("SEND_JSON_FINISHED", "SEND_ERROR")
  <2>1. /\ e \in Event /\ events' \in Seq(Event) /\ Len(events') <= CoreQLen /\ refused' \in BOOLEAN
        /\ events' = Append(Tail(events), e)
    BY <1>1, <1>2, <1>5, PostIs DEF PumpSig, Result
  <2>2. OnlyHeadSent'
    BY <1>5, HeadsKept
  <2>3. Finished(e) /\ PumpEvent(e) /\ e.par = "SEND_ERROR" /\ e.par \in Result /\ e.par # "SEND_OK"
    BY DEF Finished, Ev, PumpEvent, PumpSig, Result
  <2>4. stale' <=> stale
    <3>1. \E i \in 1..Len(events') : PumpEvent(events'[i])
      BY <1>2, <2>1, <2>3, AppendIs
    <3> QED BY <3>1, <1>1, <1>5, StaleWhile
  <2>5. TypeOK'
    <3>1. stale' \in BOOLEAN /\ timer' \in BOOLEAN
      BY <1>5 DEF Clears
    <3>2. send_counter' \in 0..3
      BY <1>5
    <3> QED BY <1>1, <1>5, <2>1, <3>1, <3>2 DEF TypeOK
  <2>6. ~stale' => ~stale /\ ~timer' /\ queue' # <<>> /\ queue'[1] \notin delivered'
    BY <1>1, <1>5, <2>4, OnlyPump
  <2>7. SentIsDropped' /\ Outcomes' /\ Pumping'
    <3>1. fault' = fault /\ UNCHANGED <<queue, delivered>>
      BY <1>5
    <3> HIDE DEF e
    <3> QED BY <1>1, <2>1, <2>3, <2>6, <3>1, PumpGoesOn
  <2> QED BY <2>2, <2>5, <2>7 DEF PumpInv
<1>6. CASE /\ send_counter < 3 /\ timer' = TRUE /\ send_counter' = send_counter + 1
           /\ NoPost(Tail(events)) /\ Clears(FALSE)
           /\ UNCHANGED <<queue, online, fault, unused, other, delivered>>
  <2>1. events' = Tail(events) /\ refused' = refused
    BY <1>6 DEF NoPost
  <2>2. OnlyHeadSent' /\ Outcomes'
    BY <1>1, <1>2, <1>6, <2>1, OutcomesInTail DEF PumpInv, OnlyHeadSent, Outcomes
  <2>3. stale' <=> stale
    BY <1>1, <1>6, StaleWhile
  <2>4. TypeOK'
    <3>1. stale' \in BOOLEAN /\ timer' \in BOOLEAN /\ send_counter' \in 0..3
      BY <1>1, <1>6 DEF Clears, TypeOK
    <3> QED BY <1>1, <1>2, <1>6, <2>1, <3>1 DEF TypeOK
  <2>5. SentIsDropped'
    BY <1>2, <1>6, <2>1, FinishedInTail DEF PumpInv, SentIsDropped, Finished
  <2>6. ASSUME ~stale' PROVE Pumping'
    <3>1. NoPump(events') /\ queue' # <<>> /\ ~fault'
      BY <1>1, <1>2, <1>6, <2>1, <2>3, <2>6, OnlyPump
    <3> QED BY <3>1 DEF Pumping, AtMostOne, NoPump, PumpEvent, PumpSig, Finished
  <2> QED BY <2>2, <2>4, <2>5, <2>6 DEF PumpInv, Pumping
<1> QED BY <1>3, <1>4, <1>5, <1>6 DEF SendJsonAgain

\* The head is dropped, sent or not.
LEMMA FinishedStep == ASSUME PumpInv, SendNextJson PROVE PumpInv'
<1>1. /\ TypeOK /\ Outcomes /\ Take("SEND_JSON_FINISHED") /\ "SEND_JSON_FINISHED" \in PumpSig
      /\ refused \in BOOLEAN /\ queue \in Seq(Msg)
  BY DEF PumpInv, SendNextJson, PumpSig, TypeOK
<1>2. /\ Tail(events) \in Seq(Event) /\ Len(Tail(events)) < CoreQLen /\ Len(Tail(events)) <= CoreQLen
      /\ ~fault /\ events # <<>>
  BY <1>1, Taken
<1>3. CASE Trap
  BY <1>1, <1>3, TrapStep
<1>4. CASE /\ queue # <<>> /\ queue' = Tail(queue) /\ send_counter' = 0
           /\ IF GoesOn(Head(events).par) /\ Len(queue') > 0
              THEN Post(Tail(events), "SEND_JSON", "none")
              ELSE NoPost(Tail(events))
           /\ UNCHANGED <<timer, online, fault, unused, other, delivered>>
           /\ Clears(FALSE)
  <2>1. queue' # queue
    BY <1>1, <1>4, TailIs
  <2>2. /\ OnlyHeadSent' /\ queue' \in Seq(Msg) /\ Len(queue') <= QueueMax
        /\ queue' # <<>> => queue'[1] \notin delivered'
    BY <1>4, <2>1, HeadsKept
  <2>3. stale' \in BOOLEAN /\ send_counter' \in 0..3
    <3>1. stale' \in BOOLEAN
      BY <1>4 DEF Clears
    <3> QED BY <3>1, <1>4
  <2>4. CASE Post(Tail(events), "SEND_JSON", "none") /\ Len(queue') > 0
    <3> DEFINE e == Ev("SEND_JSON", "none")
    <3>1. /\ e \in Event /\ events' \in Seq(Event) /\ Len(events') <= CoreQLen /\ refused' \in BOOLEAN
          /\ events' = Append(Tail(events), e)
      BY <1>1, <1>2, <2>4, PostIs DEF PumpSig
    <3>2. PumpEvent(e) /\ ~Finished(e)
      BY DEF PumpEvent, PumpSig, Finished, Ev
    <3>3. stale' <=> stale
      <4>1. \E i \in 1..Len(events') : PumpEvent(events'[i])
        BY <1>2, <3>1, <3>2, AppendIs
      <4> QED BY <4>1, <1>1, <1>4, StaleWhile
    <3>4. TypeOK'
      BY <1>1, <1>4, <2>2, <2>3, <3>1 DEF TypeOK
    <3>5. ~stale' => ~stale /\ ~timer' /\ queue' # <<>>
      <4>1. queue' # <<>>
        BY <2>2, <2>4
      <4>2. ~stale => ~timer
        BY <1>1, OnlyPump
      <4> QED BY <4>1, <4>2, <1>4, <3>3
    <3>6. SentIsDropped' /\ Outcomes' /\ Pumping'
      <4>1. fault' = fault
        BY <1>4
      <4> HIDE DEF e
      <4> QED BY <1>1, <2>2, <3>1, <3>2, <3>5, <4>1, PumpGoesOn
    <3> QED BY <2>2, <3>4, <3>6 DEF PumpInv
  <2>5. CASE NoPost(Tail(events))
    <3>1. events' = Tail(events) /\ refused' = refused
      BY <2>5 DEF NoPost
    <3>2. TypeOK'
      BY <1>1, <1>2, <1>4, <2>2, <2>3, <3>1 DEF TypeOK
    <3>3. Outcomes' /\ SentIsDropped'
      BY <1>1, <1>2, <2>2, <3>1, OutcomesInTail DEF Outcomes, SentIsDropped
    <3>4. ASSUME ~stale' PROVE ~timer' /\ NoPump(events')
      <4>1. CASE ~stale
        BY <4>1, <1>1, <1>4, <3>1, OnlyPump
      <4>2. CASE stale
        <5>1. PumpQuiet'
          BY <4>2, <3>4, <1>4, Zenon DEF Clears
        <5> QED BY <5>1 DEF PumpQuiet, NoPump
      <4> QED BY <4>1, <4>2
    <3>5. Pumping'
      <4>1. CASE stale'
        BY <4>1 DEF Pumping
      <4>2. CASE ~stale'
        BY <4>2, <1>2, <1>4, <2>2, <3>4, QuietKeeps
      <4> QED BY <4>1, <4>2
    <3> QED BY <2>2, <3>2, <3>3, <3>5 DEF PumpInv
  <2> QED BY <2>4, <2>5, <1>4
<1> QED BY <1>3, <1>4 DEF SendNextJson

\* The retry timer sends its event if there is anything to send.
LEMMA TimerStep == ASSUME PumpInv, SendQueueTimer PROVE PumpInv'
<1>1. /\ TypeOK /\ Outcomes /\ OnlyHeadSent /\ ~fault /\ timer /\ timer' = FALSE
      /\ IF Len(queue) > 0 THEN Post(events, "SEND_JSON", "none") ELSE NoPost(events)
      /\ UNCHANGED <<queue, send_counter, online, fault, unused, other, delivered>>
      /\ Clears(FALSE)
  BY DEF PumpInv, SendQueueTimer
<1>2. /\ events \in Seq(Event) /\ Len(events) <= CoreQLen /\ refused \in BOOLEAN /\ queue \in Seq(Msg)
      /\ stale' \in BOOLEAN /\ timer' \in BOOLEAN
  BY <1>1 DEF TypeOK, Clears
<1>3. OnlyHeadSent'
  BY <1>1 DEF OnlyHeadSent
<1>4. ~stale => NoPump(events) /\ queue # <<>>
  BY <1>1 DEF PumpInv, Pumping
<1>5. ASSUME NoPump(events) PROVE queue # <<>> => queue[1] \notin delivered
  BY <1>5 DEF PumpInv, SentIsDropped, NoPump, PumpEvent, PumpSig, Finished
<1>6. CASE events' = events /\ refused' \in BOOLEAN
  <2>1. TypeOK'
    BY <1>1, <1>2, <1>6 DEF TypeOK
  <2>2. Outcomes' /\ SentIsDropped'
    BY <1>1, <1>6 DEF PumpInv, Outcomes, SentIsDropped
  <2>3. ASSUME ~stale' PROVE NoPump(events)
    <3>1. CASE stale
      <4>1. PumpQuiet'
        BY <3>1, <2>3, <1>1, Zenon DEF Clears
      <4> QED BY <4>1, <1>6 DEF PumpQuiet, NoPump
    <3> QED BY <3>1, <1>4
  <2>4. Pumping'
    <3>1. CASE stale'
      BY <3>1 DEF Pumping
    <3>2. CASE ~stale'
      BY <3>2, <1>1, <1>5, <1>6, <2>3, QuietKeeps
    <3> QED BY <3>1, <3>2
  <2> QED BY <1>3, <2>1, <2>2, <2>4 DEF PumpInv
<1>7. CASE Post(events, "SEND_JSON", "none") /\ Len(queue) > 0
  <2> DEFINE e == Ev("SEND_JSON", "none")
  <2>1. /\ e \in Event /\ events' \in Seq(Event) /\ Len(events') <= CoreQLen /\ refused' \in BOOLEAN
        /\ events' = events \/ events' = Append(events, e)
    BY <1>2, <1>7, PostIs DEF PumpSig
  <2>2. CASE events' = Append(events, e)
    <3>1. PumpEvent(e) /\ ~Finished(e)
      BY DEF PumpEvent, PumpSig, Finished, Ev
    <3>2. /\ \A i \in 1..Len(events) : i \in 1..Len(events') /\ events'[i] = events[i]
          /\ \A i \in 1..Len(events') : (i \in 1..Len(events) /\ events'[i] = events[i]) \/ events'[i] = e
          /\ \E i \in 1..Len(events') : PumpEvent(events'[i])
      BY <1>2, <2>1, <2>2, <3>1, AppendIs
    <3>3. stale' <=> stale
      BY <1>1, <3>2, StaleWhile
    <3>4. TypeOK'
      BY <1>1, <1>2, <2>1 DEF TypeOK
    <3>5. Outcomes' /\ SentIsDropped'
      BY <1>1, <3>1, <3>2 DEF PumpInv, Outcomes, SentIsDropped
    <3>6. ASSUME ~stale' PROVE Pumping'
      <4> DEFINE q == Append(events, e)
      <4>1. AtMostOne(q) /\ \A i \in 1..Len(q) : Finished(q[i]) => q[i] = e
        BY <1>2, <1>4, <2>1, <3>3, <3>6, AppendPump
      <4>2. AtMostOne(events') /\ \A i \in 1..Len(events') : ~Finished(events'[i])
        BY <4>1, <2>2, <3>1
      <4> QED BY <1>1, <1>4, <3>3, <3>6, <4>2 DEF Pumping
    <3> QED BY <1>3, <3>4, <3>5, <3>6 DEF PumpInv, Pumping
  <2> QED BY <2>1, <2>2, <1>6
<1>8. CASE NoPost(events)
  BY <1>2, <1>6, <1>8 DEF NoPost
<1> QED BY <1>1, <1>7, <1>8

\* A new connection or an upgrade clears the queue, whatever the pump does.
LEMMA ClearStep == ASSUME PumpInv, ServerConnected \/ UpgradeEnter PROVE PumpInv'
<1>1. TypeOK /\ Outcomes /\ refused \in BOOLEAN
  BY DEF PumpInv, TypeOK
<1>2. PICK sig \in OtherSig : Take(sig)
  BY DEF ServerConnected, UpgradeEnter, OtherSig
<1>3. /\ queue' = <<>> /\ Clears(TRUE)
      /\ UNCHANGED <<send_counter, timer, online, fault, unused, other, delivered>>
      /\ Post(Tail(events), "OTHER", "none") \/ NoPost(Tail(events))
  BY DEF ServerConnected, UpgradeEnter, QueueDeleteAll
<1>4. /\ Tail(events) \in Seq(Event) /\ Len(Tail(events)) < CoreQLen /\ Len(Tail(events)) <= CoreQLen
      /\ ~fault /\ events # <<>>
  BY <1>1, <1>2, Taken
<1> DEFINE e == Ev("OTHER", "none")
<1>5. /\ events' \in Seq(Event) /\ Len(events') <= CoreQLen /\ refused' \in BOOLEAN
      /\ events' = Tail(events) \/ (e \in Event /\ events' = Append(Tail(events), e))
  <2>1. CASE Post(Tail(events), "OTHER", "none")
    BY <2>1, <1>1, <1>4, PostIs DEF OtherSig
  <2>2. CASE NoPost(Tail(events))
    BY <2>2, <1>1, <1>4 DEF NoPost
  <2> QED BY <2>1, <2>2, <1>3
<1>6. OnlyHeadSent' /\ queue' \in Seq(Msg) /\ Len(queue') <= QueueMax
  BY <1>3, HeadsKept
<1>7. Outcomes'
  <2>1. \A i \in 1..Len(events') : (i \in 1..Len(Tail(events)) /\ events'[i] = Tail(events)[i]) \/ events'[i] = e
    BY <1>4, <1>5, AppendIs
  <2>2. ~Finished(e)
    BY DEF Finished, Ev
  <2> QED BY <2>1, <2>2, <1>1, <1>4, OutcomesInTail DEF Outcomes
<1>8. TypeOK'
  <2>1. stale' \in BOOLEAN
    BY <1>3 DEF Clears
  <2> QED BY <1>1, <1>3, <1>5, <1>6, <2>1 DEF TypeOK
<1> QED BY <1>3, <1>4, <1>6, <1>7, <1>8, ClearedKeeps DEF PumpInv

\* Events of other components come and go beside the pump.
LEMMA OtherEvents ==
    ASSUME TypeOK,
           \/ OtherEvent
           \/ \E sig \in OtherSig : OtherPost(sig)
    PROVE  /\ SamePump(events, events')
           /\ events' \in Seq(Event) /\ Len(events') <= CoreQLen /\ refused' \in BOOLEAN
<1>1. events \in Seq(Event) /\ Len(events) <= CoreQLen /\ refused \in BOOLEAN
  BY DEF TypeOK
<1>2. CASE OtherEvent
  <2>1. /\ Tail(events) \in Seq(Event) /\ Len(Tail(events)) <= CoreQLen
        /\ events # <<>> /\ (PumpEvent(Head(events)) <=> "OTHER" \in PumpSig)
    BY <1>2, Taken DEF OtherEvent
  <2>2. SamePump(events, Tail(events))
    BY <1>1, <2>1, SameTail DEF PumpSig
  <2> QED BY <1>1, <1>2, <2>1, <2>2 DEF OtherEvent, NoPost
<1>3. ASSUME NEW sig \in OtherSig, OtherPost(sig)
      PROVE  /\ SamePump(events, events')
             /\ events' \in Seq(Event) /\ Len(events') <= CoreQLen /\ refused' \in BOOLEAN
  <2> DEFINE e == Ev(sig, "none")
  <2>1. /\ e \in Event /\ events' \in Seq(Event) /\ Len(events') <= CoreQLen /\ refused' \in BOOLEAN
        /\ events' = events \/ events' = Append(events, e)
    BY <1>1, <1>3, PostIs DEF OtherPost
  <2>2. ~PumpEvent(e)
    BY DEF PumpEvent, PumpSig, OtherSig, Ev
  <2>3. SamePump(events, Append(events, e)) /\ SamePump(events, events)
    BY <1>1, <2>1, <2>2, SameAppend DEF SamePump
  <2> QED BY <2>1, <2>3
<1> QED BY <1>2, <1>3

LEMMA OtherStep ==
    ASSUME PumpInv, \/ OtherEvent \/ SetMode \/ UNCHANGED vars
                    \/ \E sig \in OtherSig : OtherPost(sig)
    PROVE  PumpInv'
<1>1. TypeOK /\ OnlyHeadSent /\ events \in Seq(Event) /\ Len(events) <= CoreQLen /\ refused \in BOOLEAN
  BY DEF PumpInv, TypeOK
<1>2. UNCHANGED <<queue, send_counter, timer, fault, unused, delivered, stale>>
  BY DEF OtherEvent, SetMode, OtherPost, vars
<1>3. /\ SamePump(events, events')
      /\ events' \in Seq(Event) /\ Len(events') <= CoreQLen /\ refused' \in BOOLEAN
  <2>1. CASE UNCHANGED <<events, refused>>
    BY <2>1, <1>1 DEF SamePump
  <2> QED BY <2>1, <1>1, OtherEvents DEF SetMode, vars
<1>4. other' \in 0..MaxOther
  <2>1. other' = other \/ (other < MaxOther /\ other' = other + 1)
    BY DEF OtherEvent, SetMode, OtherPost, vars
  <2> QED BY <1>1, <2>1, SendPumpAssumption DEF TypeOK
<1>5. online' \in BOOLEAN
  <2>1. online' = online \/ online' = ~online
    BY DEF OtherEvent, SetMode, OtherPost, vars
  <2> QED BY <1>1, <2>1 DEF TypeOK
<1>6. TypeOK'
  BY <1>1, <1>2, <1>3, <1>4, <1>5 DEF TypeOK
<1>7. SentIsDropped' /\ Outcomes' /\ Pumping'
  BY <1>2, <1>3, Keeps
<1> QED BY <1>1, <1>2, <1>6, <1>7 DEF PumpInv, OnlyHeadSent

LEMMA RestartStep == ASSUME PumpInv, Restart PROVE PumpInv'
<1>1. /\ queue' = <<>> /\ events' = <<>> /\ send_counter' = 0
      /\ timer' = FALSE /\ online' = FALSE /\ fault' = FALSE /\ stale' = FALSE /\ refused' = FALSE
      /\ UNCHANGED <<unused, other, delivered>>
  BY DEF Restart
<1>2. TypeOK'
  <2>1. {timer', online', fault', stale', refused'} \subseteq BOOLEAN
    BY <1>1
  <2>2. queue' \in Seq(Msg) /\ Len(queue') <= QueueMax /\ events' \in Seq(Event) /\ Len(events') <= CoreQLen
    BY <1>1, SendPumpAssumption
  <2>3. send_counter' \in 0..3
    BY <1>1
  <2> QED BY <1>1, <2>1, <2>2, <2>3 DEF PumpInv, TypeOK
<1>3. OnlyHeadSent'
  BY <1>1, HeadsKept
<1>4. NoPump(events')
  BY <1>1 DEF NoPump
<1> QED BY <1>1, <1>2, <1>3, <1>4, QuietKeeps DEF PumpInv

LEMMA PumpInvStep == PumpInv /\ [Next]_vars => PumpInv'
BY AddStep, SendStep, AgainStep, FinishedStep, TimerStep, ClearStep, OtherStep, RestartStep
   DEF Next, CoreTask, Pump

------------------------------------------------------------------------------
\* One pump, that has something to send, until the queue is cleared under it.
THEOREM PumpIsOne == Spec => []OnePump
<1>1. PumpInv => OnePump
  BY QuietIs DEF PumpInv, Pumping, OnePump, AtMostOne, NoPump
<1> QED BY <1>1, PumpInvInit, PumpInvStep, PTL DEF Spec

\* No message is sent twice or dropped as sent without having been.
THEOREM MessageSentOnce == Spec => []SentOnce
<1>1. PumpInv => SentOnce
  <2> SUFFICES ASSUME PumpInv, ~stale PROVE
        /\ \A i \in 1..Len(events) :
              events[i].sig = "SEND_JSON_FINISHED" => (events[i].par = "SEND_OK" <=> Head(queue) \in delivered)
        /\ (timer \/ \E i \in 1..Len(events) : events[i].sig \in {"SEND_JSON", "SEND_JSON_AGAIN"})
               => Head(queue) \notin delivered
        /\ \A i \in 2..Len(queue) : queue[i] \notin delivered
    BY DEF SentOnce
  <2>1. timer \/ ~NoPump(events) => queue # <<>> /\ Head(queue) = queue[1]
    BY TailIs DEF PumpInv, Pumping, TypeOK
  <2>2. ASSUME NEW i \in 1..Len(events), events[i].sig = "SEND_JSON_FINISHED"
        PROVE  events[i].par = "SEND_OK" <=> Head(queue) \in delivered
    <3>1. ~NoPump(events)
      BY <2>2 DEF NoPump, PumpEvent, PumpSig
    <3> QED BY <2>1, <2>2, <3>1 DEF PumpInv, Pumping, Finished
  <2>3. ASSUME timer \/ \E i \in 1..Len(events) : events[i].sig \in {"SEND_JSON", "SEND_JSON_AGAIN"},
               Head(queue) \in delivered
        PROVE  FALSE
    <3>1. timer \/ ~NoPump(events)
      BY <2>3 DEF NoPump, PumpEvent, PumpSig
    <3>2. PICK k \in 1..Len(events) : Finished(events[k])
      BY <2>1, <2>3, <3>1 DEF PumpInv, SentIsDropped
    <3>3. ~timer
      BY <3>2 DEF PumpInv, Pumping, NoPump, PumpEvent, PumpSig, Finished
    <3>4. PICK i \in 1..Len(events) : events[i].sig \in {"SEND_JSON", "SEND_JSON_AGAIN"}
      BY <2>3, <3>3
    <3>5. i = k
      BY <3>2, <3>4 DEF PumpInv, Pumping, AtMostOne, PumpEvent, PumpSig, Finished
    <3> QED BY <3>2, <3>4, <3>5 DEF Finished
  <2> QED BY <2>2, <2>3 DEF PumpInv, OnlyHeadSent
<1> QED BY <1>1, PumpInvInit, PumpInvStep, PTL DEF Spec

\* The pump stops with messages left only offline or for want of an event.
THEOREM PumpStopsOffline == Spec => StopsOnlyOffline
<1>1. PumpInv /\ [Next]_vars
        => [(~PumpQuiet /\ PumpQuiet' /\ queue' # <<>>) =>
               \/ Head(events) = Ev("SEND_JSON_FINISHED", "NETWORK_ABNORMAL")
               \/ refused']_vars
  <2> SUFFICES ASSUME PumpInv, Next, ~PumpQuiet, PumpQuiet', queue' # <<>>, ~refused'
               PROVE  Head(events) = Ev("SEND_JSON_FINISHED", "NETWORK_ABNORMAL")
    OBVIOUS
  <2>1. /\ TypeOK /\ ~timer' /\ NoPump(events') /\ (timer \/ ~NoPump(events))
        /\ events \in Seq(Event) /\ Len(events) <= CoreQLen /\ refused \in BOOLEAN
    BY QuietIs DEF PumpInv, PumpQuiet, NoPump, TypeOK
  <2>2. ~ServerConnected /\ ~UpgradeEnter /\ ~Restart
    BY DEF ServerConnected, UpgradeEnter, QueueDeleteAll, Restart
  <2>3. ~(\E sig \in OtherSig : OtherPost(sig)) /\ ~OtherEvent /\ ~SetMode
    <3>1. OtherEvent \/ (\E sig \in OtherSig : OtherPost(sig)) => NoPump(events) /\ timer' = timer
      BY <2>1, OtherEvents DEF SamePump, OtherEvent, OtherPost
    <3> QED BY <3>1, <2>1 DEF SetMode
  <2>4. ASSUME NEW q \in Seq(Event), Len(q) <= CoreQLen, NEW sig \in PumpSig,
               NEW par \in Result \cup {"none"}, Post(q, sig, par)
        PROVE  FALSE
    <3>1. Ev(sig, par) \in Event /\ events' = Append(q, Ev(sig, par))
      BY <2>1, <2>4, PostIs
    <3>2. PumpEvent(Ev(sig, par)) /\ \E i \in 1..Len(events') : events'[i] = Ev(sig, par)
      BY <3>1, AppendIs DEF PumpEvent, Ev
    <3> QED BY <2>1, <3>2 DEF NoPump
  <2>5. ASSUME NEW sig \in PumpSig, Take(sig)
        PROVE  Tail(events) \in Seq(Event) /\ Len(Tail(events)) <= CoreQLen
               /\ events # <<>> /\ Head(events).sig = sig
    BY <2>1, <2>5, Taken
  <2>6. ASSUME NEW m \in Msg, QueueAdd(m) PROVE FALSE
    <3>1. timer' = timer /\ (Post(events, "SEND_JSON", "none") \/ NoPost(events))
      BY <2>6 DEF QueueAdd
    <3> QED BY <3>1, <2>1, <2>4 DEF NoPost, PumpSig
  <2>7. ~Trap
    BY DEF Trap
  <2>8. ~SendJson
    <3>1. ASSUME SendJson PROVE FALSE
      <4>1. Tail(events) \in Seq(Event) /\ Len(Tail(events)) <= CoreQLen
        BY <3>1, <2>5 DEF SendJson, PumpSig
      <4> QED BY <3>1, <4>1, <2>4, <2>7 DEF SendJson, PumpSig
    <3> QED BY <3>1
  <2>9. ~SendJsonAgain
    <3>1. ASSUME SendJsonAgain PROVE FALSE
      <4>1. Tail(events) \in Seq(Event) /\ Len(Tail(events)) <= CoreQLen
        BY <3>1, <2>5 DEF SendJsonAgain, PumpSig
      <4>2. Post(Tail(events), "SEND_JSON_FINISHED", "SEND_ERROR")
        BY <3>1, <2>1, <2>7 DEF SendJsonAgain
      <4> QED BY <4>1, <4>2, <2>4 DEF PumpSig, Result
    <3> QED BY <3>1
  <2>10. ~SendQueueTimer
    <3>1. ASSUME SendQueueTimer PROVE FALSE
      <4>1. Len(queue) > 0
        BY <3>1, <2>1 DEF SendQueueTimer, TypeOK
      <4> QED BY <3>1, <4>1, <2>1, <2>4 DEF SendQueueTimer, PumpSig
    <3> QED BY <3>1
  <2>11. SendNextJson
    BY <2>2, <2>3, <2>6, <2>8, <2>9, <2>10 DEF Next, CoreTask, Pump
  <2>12. /\ Tail(events) \in Seq(Event) /\ Len(Tail(events)) <= CoreQLen
         /\ events # <<>> /\ Head(events).sig = "SEND_JSON_FINISHED" /\ queue' = Tail(queue) /\ queue # <<>>
    BY <2>5, <2>7, <2>11 DEF SendNextJson, PumpSig
  <2>13. ~GoesOn(Head(events).par)
    <3>1. Len(queue') > 0
      BY <2>1, <2>12, TailIs DEF TypeOK
    <3>2. ~Post(Tail(events), "SEND_JSON", "none")
      BY <2>4, <2>12 DEF PumpSig
    <3> QED BY <3>1, <3>2, <2>7, <2>11 DEF SendNextJson
  <2>14. Head(events) \in Event /\ Head(events).par \in Result
    <3>1. 1 \in 1..Len(events) /\ Head(events) = events[1] /\ Head(events) \in Event
      BY <2>1, <2>12, TailIs
    <3> QED BY <3>1, <2>12 DEF PumpInv, Outcomes, Finished
  <2> QED BY <2>12, <2>13, <2>14 DEF GoesOn, Result, Event, Ev
<1> QED BY <1>1, PumpInvInit, PumpInvStep, PTL DEF Spec, StopsOnlyOffline
==============================================================================
