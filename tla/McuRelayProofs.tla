--------------------------- MODULE McuRelayProofs ----------------------------
(* Proofs about the relay to the MCU and the reports of the state, for     *)
(* every set of messages and every size of the queues.                     *)
EXTENDS StateReports, TLAPS

\* With an MCU that answers in time one thing at most is going on: a sending
\* is posted, or the head is on the line, or its answer is.  The timer runs
\* from the sending to the answer, and only the head can have been read.
InTurn ==
    /\ events + Len(frames) + answers <= 1
    /\ timer <=> Len(frames) + answers = 1
    /\ events + answers > 0 => queue # <<>>
    /\ frames # <<>> => queue # <<>> /\ frames = <<Head(queue)>>
    /\ answers = 1 => Head(queue) \in got
    /\ \A m \in got : queue # <<>> /\ m = Head(queue)

Distinct == \A i, j \in 1..Len(queue) : queue[i] = queue[j] => i = j

RelayInv ==
    /\ TypeOK
    /\ Distinct
    /\ reliable => InTurn

------------------------------------------------------------------------------
LEMMA RelayInvInit == Init => RelayInv
<1> SUFFICES ASSUME Init PROVE RelayInv
  OBVIOUS
<1>1. queue = <<>> /\ frames = <<>> /\ Len(queue) = 0 /\ Len(frames) = 0
  BY DEF Init
<1>2. TypeOK
  <2>1. timer \in BOOLEAN /\ reliable \in BOOLEAN
    BY DEF Init
  <2>2. queue \in Seq(Msg) /\ frames \in Seq(Msg)
    BY <1>1
  <2> QED BY <1>1, <2>1, <2>2, McuRelayAssumption DEF Init, TypeOK
<1>3. Distinct
  BY <1>1 DEF Distinct
<1>4. InTurn
  BY <1>1 DEF Init, InTurn
<1> QED BY <1>2, <1>3, <1>4 DEF RelayInv

\* A message that is new to the queue.
LEMMA RelayStep == ASSUME RelayInv, NEW m \in Msg, Relay(m) PROVE RelayInv'
<1>1. /\ TypeOK /\ Distinct /\ Len(queue) < QueueMax /\ queue' = Append(queue, m)
      /\ \A k \in 1..Len(queue) : queue[k] # m
      /\ got' = got \ {m} /\ UNCHANGED <<timer, send_counter, frames, answers, reliable>>
      /\ events' = IF Len(queue') = 1 THEN Post(events) ELSE events
  BY DEF RelayInv, Relay, AddData, In
<1>2. queue' \in Seq(Msg) /\ Len(queue') = Len(queue) + 1
  BY <1>1 DEF TypeOK
<1>3. TypeOK'
  BY <1>1, <1>2, McuRelayAssumption DEF TypeOK, Post
<1>4. Distinct'
  BY <1>1, <1>2 DEF TypeOK, Distinct
<1>5. ASSUME reliable PROVE InTurn'
  <2>1. InTurn
    BY <1>1, <1>5 DEF RelayInv
  <2>2. CASE queue = <<>>
    <3>1. events = 0 /\ answers = 0 /\ frames = <<>> /\ got = {}
      BY <2>1, <2>2, <1>1 DEF InTurn, TypeOK
    <3>2. events' = 1
      BY <3>1, <2>2, <1>1, <1>2, McuRelayAssumption DEF Post
    <3> QED BY <3>1, <3>2, <2>1, <1>1, <1>2 DEF InTurn
  <2>3. CASE queue # <<>>
    <3>1. Len(queue) > 0 /\ Head(queue') = Head(queue) /\ Head(queue) # m
      BY <2>3, <1>1 DEF TypeOK
    <3>2. events' = events /\ queue' # <<>>
      BY <3>1, <1>1, <1>2 DEF TypeOK
    <3> QED BY <3>1, <3>2, <2>1, <1>1 DEF InTurn
  <2> QED BY <2>2, <2>3
<1> QED BY <1>1, <1>3, <1>4, <1>5 DEF RelayInv

\* What is left when the head has gone.
LEMMA TailFacts ==
    ASSUME TypeOK, Distinct, queue # <<>>, queue' = Tail(queue)
    PROVE  /\ queue' \in Seq(Msg) /\ Len(queue') = Len(queue) - 1
           /\ Distinct'
           /\ \A k \in 1..Len(queue') : queue'[k] = queue[k + 1] /\ queue'[k] # Head(queue)
BY DEF TypeOK, Distinct

\* An MCU that answers in time leaves nothing to repeat.
LEMMA RepeatsLate == ASSUME RelayInv, SendDataToMcuAgain PROVE ~reliable
<1>1. timer /\ (reliable => frames = <<>> /\ answers = 0)
  BY DEF SendDataToMcuAgain
<1> QED BY <1>1 DEF RelayInv, InTurn

LEMMA GiveUpStep == ASSUME RelayInv, SendDataToMcuAgain PROVE RelayInv'
<1>1. /\ TypeOK /\ Distinct /\ timer /\ (reliable => frames = <<>> /\ answers = 0)
      /\ timer' = FALSE /\ send_counter' = (send_counter + 1) % 2
      /\ queue' = (IF send_counter = 1 THEN Delete(queue) ELSE queue)
      /\ events' = Post(events) /\ got' = StillQueued
      /\ UNCHANGED <<frames, answers, reliable>>
  BY DEF RelayInv, SendDataToMcuAgain
<1>2. ~reliable
  BY RepeatsLate
<1>3. queue' \in Seq(Msg) /\ Len(queue') <= QueueMax /\ Distinct'
  <2>1. CASE queue' = queue
    BY <2>1, <1>1 DEF TypeOK, Distinct
  <2>2. CASE queue # <<>> /\ queue' = Tail(queue)
    <3>1. queue' \in Seq(Msg) /\ Len(queue') = Len(queue) - 1 /\ Distinct'
      BY <2>2, <1>1, TailFacts
    <3> QED BY <3>1, <1>1, McuRelayAssumption DEF TypeOK
  <2> QED BY <2>1, <2>2, <1>1 DEF Delete
<1>4. TypeOK'
  <2>1. send_counter' \in 0..1
    <3>1. send_counter = 0 \/ send_counter = 1
      BY <1>1 DEF TypeOK
    <3> QED BY <3>1, <1>1
  <2>2. events' \in 0..EventMax
    BY <1>1, McuRelayAssumption DEF TypeOK, Post
  <2> QED BY <2>1, <2>2, <1>1, <1>3 DEF TypeOK, StillQueued
<1> QED BY <1>1, <1>2, <1>3, <1>4 DEF RelayInv

\* An answer takes the head away, which nobody else is waiting for.
LEMMA AnswerStep == ASSUME RelayInv, ProcessAnswer PROVE RelayInv'
<1>1. /\ TypeOK /\ Distinct /\ answers > 0 /\ answers' = answers - 1 /\ timer' = FALSE
      /\ queue' = Delete(queue) /\ got' = StillQueued
      /\ UNCHANGED <<events, send_counter, frames, reliable>>
  BY DEF RelayInv, ProcessAnswer
<1>2. queue' \in Seq(Msg) /\ Len(queue') <= QueueMax /\ Distinct'
  <2>1. CASE queue' = queue
    BY <2>1, <1>1 DEF TypeOK, Distinct
  <2>2. CASE queue # <<>> /\ queue' = Tail(queue)
    <3>1. queue' \in Seq(Msg) /\ Len(queue') = Len(queue) - 1 /\ Distinct'
      BY <2>2, <1>1, TailFacts
    <3> QED BY <3>1, <1>1, McuRelayAssumption DEF TypeOK
  <2> QED BY <2>1, <2>2, <1>1 DEF Delete
<1>3. TypeOK'
  <2>1. timer' \in BOOLEAN /\ reliable' \in BOOLEAN /\ got' \subseteq Msg
    BY <1>1 DEF TypeOK, StillQueued
  <2>2. answers' \in 0..LineMax
    BY <1>1, McuRelayAssumption DEF TypeOK
  <2> QED BY <1>1, <1>2, <2>1, <2>2 DEF TypeOK
<1>4. ASSUME reliable PROVE InTurn'
  <2>1. InTurn
    BY <1>4 DEF RelayInv
  <2>2. answers = 1 /\ events = 0 /\ frames = <<>> /\ queue # <<>>
    BY <2>1, <1>1 DEF InTurn, TypeOK
  <2>3. queue' = Tail(queue)
    BY <2>2, <1>1 DEF Delete
  <2>4. got' = {}
    BY <2>1, <2>2, <2>3, <1>1, TailFacts DEF InTurn, StillQueued, In
  <2> QED BY <2>2, <2>4, <1>1 DEF InTurn
<1> QED BY <1>1, <1>2, <1>3, <1>4 DEF RelayInv

LEMMA TransStep == ASSUME RelayInv, TransDataToMcu PROVE RelayInv'
<1>1. /\ TypeOK /\ Distinct /\ events > 0 /\ events' = events - 1
      /\ UNCHANGED <<queue, send_counter, answers, got, reliable>>
      /\ IF queue # <<>>
         THEN /\ frames' = IF Len(frames) < LineMax THEN Append(frames, Head(queue)) ELSE frames
              /\ timer' = TRUE
         ELSE UNCHANGED <<frames, timer>>
  BY DEF RelayInv, TransDataToMcu
<1>2. TypeOK'
  <2>1. timer' \in BOOLEAN /\ reliable' \in BOOLEAN
    BY <1>1 DEF TypeOK
  <2>2. events' \in 0..EventMax
    BY <1>1, McuRelayAssumption DEF TypeOK
  <2>3. frames' \in Seq(Msg) /\ Len(frames') <= LineMax
    <3>1. CASE queue # <<>> /\ Len(frames) < LineMax
      BY <3>1, <1>1, McuRelayAssumption DEF TypeOK
    <3>2. CASE frames' = frames
      BY <3>2, <1>1 DEF TypeOK
    <3> QED BY <3>1, <3>2, <1>1
  <2> QED BY <1>1, <2>1, <2>2, <2>3 DEF TypeOK
<1>3. ASSUME reliable PROVE InTurn'
  <2>1. InTurn
    BY <1>3 DEF RelayInv
  <2>2. events = 1 /\ answers = 0 /\ frames = <<>> /\ queue # <<>>
    BY <2>1, <1>1 DEF InTurn, TypeOK
  <2>3. frames' = <<Head(queue)>> /\ timer'
    BY <2>2, <1>1, McuRelayAssumption DEF TypeOK
  <2> QED BY <2>1, <2>2, <2>3, <1>1 DEF InTurn, TypeOK
<1> QED BY <1>1, <1>2, <1>3 DEF RelayInv, Distinct

\* The MCU reads a frame.
LEMMA FrameRead ==
    ASSUME RelayInv, McuAnswers \/ McuIgnores
    PROVE  /\ frames # <<>> /\ Head(frames) \in Msg
           /\ UNCHANGED <<queue, events, timer, send_counter, reliable>>
           /\ frames' = Tail(frames) /\ frames' \in Seq(Msg) /\ Len(frames') = Len(frames) - 1
           /\ answers' \in 0..LineMax
<1>1. /\ frames # <<>> /\ frames' = Tail(frames)
      /\ UNCHANGED <<queue, events, timer, send_counter, reliable>>
      /\ answers' = answers \/ answers' = IF answers < LineMax THEN answers + 1 ELSE answers
  BY DEF McuAnswers, McuIgnores
<1>2. frames \in Seq(Msg) /\ answers \in 0..LineMax /\ LineMax \in Nat
  BY McuRelayAssumption DEF RelayInv, TypeOK
<1>3. Head(frames) \in Msg /\ frames' \in Seq(Msg) /\ Len(frames') = Len(frames) - 1
  BY <1>1, <1>2
<1>4. answers' \in 0..LineMax
  BY <1>1, <1>2
<1> QED BY <1>1, <1>3, <1>4

LEMMA ReadStep == ASSUME RelayInv, McuAnswers PROVE RelayInv'
<1>1. TypeOK /\ Distinct
  BY DEF RelayInv
<1>2. got' \subseteq Msg
  BY <1>1, FrameRead DEF TypeOK, McuAnswers
<1>3. TypeOK'
  <2>1. UNCHANGED <<queue, events, timer, send_counter, reliable>> /\ answers' \in 0..LineMax
    BY FrameRead
  <2>2. frames' \in Seq(Msg) /\ Len(frames') <= LineMax
    BY <1>1, FrameRead, McuRelayAssumption DEF TypeOK
  <2> QED BY <1>1, <1>2, <2>1, <2>2 DEF TypeOK
<1>4. ASSUME reliable PROVE InTurn'
  <2>1. InTurn
    BY <1>4 DEF RelayInv
  <2>2. frames = <<Head(queue)>> /\ queue # <<>> /\ Len(frames) = 1 /\ events = 0 /\ answers = 0
    BY <2>1, <1>1, FrameRead DEF InTurn, TypeOK
  <2>3. answers' = 1 /\ frames' = <<>>
    BY <2>2, <1>4, FrameRead, McuRelayAssumption DEF McuAnswers
  <2>4. got' = got \cup {Head(queue)}
    BY <2>2, <1>1 DEF McuAnswers, In, TypeOK
  <2> QED BY <2>1, <2>2, <2>3, <2>4, FrameRead DEF InTurn
<1> QED BY <1>1, <1>3, <1>4, FrameRead DEF RelayInv, Distinct

LEMMA IgnoreStep == ASSUME RelayInv, McuIgnores PROVE RelayInv'
<1>1. TypeOK /\ Distinct /\ ~reliable /\ UNCHANGED <<got, answers>>
  BY DEF RelayInv, McuIgnores
<1>2. UNCHANGED <<queue, events, timer, send_counter, reliable>> /\ answers' \in 0..LineMax
  BY FrameRead
<1>3. frames' \in Seq(Msg) /\ Len(frames') <= LineMax
  BY <1>1, FrameRead, McuRelayAssumption DEF TypeOK
<1>4. TypeOK'
  BY <1>1, <1>2, <1>3 DEF TypeOK
<1> QED BY <1>1, <1>2, <1>4 DEF RelayInv, Distinct

LEMMA RelayInvStep == RelayInv /\ [Next]_vars => RelayInv'
<1> SUFFICES ASSUME RelayInv, [Next]_vars PROVE RelayInv'
  OBVIOUS
<1>1. CASE UNCHANGED vars
  BY <1>1 DEF vars, RelayInv, TypeOK, Distinct, InTurn
<1> QED BY <1>1, RelayStep, GiveUpStep, AnswerStep, TransStep, ReadStep, IgnoreStep DEF Next

------------------------------------------------------------------------------
\* With an MCU that answers in time, an answer removes a message it has read.
THEOREM AnswersTheHead == Spec => AnswerIsForHead
<1>1. RelayInv /\ [Next]_vars
        => [(reliable /\ answers' < answers /\ queue # <<>>) => Head(queue) \in got]_vars
  <2> SUFFICES ASSUME RelayInv, Next, reliable, answers' < answers, queue # <<>>
               PROVE  Head(queue) \in got
    OBVIOUS
  <2>1. TypeOK /\ InTurn
    BY DEF RelayInv
  <2>2. answers \in Nat /\ LineMax \in Nat /\ answers' # answers
    BY <2>1, McuRelayAssumption DEF TypeOK
  <2>3. ASSUME McuAnswers PROVE FALSE
    <3>1. answers' = answers \/ answers' = answers + 1
      BY <2>3, <2>2 DEF McuAnswers
    <3> QED BY <3>1, <2>2
  <2>4. ProcessAnswer
    BY <2>2, <2>3 DEF Next, Relay, TransDataToMcu, SendDataToMcuAgain, McuIgnores
  <2> QED BY <2>1, <2>2, <2>4 DEF InTurn, TypeOK, ProcessAnswer
<1> QED BY <1>1, RelayInvInit, RelayInvStep, PTL DEF Spec, AnswerIsForHead

\* The relay stops with messages waiting only on an answer.
THEOREM OnlyAnswersStall == Spec => StallsOnlyByAnswer
<1>1. RelayInv /\ [Next]_vars
        => [(~Stalled /\ Stalled') => (answers' < answers /\ Len(queue) >= 2)]_vars
  <2> SUFFICES ASSUME RelayInv, Next, ~Stalled, Stalled'
               PROVE  answers' < answers /\ Len(queue) >= 2
    OBVIOUS
  <2>0. TypeOK /\ queue' # <<>> /\ events' = 0 /\ ~timer'
    BY DEF RelayInv, Stalled
  <2>1. ASSUME NEW m \in Msg, Relay(m) PROVE FALSE
    <3>1. Len(queue') # 1 /\ events = 0 /\ ~timer
      BY <2>0, <2>1, McuRelayAssumption DEF Relay, AddData, Post, TypeOK
    <3>2. queue # <<>>
      BY <3>1, <2>1 DEF Relay, AddData
    <3> QED BY <3>1, <3>2 DEF Stalled
  <2>2. ~TransDataToMcu
    BY <2>0 DEF TransDataToMcu, Stalled
  <2>3. ~SendDataToMcuAgain
    BY <2>0, McuRelayAssumption DEF SendDataToMcuAgain, Post, TypeOK
  <2>4. ~McuAnswers /\ ~McuIgnores
    BY DEF McuAnswers, McuIgnores, Stalled
  <2>5. CASE ProcessAnswer
    <3>1. queue # <<>> /\ queue' = Tail(queue)
      BY <2>0, <2>5 DEF ProcessAnswer, Delete
    <3>2. Len(queue) >= 2
      BY <3>1, <2>0 DEF TypeOK
    <3> QED BY <3>2, <2>0, <2>5 DEF ProcessAnswer, TypeOK
  <2> QED BY <2>1, <2>2, <2>3, <2>4, <2>5 DEF Next
<1> QED BY <1>1, RelayInvInit, RelayInvStep, PTL DEF Spec, StallsOnlyByAnswer

------------------------------------------------------------------------------
\* What the MCU has heard is what it has read last, the head included.
ReportInv ==
    /\ ReportTypeOK /\ RelayInv
    /\ reliable /\ got # {} /\ Says[Head(queue)] # "other" => heard = Says[Head(queue)]
    /\ reliable /\ ~refused => NewestSays(last_state)

\* A message that is added leaves the head, if there is one, as it is.
LEMMA HeadKept ==
    ASSUME RelayInv, reliable, NEW m \in Msg, Relay(m), got' # {}
    PROVE  got' = got /\ Head(queue') = Head(queue)
<1>1. TypeOK /\ InTurn /\ queue' = Append(queue, m) /\ got' = got \ {m} /\ \A k \in 1..Len(queue) : queue[k] # m
  BY DEF RelayInv, Relay, AddData, In
<1>2. queue # <<>> /\ Head(queue) # m
  BY <1>1 DEF InTurn, TypeOK
<1> QED BY <1>1, <1>2 DEF InTurn, TypeOK

LEMMA NowState == ReportTypeOK => Now \in State /\ "other" \notin State
BY StateReportsAssumption DEF ReportTypeOK, Now, State, StateOf

LEMMA ReportQueued == ASSUME ReportInv, QueryState PROVE ReportInv'
<1>0. ReportTypeOK /\ RelayInv /\ TypeOK /\ Now \in State
  BY NowState DEF ReportInv, RelayInv
<1>1. last_state' = Now /\ state' = Now /\ UNCHANGED <<mode, query_state_timer, heard>>
  BY DEF QueryState
<1>2. ASSUME NEW m \in Msg, Says[m] = Now, Relay(m), refused' = FALSE PROVE ReportInv'
  <2>1. RelayInv'
    BY <1>0, <1>2, RelayStep
  <2>2. ReportTypeOK'
    BY <1>0, <1>1, <1>2, <2>1 DEF ReportTypeOK, RelayInv
  <2>3. queue' = Append(queue, m) /\ queue \in Seq(Msg) /\ reliable' = reliable
    BY <1>0, <1>2 DEF Relay, AddData, TypeOK
  <2>4. NewestSays(last_state)'
    <3>1. Len(queue') = Len(queue) + 1 /\ queue'[Len(queue')] = m
      BY <2>3
    <3>2. Len(queue') \in 1..Len(queue') /\ \A j \in Len(queue') + 1..Len(queue') : FALSE
      BY <3>1, <2>3
    <3> QED BY <3>1, <3>2, <1>1, <1>2 DEF NewestSays
  <2>5. reliable /\ got' # {} /\ Says[Head(queue')] # "other" => heard' = Says[Head(queue')]
    BY <1>0, <1>1, <1>2, HeadKept DEF ReportInv
  <2> QED BY <2>1, <2>2, <2>3, <2>4, <2>5 DEF ReportInv
<1>3. ASSUME refused', UNCHANGED vars PROVE ReportInv'
  <2>1. RelayInv'
    BY <1>0, <1>3, RelayInvStep
  <2> QED BY <2>1, <1>0, <1>1, <1>3 DEF vars, ReportInv, ReportTypeOK, RelayInv
<1> QED BY <1>2, <1>3 DEF QueryState

LEMMA OtherQueued == ASSUME ReportInv, RelayOther PROVE ReportInv'
<1> PICK m \in Msg : Says[m] = "other" /\ Relay(m)
  BY DEF RelayOther
<1>0. ReportTypeOK /\ RelayInv /\ TypeOK /\ UNCHANGED reportVars
  BY DEF ReportInv, RelayInv, RelayOther
<1>1. RelayInv'
  BY <1>0, RelayStep
<1>2. ReportTypeOK'
  BY <1>0, <1>1 DEF ReportTypeOK, RelayInv, reportVars
<1>3. queue' = Append(queue, m) /\ queue \in Seq(Msg) /\ reliable' = reliable
  BY <1>0 DEF Relay, AddData, TypeOK
<1>4. /\ Len(queue') = Len(queue) + 1 /\ Len(queue) \in Nat
      /\ \A k \in 1..Len(queue) : queue'[k] = queue[k] /\ Says[queue'[Len(queue')]] = "other"
      /\ queue'[Len(queue) + 1] = m
  BY <1>3
<1>5. NewestSays(last_state) => NewestSays(last_state)'
  <2>1. ASSUME NEW k \in 1..Len(queue), Says[queue[k]] = last_state,
               \A j \in k + 1..Len(queue) : Says[queue[j]] = "other"
        PROVE  NewestSays(last_state)'
    <3>1. k \in 1..Len(queue') /\ Says[queue'[k]] = last_state'
      BY <2>1, <1>4, <1>0 DEF reportVars
    <3>2. \A j \in k + 1..Len(queue') : Says[queue'[j]] = "other"
      <4> TAKE j \in k + 1..Len(queue')
      <4>1. j \in k + 1..Len(queue) \/ j = Len(queue) + 1
        BY <1>4
      <4> QED BY <4>1, <2>1, <1>4
    <3> QED BY <3>1, <3>2 DEF NewestSays
  <2>2. ASSUME heard = last_state, \A k \in 1..Len(queue) : Says[queue[k]] = "other"
        PROVE  NewestSays(last_state)'
    <3>1. \A k \in 1..Len(queue') : Says[queue'[k]] = "other"
      <4> TAKE k \in 1..Len(queue')
      <4>1. k \in 1..Len(queue) \/ k = Len(queue) + 1
        BY <1>4
      <4> QED BY <4>1, <2>2, <1>4
    <3> QED BY <3>1, <2>2, <1>0 DEF NewestSays, reportVars
  <2> QED BY <2>1, <2>2 DEF NewestSays
<1>6. reliable /\ got' # {} /\ Says[Head(queue')] # "other" => heard' = Says[Head(queue')]
  BY <1>0, HeadKept DEF ReportInv, reportVars
<1> QED BY <1>0, <1>1, <1>2, <1>3, <1>5, <1>6 DEF ReportInv, reportVars

\* The MCU reads the head; if it is a report the MCU has heard that one now.
LEMMA HeadHeard == ASSUME ReportInv, McuReads PROVE ReportInv'
<1>0. /\ ReportTypeOK /\ RelayInv /\ TypeOK /\ McuAnswers
      /\ UNCHANGED <<mode, query_state_timer, state, last_state, refused>>
      /\ heard' = IF Says[Head(frames)] = "other" THEN heard ELSE Says[Head(frames)]
  BY DEF ReportInv, RelayInv, McuReads
<1>1. RelayInv' /\ queue' = queue /\ reliable' = reliable /\ Head(frames) \in Msg
  BY <1>0, ReadStep, FrameRead
<1>2. heard' \in State
  BY <1>0, <1>1, StateReportsAssumption DEF ReportTypeOK
<1>3. ReportTypeOK'
  BY <1>0, <1>1, <1>2 DEF ReportTypeOK, RelayInv
<1>4. ASSUME reliable PROVE Head(frames) = Head(queue) /\ queue # <<>> /\ queue \in Seq(Msg)
  <2>1. frames # <<>> /\ InTurn /\ queue \in Seq(Msg)
    BY <1>0, <1>4, FrameRead DEF RelayInv, TypeOK
  <2> QED BY <2>1 DEF InTurn
<1>5. ASSUME reliable, ~refused PROVE NewestSays(last_state)'
  <2>1. NewestSays(last_state)
    BY <1>5 DEF ReportInv
  <2>2. CASE \E k \in 1..Len(queue) : /\ Says[queue[k]] = last_state
                                      /\ \A j \in k + 1..Len(queue) : Says[queue[j]] = "other"
    BY <2>2, <1>0, <1>1 DEF NewestSays
  <2>3. CASE heard = last_state /\ \A k \in 1..Len(queue) : Says[queue[k]] = "other"
    <3>1. Says[Head(frames)] = "other"
      BY <2>3, <1>4, <1>5
    <3> QED BY <3>1, <2>3, <1>0, <1>1 DEF NewestSays
  <2> QED BY <2>1, <2>2, <2>3 DEF NewestSays
<1> QED BY <1>0, <1>1, <1>3, <1>4, <1>5 DEF ReportInv

\* An answer takes the head away, which the MCU has heard.
LEMMA HeadGone == ASSUME ReportInv, ProcessAnswer, UNCHANGED reportVars PROVE ReportInv'
<1>0. ReportTypeOK /\ RelayInv /\ TypeOK /\ Distinct /\ reliable' = reliable
  BY DEF ReportInv, RelayInv, ProcessAnswer
<1>1. RelayInv'
  BY <1>0, AnswerStep
<1>2. ReportTypeOK'
  BY <1>0, <1>1 DEF ReportTypeOK, RelayInv, reportVars
<1>3. ASSUME reliable PROVE /\ queue # <<>> /\ queue' = Tail(queue) /\ Head(queue) \in got /\ got' = {}
  <2>1. InTurn
    BY <1>0, <1>3 DEF RelayInv
  <2>2. queue # <<>> /\ Head(queue) \in got
    BY <2>1, <1>0 DEF InTurn, ProcessAnswer, TypeOK
  <2>3. queue' = Tail(queue) /\ got' = StillQueued
    BY <2>2 DEF ProcessAnswer, Delete
  <2> QED BY <2>1, <2>2, <2>3, <1>0, TailFacts DEF InTurn, StillQueued, In
<1>4. ASSUME reliable, NewestSays(last_state) PROVE NewestSays(last_state)'
  <2>1. /\ Len(queue') = Len(queue) - 1 /\ Len(queue) \in Nat \ {0} /\ Head(queue) = queue[1]
        /\ \A k \in 1..Len(queue') : queue'[k] = queue[k + 1]
    BY <1>0, <1>3, <1>4, TailFacts DEF TypeOK
  <2>2. ASSUME NEW k \in 1..Len(queue), Says[queue[k]] = last_state,
               \A j \in k + 1..Len(queue) : Says[queue[j]] = "other"
        PROVE  NewestSays(last_state)'
    <3>1. \A j \in k..Len(queue') : j >= 1 => Says[queue'[j]] = "other"
      <4> SUFFICES ASSUME NEW j \in k..Len(queue'), j >= 1 PROVE Says[queue'[j]] = "other"
        OBVIOUS
      <4>1. j \in 1..Len(queue') /\ j + 1 \in k + 1..Len(queue)
        BY <2>1, <2>2
      <4> QED BY <4>1, <2>1, <2>2
    <3>2. CASE k = 1
      <4>1. last_state # "other"
        BY <1>0, NowState DEF ReportTypeOK
      <4>2. heard = last_state
        BY <4>1, <3>2, <2>1, <2>2, <1>3, <1>4 DEF ReportInv
      <4> QED BY <4>2, <3>1, <3>2 DEF NewestSays, reportVars
    <3>3. CASE k > 1
      <4>1. k - 1 \in 1..Len(queue') /\ queue'[k - 1] = queue[k]
        BY <3>3, <2>1, <2>2
      <4>2. \A j \in (k - 1) + 1..Len(queue') : Says[queue'[j]] = "other"
        BY <3>1, <3>3, <2>1, <2>2
      <4> QED BY <4>1, <4>2, <2>2 DEF NewestSays, reportVars
    <3> QED BY <3>2, <3>3
  <2>3. ASSUME heard = last_state, \A k \in 1..Len(queue) : Says[queue[k]] = "other"
        PROVE  NewestSays(last_state)'
    <3>1. \A k \in 1..Len(queue') : Says[queue'[k]] = "other"
      BY <2>1, <2>3
    <3> QED BY <3>1, <2>3 DEF NewestSays, reportVars
  <2> QED BY <1>4, <2>2, <2>3 DEF NewestSays
<1> QED BY <1>0, <1>1, <1>2, <1>3, <1>4 DEF ReportInv, reportVars

\* The steps that leave the reports alone, and a step that changes nothing.
LEMMA RestKeeps ==
    ASSUME ReportInv,
           \/ SetDeviceMode \/ ProcessStateInfoCmd \/ UNCHANGED allReportVars
           \/ (TransDataToMcu \/ SendDataToMcuAgain \/ McuIgnores) /\ UNCHANGED reportVars
    PROVE  ReportInv'
<1>0. ReportTypeOK /\ RelayInv
  BY DEF ReportInv
<1>1. CASE SetDeviceMode \/ ProcessStateInfoCmd \/ UNCHANGED allReportVars
  <2>1. UNCHANGED <<vars, state, last_state, heard, refused>>
    BY <1>1 DEF SetDeviceMode, ProcessStateInfoCmd, allReportVars, reportVars
  <2>2. RelayInv'
    BY <1>0, <2>1, RelayInvStep
  <2>3. mode' \in Mode /\ query_state_timer' \in BOOLEAN
    BY <1>0, <1>1 DEF SetDeviceMode, ProcessStateInfoCmd, allReportVars, reportVars, ReportTypeOK
  <2> QED BY <1>0, <2>1, <2>2, <2>3 DEF vars, ReportInv, ReportTypeOK, RelayInv, NewestSays
<1>2. CASE (TransDataToMcu \/ SendDataToMcuAgain \/ McuIgnores) /\ UNCHANGED reportVars
  <2>1. RelayInv'
    BY <1>0, <1>2, TransStep, GiveUpStep, IgnoreStep
  <2>2. ReportTypeOK'
    BY <1>0, <1>2, <2>1 DEF ReportTypeOK, RelayInv, reportVars
  <2>3. reliable' = reliable
    BY <1>2 DEF TransDataToMcu, SendDataToMcuAgain, McuIgnores
  <2>4. ASSUME reliable PROVE UNCHANGED <<queue, got>>
    <3>1. ~SendDataToMcuAgain
      BY <1>0, <2>4, RepeatsLate
    <3> QED BY <1>2, <3>1 DEF TransDataToMcu, McuIgnores
  <2> QED BY <1>2, <2>1, <2>2, <2>3, <2>4 DEF ReportInv, NewestSays, reportVars
<1> QED BY <1>1, <1>2

\* The state that counts as reported is the newest one that the MCU has
\* heard or will hear.
THEOREM SubscriberIsTold == ReportSpec => []SubscriberKnows
<1>1. ReportInit => ReportInv
  <2> SUFFICES ASSUME ReportInit PROVE ReportInv
    OBVIOUS
  <2>1. RelayInv
    BY RelayInvInit DEF ReportInit
  <2>2. ReportTypeOK
    BY <2>1 DEF ReportInit, ReportTypeOK, RelayInv, State, StateOf
  <2>3. queue = <<>> /\ got = {} /\ heard = last_state
    BY DEF ReportInit, Init
  <2> QED BY <2>1, <2>2, <2>3 DEF ReportInv, NewestSays
<1>2. ReportInv /\ [ReportNext]_allReportVars => ReportInv'
  BY ReportQueued, OtherQueued, HeadHeard, HeadGone, RestKeeps DEF ReportNext, RelaySteps
<1>3. ReportInv => SubscriberKnows
  BY DEF ReportInv, SubscriberKnows
<1> QED BY <1>1, <1>2, <1>3, PTL DEF ReportSpec
==============================================================================
