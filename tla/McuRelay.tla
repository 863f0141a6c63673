------------------------------ MODULE McuRelay -------------------------------
(***************************************************************************)
(* The relay of messages to the MCU: the queue of iotgo_uart0_send_queue.c *)
(* and the functions of FWTRX_TC.c that send its head over the serial      *)
(* line, wait two seconds for the answer, send it once more and then give  *)
(* it up.  Callbacks, timers and the device task run one at a time; the    *)
(* MCU answers, is late, or does not answer at all.                        *)
(***************************************************************************)
EXTENDS Naturals, Sequences

CONSTANTS
    Msg,        \* names of messages; a name is used again once it is gone
    QueueMax,   \* the queue refuses to grow beyond this (10 in the code)
    EventMax,   \* pending events of the device task
    LineMax     \* frames the MCU, and answers the device, can hold unread

ASSUME McuRelayAssumption ==
    /\ QueueMax \in Nat \ {0} /\ EventMax \in Nat \ {0} /\ LineMax \in Nat \ {0}

VARIABLES
    queue,          \* tc_link_queue, head first
    events,         \* pending SIG_DEVICE_UPDATE_BY_REMOTE
    timer,          \* TRUE while send_data_again_timer is armed
    send_counter,   \* static of sendDataToMcuAgain
    frames,         \* frames sent that the MCU has not read
    answers,        \* "ret" and "respond" commands the device has not read
    got,            \* history: messages of the queue the MCU has read
    reliable        \* whether the MCU answers every frame within two seconds

vars == <<queue, events, timer, send_counter, frames, answers, got, reliable>>

TypeOK ==
    /\ queue \in Seq(Msg) /\ Len(queue) <= QueueMax
    /\ events \in 0..EventMax
    /\ timer \in BOOLEAN
    /\ send_counter \in 0..1
    /\ frames \in Seq(Msg) /\ Len(frames) <= LineMax
    /\ answers \in 0..LineMax
    /\ got \subseteq Msg
    /\ reliable \in BOOLEAN

In(m, s) == \E k \in 1..Len(s) : s[k] = m

Init ==
    /\ queue = <<>> /\ events = 0
    /\ timer = FALSE /\ send_counter = 0
    /\ frames = <<>> /\ answers = 0 /\ got = {}
    /\ reliable \in BOOLEAN

------------------------------------------------------------------------------
\* system_os_post: a full event queue loses the event.
Post(n) == IF n < EventMax THEN n + 1 ELSE n

Delete(q) == IF q = <<>> THEN q ELSE Tail(q)
StillQueued == {m \in got : In(m, queue')}

\* A mutant: every insertion starts a sending.
AddDataAlwaysPosts(m) ==
    /\ Len(queue) < QueueMax
    /\ queue' = Append(queue, m)
    /\ events' = Post(events)

\* tcAddDataToQueue: the message that makes the queue one long starts the
\* sending.  On a full queue nothing happens and the message is dropped.
AddData(m) ==
    /\ Len(queue) < QueueMax
    /\ queue' = Append(queue, m)
    /\ events' = IF Len(queue') = 1 THEN Post(events) ELSE events

\* A request of the app, an answer of the server, a timer that is due or a
\* change of state is queued for the MCU.
Relay(m) ==
    /\ ~In(m, queue) /\ ~In(m, frames)
    /\ AddData(m)
    /\ got' = got \ {m}
    /\ UNCHANGED <<timer, send_counter, frames, answers, reliable>>

\* SIG_DEVICE_UPDATE_BY_REMOTE: send the head and wait.
TransDataToMcu ==
    /\ events > 0
    /\ events' = events - 1
    /\ IF queue # <<>>
       THEN /\ frames' = IF Len(frames) < LineMax THEN Append(frames, Head(queue)) ELSE frames
            /\ timer' = TRUE
       ELSE UNCHANGED <<frames, timer>>
    /\ UNCHANGED <<queue, send_counter, answers, got, reliable>>

\* Mutants: giving up does not go on to the next message; never gives up.
SendDataAgainStops ==
    /\ timer
    /\ reliable => frames = <<>> /\ answers = 0
    /\ timer' = FALSE
    /\ send_counter' = (send_counter + 1) % 2
    /\ queue' = IF send_counter = 1 THEN Delete(queue) ELSE queue
    /\ events' = IF send_counter = 1 THEN events ELSE Post(events)
    /\ got' = StillQueued
    /\ UNCHANGED <<frames, answers, reliable>>
SendDataAgainForever ==
    /\ timer
    /\ reliable => frames = <<>> /\ answers = 0
    /\ timer' = FALSE
    /\ events' = Post(events)
    /\ UNCHANGED <<queue, send_counter, frames, answers, got, reliable>>

\* sendDataToMcuAgain: two seconds without an answer.  The second time the
\* head is given up; either way the device task sends what is the head now.
SendDataToMcuAgain ==
    /\ timer
    /\ reliable => frames = <<>> /\ answers = 0
    /\ timer' = FALSE
    /\ send_counter' = (send_counter + 1) % 2
    /\ queue' = IF send_counter = 1 THEN Delete(queue) ELSE queue
    /\ events' = Post(events) /\ got' = StillQueued
    /\ UNCHANGED <<frames, answers, reliable>>

\* processRetCmd, processRespondCmd: an answer of the MCU is for the head,
\* whatever it was sent for.  Nothing sends the next message.
ProcessAnswer ==
    /\ answers > 0
    /\ answers' = answers - 1
    /\ timer' = FALSE
    /\ queue' = Delete(queue) /\ got' = StillQueued
    /\ UNCHANGED <<events, send_counter, frames, reliable>>

\* The MCU reads a frame and answers; the answer may be lost.
McuAnswers ==
    /\ frames # <<>>
    /\ frames' = Tail(frames)
    /\ got' = IF In(Head(frames), queue) THEN got \cup {Head(frames)} ELSE got
    /\ \/ answers' = IF answers < LineMax THEN answers + 1 ELSE answers
       \/ ~reliable /\ answers' = answers
    /\ UNCHANGED <<queue, events, timer, send_counter, reliable>>

\* The frame is damaged on the line, or the MCU is not running.
McuIgnores ==
    /\ ~reliable
    /\ frames # <<>>
    /\ frames' = Tail(frames)
    /\ UNCHANGED <<queue, events, timer, send_counter, answers, got, reliable>>

Next ==
    \/ \E m \in Msg : Relay(m)
    \/ TransDataToMcu \/ SendDataToMcuAgain \/ ProcessAnswer
    \/ McuAnswers \/ McuIgnores

Spec == Init /\ [][Next]_vars

\* The device task, an armed timer and the reader of the serial line run in
\* the end; of the MCU nothing is assumed unless it is the reliable one.
FairSpec == Spec /\ WF_vars(TransDataToMcu) /\ WF_vars(SendDataToMcuAgain)
                 /\ WF_vars(ProcessAnswer) /\ WF_vars(reliable /\ McuAnswers)

------------------------------------------------------------------------------
\* Messages wait and nothing will ever send them.
Stalled == queue # <<>> /\ events = 0 /\ ~timer

(* With an MCU that answers in time no message is lost or mistaken for     *)
(* another: an answer removes a message the MCU has read.                  *)
AnswerIsForHead ==
    [][(reliable /\ answers' < answers /\ queue # <<>>) => Head(queue) \in got]_vars

(* The relay stops with messages waiting only on an answer: adding,        *)
(* sending, repeating and giving up always leave a way to go on.           *)
StallsOnlyByAnswer ==
    [][(~Stalled /\ Stalled') => (answers' < answers /\ Len(queue) >= 2)]_vars

(* A message at the head, answered or not, leaves the queue unless the     *)
(* relay has stalled.                                                      *)
HeadLeaves ==
    \A m \in Msg : (queue # <<>> /\ Head(queue) = m)
                       ~> (queue = <<>> \/ Head(queue) # m \/ Stalled)

(* processRespondCmd ends with the post that sends the next message after  *)
(* an answer: as long as messages wait, an event or the timer is pending,  *)
(* at least if the MCU answers every frame in time.                        *)
NextIsSent == reliable => ~Stalled
==============================================================================
