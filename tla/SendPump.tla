------------------------------ MODULE SendPump -------------------------------
(***************************************************************************)
(* The outgoing message queue (iotgo_queue.c) and the pump that empties it *)
(* (iotgoPconnSendJson, ...Again, ...NextJson and the retry timer of       *)
(* iotgo_pconn.c), run by the core task.  The pump holds no state of its   *)
(* own between steps: what it does next travels as an event in the core    *)
(* task's event queue, or as the armed retry timer.                        *)
(***************************************************************************)
EXTENDS Naturals, Sequences

CONSTANTS
    Msg,        \* messages the rest of the firmware queues, each at most once
    Register,   \* the messages of type IOTGO_REGISTER
    QueueMax,   \* the queue refuses to grow beyond this (10 in the code)
    CoreQLen,   \* length of the core task's event queue (IOTGO_TASK_CORE_QLEN)
    MaxOther    \* bound: events of other components that reach the core task

ASSUME SendPumpAssumption ==
    /\ Register \subseteq Msg
    /\ QueueMax \in Nat \ {0} /\ CoreQLen \in Nat \ {0} /\ MaxOther \in Nat

VARIABLES
    queue,          \* the linked list, head first
    events,         \* the core task's event queue
    send_counter,   \* failed sends of the head
    timer,          \* TRUE while send_queue_timer is armed
    online,         \* device mode is WORK_NORMAL or WORK_INIT
    fault,          \* the firmware dereferenced q->head when it was NULL
    unused,         \* messages not queued yet
    other,          \* events of other components so far
    delivered,      \* messages espconn accepted
    stale,          \* the queue was cleared under a pump that still runs
    refused         \* system_os_post found the event queue full

vars == <<queue, events, send_counter, timer, online, fault, unused, other,
          delivered, stale, refused>>

PumpSig == {"SEND_JSON", "SEND_JSON_AGAIN", "SEND_JSON_FINISHED"}
OtherSig == {"SERVER_CONNECTED", "UPGRADE_ENTER", "OTHER"}
Result == {"SEND_OK", "DATA_LENGTH_OVER", "NETWORK_ABNORMAL", "SEND_ERROR"}
Event == [sig : PumpSig \cup OtherSig, par : Result \cup {"none"}]

TypeOK ==
    /\ queue \in Seq(Msg) /\ Len(queue) <= QueueMax
    /\ events \in Seq(Event) /\ Len(events) <= CoreQLen
    /\ send_counter \in 0..3
    /\ {timer, online, fault, stale, refused} \subseteq BOOLEAN
    /\ unused \subseteq Msg /\ delivered \subseteq Msg
    /\ other \in 0..MaxOther

Init ==
    /\ queue = <<>> /\ events = <<>> /\ send_counter = 0
    /\ timer = FALSE /\ online = FALSE /\ fault = FALSE
    /\ unused = Msg /\ other = 0
    /\ delivered = {} /\ stale = FALSE /\ refused = FALSE

------------------------------------------------------------------------------
Ev(sig, par) == [sig |-> sig, par |-> par]

\* system_os_post; q is the event queue after the running event was taken.
\* Its result is ignored by every caller: a full queue loses the event.
Post(q, sig, par) ==
    /\ events' = IF Len(q) < CoreQLen THEN Append(q, Ev(sig, par)) ELSE q
    /\ refused' = (refused \/ Len(q) >= CoreQLen)

NoPost(q) == events' = q /\ UNCHANGED refused

PumpEvent(e) == e.sig \in PumpSig
PumpQuiet == ~timer /\ \A i \in 1..Len(events) : ~PumpEvent(events[i])

\* History: from the moment the queue is cleared under a running pump until
\* nothing of that pump is left.
Clears(b) == stale' = ((stale \/ b) /\ ~PumpQuiet')

\* Mutant: every insertion starts the pump, not only one into an empty queue.
QueueAddAlwaysPosts(m) ==
    /\ ~fault
    /\ m \in unused
    /\ unused' = unused \ {m}
    /\ Len(queue) < QueueMax
    /\ queue' = Append(queue, m)
    /\ Post(events, "SEND_JSON", "none")
    /\ UNCHANGED <<send_counter, timer, online, fault, other, delivered, stale>>

\* iotgoQueueAdd(data, type, false): called from timer callbacks, network
\* callbacks and handlers of other events.
QueueAdd(m) ==
    /\ ~fault
    /\ m \in unused
    /\ unused' = unused \ {m}
    /\ \/ /\ Len(queue) >= QueueMax
          /\ queue' = queue
          /\ NoPost(events)
       \/ /\ Len(queue) < QueueMax
          /\ queue' = Append(queue, m)
          /\ IF Len(queue') = 1 THEN Post(events, "SEND_JSON", "none") ELSE NoPost(events)
    /\ UNCHANGED <<send_counter, timer, online, fault, other, delivered, stale>>

\* The core task takes the next event of this kind.
Take(sig) ==
    /\ ~fault
    /\ events # <<>>
    /\ Head(events).sig = sig

\* q->head is dereferenced without a test; on an empty list the load traps.
Trap ==
    /\ queue = <<>>
    /\ fault' = TRUE
    /\ NoPost(Tail(events))
    /\ UNCHANGED <<queue, send_counter, timer, online, unused, other, delivered, stale>>

\* iotgoPconnSendJson.  The outcome of espconn_secure_send is the network's.
SendResult(status) ==
    \/ ~online /\ status = "NETWORK_ABNORMAL"
    \/ online /\ status \in {"SEND_OK", "DATA_LENGTH_OVER", "SEND_ERROR"}

SendJson ==
    /\ Take("SEND_JSON")
    /\ \/ Trap
       \/ /\ queue # <<>>
          /\ \E status \in Result :
                /\ SendResult(status)
                /\ IF status = "SEND_ERROR"
                   THEN Post(Tail(events), "SEND_JSON_AGAIN", status)
                   ELSE Post(Tail(events), "SEND_JSON_FINISHED", status)
                /\ delivered' = delivered \cup {m \in {Head(queue)} : status = "SEND_OK"}
          /\ UNCHANGED <<queue, send_counter, timer, online, fault, unused, other>>
          /\ Clears(FALSE)

\* Mutant: the retries are not counted.
SendJsonAgainForever ==
    /\ Take("SEND_JSON_AGAIN")
    /\ timer' = TRUE
    /\ NoPost(Tail(events))
    /\ UNCHANGED <<queue, send_counter, online, fault, unused, other, delivered>>
    /\ Clears(FALSE)

\* iotgoPconnSendJsonAgain: three retries after 1, 2 and 4 seconds, then the
\* message is given up; a message of type REGISTER takes the queue with it.
SendJsonAgain ==
    /\ Take("SEND_JSON_AGAIN")
    /\ \/ send_counter >= 3 /\ Trap
       \/ /\ send_counter >= 3
          /\ queue # <<>>
          /\ timer' = FALSE
          /\ send_counter' = 0
          /\ IF Head(queue) \in Register
             THEN /\ queue' = <<>>
                  /\ Post(Tail(events), "OTHER", "none")    \* MSG_CORE_REGISTER_ERR
                  /\ Clears(TRUE)
             ELSE /\ Post(Tail(events), "SEND_JSON_FINISHED", "SEND_ERROR")
                  /\ UNCHANGED queue
                  /\ Clears(FALSE)
          /\ UNCHANGED <<online, fault, unused, other, delivered>>
       \/ /\ send_counter < 3
          /\ timer' = TRUE
          /\ send_counter' = send_counter + 1
          /\ NoPost(Tail(events))
          /\ UNCHANGED <<queue, online, fault, unused, other, delivered>>
          /\ Clears(FALSE)

\* iotgoPconnSendNextJson: drop the head; go on with the next message
\* unless the network was down.
GoesOnAfterOk(status) == status = "SEND_OK"                \* mutant

GoesOn(status) == status \in {"SEND_OK", "DATA_LENGTH_OVER", "SEND_ERROR"}

\* Mutant: the message is kept until one that follows it is sent.
SendNextJsonKeepsHead ==
    /\ Take("SEND_JSON_FINISHED")
    /\ queue # <<>>
    /\ send_counter' = 0
    /\ Post(Tail(events), "SEND_JSON", "none")
    /\ UNCHANGED <<queue, timer, online, fault, unused, other, delivered>>
    /\ Clears(FALSE)

SendNextJson ==
    /\ Take("SEND_JSON_FINISHED")
    /\ \/ Trap
       \/ /\ queue # <<>>
          /\ queue' = Tail(queue)
          /\ send_counter' = 0
          /\ IF GoesOn(Head(events).par) /\ Len(queue') > 0
             THEN Post(Tail(events), "SEND_JSON", "none")
             ELSE NoPost(Tail(events))
          /\ UNCHANGED <<timer, online, fault, unused, other, delivered>>
          /\ Clears(FALSE)

\* cbSendQueueTimer
SendQueueTimer ==
    /\ ~fault
    /\ timer
    /\ timer' = FALSE
    /\ IF Len(queue) > 0 THEN Post(events, "SEND_JSON", "none") ELSE NoPost(events)
    /\ UNCHANGED <<queue, send_counter, online, fault, unused, other, delivered>>
    /\ Clears(FALSE)

\* The events that clear the queue: a new connection to the server (which
\* also posts MSG_CORE_WS_CONNECT) and the start of a firmware upgrade.
\* Neither disarms the retry timer, resets send_counter or withdraws events.
QueueDeleteAll ==
    /\ queue' = <<>>
    /\ UNCHANGED <<send_counter, timer, online, fault, unused, other, delivered>>
    /\ Clears(TRUE)

ServerConnected ==
    /\ Take("SERVER_CONNECTED")
    /\ Post(Tail(events), "OTHER", "none")
    /\ QueueDeleteAll

UpgradeEnter ==
    /\ Take("UPGRADE_ENTER")
    /\ NoPost(Tail(events))
    /\ QueueDeleteAll

\* Any other event of the core task; what it does to this component is
\* covered by QueueAdd and SetMode.
OtherEvent ==
    /\ Take("OTHER")
    /\ NoPost(Tail(events))
    /\ UNCHANGED <<queue, send_counter, timer, online, fault, unused, other, delivered, stale>>

OtherPost(sig) ==
    /\ ~fault
    /\ other < MaxOther
    /\ other' = other + 1
    /\ Post(events, sig, "none")
    /\ UNCHANGED <<queue, send_counter, timer, online, fault, unused, delivered, stale>>

SetMode ==
    /\ ~fault
    /\ online' = ~online
    /\ UNCHANGED <<queue, events, send_counter, timer, fault, unused, other, delivered, stale, refused>>

\* The trap resets the chip: RAM is lost.
Restart ==
    /\ fault
    /\ queue' = <<>> /\ events' = <<>> /\ send_counter' = 0
    /\ timer' = FALSE /\ online' = FALSE /\ fault' = FALSE
    /\ stale' = FALSE /\ refused' = FALSE
    /\ UNCHANGED <<unused, other, delivered>>

Pump == SendJson \/ SendJsonAgain \/ SendNextJson

CoreTask == Pump \/ ServerConnected \/ UpgradeEnter \/ OtherEvent

Next ==
    \/ CoreTask
    \/ SendQueueTimer
    \/ \E m \in Msg : QueueAdd(m)
    \/ \E sig \in OtherSig : OtherPost(sig)
    \/ SetMode
    \/ Restart

Spec == Init /\ [][Next]_vars

\* The SDK runs the core task while it has events, and an armed timer fires.
FairSpec == Spec /\ WF_vars(CoreTask) /\ WF_vars(SendQueueTimer)

------------------------------------------------------------------------------
(* Every variable has its type.  At most one pump runs, and it never finds *)
(* the queue empty, except from the moment the queue is cleared under it   *)
(* (a new connection, the start of an upgrade, a registration given up)    *)
(* until nothing of it is left.                                            *)
OnePump ==
    /\ TypeOK
    /\ ~stale =>
        /\ \A i, j \in 1..Len(events) : PumpEvent(events[i]) /\ PumpEvent(events[j]) => i = j
        /\ timer => \A i \in 1..Len(events) : ~PumpEvent(events[i])
        /\ ~PumpQuiet => queue # <<>>
        /\ ~fault

(* A message espconn accepted is dropped from the queue before the pump    *)
(* sends again, and a message dropped as sent was sent, again except while *)
(* a pump runs whose queue was cleared.                                    *)
SentOnce ==
    ~stale =>
        /\ \A i \in 1..Len(events) :
              events[i].sig = "SEND_JSON_FINISHED" =>
                  (events[i].par = "SEND_OK" <=> Head(queue) \in delivered)
        /\ (timer \/ \E i \in 1..Len(events) : events[i].sig \in {"SEND_JSON", "SEND_JSON_AGAIN"})
               => Head(queue) \notin delivered
        /\ \A i \in 2..Len(queue) : queue[i] \notin delivered

(* The pump stops with messages still queued only when it found the        *)
(* network down or lost its event to a full event queue.                   *)
StopsOnlyOffline ==
    [][(~PumpQuiet /\ PumpQuiet' /\ queue' # <<>>) =>
           \/ Head(events) = Ev("SEND_JSON_FINISHED", "NETWORK_ABNORMAL")
           \/ refused']_vars

(* A running pump gets rid of the message at the head: it is sent, given   *)
(* up after the last retry, or dropped.                                    *)
HeadLeaves ==
    \A m \in Msg :
        (queue # <<>> /\ Head(queue) = m /\ ~PumpQuiet /\ ~refused) ~>
            (queue = <<>> \/ Head(queue) # m \/ refused)

(* An empty queue is a case the pump handles: iotgoPconnSendJson finishes  *)
(* with IOTGO_WILD_POINT, which iotgoPconnSendNextJson logs as "queue is   *)
(* empty" and survives.                                                    *)
EmptyQueueHandled == ~fault

==============================================================================
