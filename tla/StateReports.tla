---------------------------- MODULE StateReports -----------------------------
(***************************************************************************)
(* The MCU's subscription to the state of the device (FWTRX_TC.c), over    *)
(* the relay of messages: once a second queryState compares the state with *)
(* the one it reported last, and queues a report when they differ.         *)
(***************************************************************************)
EXTENDS McuRelay

CONSTANTS
    Mode,   \* the modes of the device that occur
    Says    \* what a message says: a state, or "other"

\* queryState: a mode that is not here (DEVICE_MODE_UPGRADE,
\* DEVICE_MODE_FACTORY) leaves the state as it was.
StateOf == [START |-> "NO_WIFI", WORK_AP_ERR |-> "NO_WIFI", WORK_AP_OK |-> "DISCONNECT",
            WORK_INIT |-> "UNREGISTER", WORK_NORMAL |-> "NORMAL",
            SETTING |-> "AP_SETTING", SETTING_SELFAP |-> "ESPTOUCH_SETTING"]
State == {StateOf[d] : d \in DOMAIN StateOf}

ASSUME StateReportsAssumption ==
    /\ Mode \subseteq DOMAIN StateOf \cup {"UPGRADE", "FACTORY"} /\ Mode # {}
    /\ Says \in [Msg -> State \cup {"other"}]

VARIABLES
    mode,       \* iotgoDeviceMode()
    query_state_timer,  \* TRUE while it is armed
    state,      \* static of queryState
    last_state, \* static of queryState: what was reported last, or should have been
    heard,      \* history: the last report the MCU has read
    refused     \* history: the last report was refused by a full queue

reportVars == <<mode, query_state_timer, state, last_state, heard, refused>>

ReportTypeOK ==
    /\ TypeOK
    /\ mode \in Mode /\ query_state_timer \in BOOLEAN
    /\ {state, last_state, heard} \subseteq State
    /\ refused \in BOOLEAN

ReportInit ==
    /\ Init
    /\ mode \in Mode
    /\ query_state_timer \in BOOLEAN
    /\ state = "NORMAL" /\ last_state = "UNREGISTER"
    /\ heard = "UNREGISTER" /\ refused = FALSE

------------------------------------------------------------------------------
\* The core task changes the mode.
SetDeviceMode ==
    /\ mode' \in Mode \ {mode}
    /\ UNCHANGED <<vars, query_state_timer, state, last_state, heard, refused>>

\* processStateInfoCmd: nothing is reported until the next change.
ProcessStateInfoCmd ==
    /\ query_state_timer' = ~query_state_timer
    /\ UNCHANGED <<vars, mode, state, last_state, heard, refused>>

Unused(m) == ~In(m, queue) /\ ~In(m, frames)
Now == IF mode \in DOMAIN StateOf THEN StateOf[mode] ELSE state

\* A mutant: the report carries the state before the change.
QueryStateOld ==
    /\ query_state_timer
    /\ Now # last_state
    /\ state' = Now /\ last_state' = Now
    /\ \/ /\ \E m \in Msg : Says[m] = state /\ Unused(m) /\ AddData(m) /\ got' = got \ {m}
          /\ refused' = FALSE
          /\ UNCHANGED <<timer, send_counter, frames, answers, reliable>>
       \/ /\ Len(queue) = QueueMax
          /\ refused' = TRUE
          /\ UNCHANGED vars
    /\ UNCHANGED <<mode, query_state_timer, heard>>

\* queryState: the state is recorded before the report is queued or refused.
QueryState ==
    /\ query_state_timer
    /\ Now # last_state
    /\ state' = Now /\ last_state' = Now
    /\ \/ /\ \E m \in Msg : Says[m] = Now /\ Relay(m)
          /\ refused' = FALSE
       \/ /\ Len(queue) = QueueMax
          /\ refused' = TRUE
          /\ UNCHANGED vars
    /\ UNCHANGED <<mode, query_state_timer, heard>>

RelayOther ==
    /\ \E m \in Msg : Says[m] = "other" /\ Relay(m)
    /\ UNCHANGED reportVars

\* The MCU reads a frame, which may be a report.
McuReads ==
    /\ McuAnswers
    /\ heard' = IF Says[Head(frames)] = "other" THEN heard ELSE Says[Head(frames)]
    /\ UNCHANGED <<mode, query_state_timer, state, last_state, refused>>

RelaySteps ==
    /\ TransDataToMcu \/ SendDataToMcuAgain \/ ProcessAnswer \/ McuIgnores
    /\ UNCHANGED reportVars

ReportNext == SetDeviceMode \/ ProcessStateInfoCmd \/ QueryState \/ RelayOther \/ McuReads \/ RelaySteps

allReportVars == <<vars, reportVars>>
\* The relay's fairness, over the relay's variables.
ReportFairness ==
    /\ WF_vars(TransDataToMcu) /\ WF_vars(SendDataToMcuAgain)
    /\ WF_vars(ProcessAnswer) /\ WF_vars(reliable /\ McuAnswers)
ReportSpec == ReportInit /\ [][ReportNext]_allReportVars /\ ReportFairness

------------------------------------------------------------------------------
\* The newest report that is on its way to the MCU, or else what it heard.
NewestSays(s) ==
    \/ \E k \in 1..Len(queue) :
          /\ Says[queue[k]] = s
          /\ \A j \in k + 1..Len(queue) : Says[queue[j]] = "other"
    \/ heard = s /\ \A k \in 1..Len(queue) : Says[queue[k]] = "other"

(* queryState, over the relay: the state that counts as reported is the    *)
(* one the MCU heard last or will hear last, however the device's mode     *)
(* went to and fro meanwhile, if the MCU answers in time.  The only thing  *)
(* that defeats it is a full queue at the moment of the change, which      *)
(* loses that report for good (and every variable has its type).           *)
SubscriberKnows ==
    /\ ReportTypeOK
    /\ reliable /\ ~refused => NewestSays(last_state)
==============================================================================
