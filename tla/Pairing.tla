------------------------------- MODULE Pairing -------------------------------
(***************************************************************************)
(* Pairing: SmartConfig (mode SETTING) and the device's own access point   *)
(* (mode SELFAP), with the server through which the app asks for the       *)
(* device's identity and hands over its parameters (iotgo_setting.c), the  *)
(* events of the core task that drive them (iotgo_core.c) and the key and  *)
(* the MCU that ask for them (FWTRX_TC.c).                                 *)
(*                                                                         *)
(* Time passes in half seconds.  An event is handled and the answer to the *)
(* app, which waits for 3 ms, is sent before the next half second; the     *)
(* timers of ten seconds and more may fire at any time.                    *)
(***************************************************************************)
EXTENDS SproReader, FiniteSets

CONSTANTS
    Requests,   \* requests of the app, as units of the reader
    Timeout,    \* seconds of pairing without progress (180)
    MaxEvents,  \* bound: events waiting when a timer, the app or the user adds one
    MaxAsked,   \* bound: key presses, commands of the MCU and requests of the app
    NoReader    \* spro, and the two buffers with it, are not allocated

ASSUME PairingAssumption ==
    /\ {Timeout, MaxEvents, MaxAsked} \subseteq Nat \ {0}
    /\ Requests \subseteq Seq(Unit) /\ \A q \in Requests : Len(q) <= Size
    /\ NoReader \notin Reader

VARIABLES
    mode,       \* WORK, SETTING or SELFAP
    events,     \* the core task's events
    due,        \* half seconds, plus 1, until a short timer fires; 0: not armed
    armed,      \* the other timers that are armed
    counter,    \* __setting_mode_timeout_listener_timer_counter
    spro,       \* the reader of the server: not NoReader while is_setting_started
    listening,  \* the port is open
    sc,         \* SmartConfig: "off", "on", "linked" (has credentials), "over";
                \* smartconfig_ap_joined_flag is set in "over" only
    station,    \* the station has an address
    ap,         \* the device's own access point is up
    app,        \* the units of a request that the app has still to send
    asked,      \* key presses, commands and requests so far
    fault,      \* a null buffer was used
    leak,       \* the server was started over a running one
    hurry,      \* history: something came between a decision of the device and
                \* its end (see Disturbed)
    ousted      \* history: another handler set the mode during pairing (see Ousts)

settingVars == <<spro, listening, leak>>
wifiVars == <<sc, station, ap>>
history == <<hurry, ousted>>
timerVars == <<due, armed, counter>>
pairingVars == <<mode, events, timerVars, settingVars, wifiVars, app, asked, fault, history>>

Short == {"exit", "selfap_exit", "enter_ap", "enter_touch", "enter_key", "listen"}
\* A mutant: the other mode is entered before the old one is left.
TicksTooFew(t) == IF t \in {"exit", "selfap_exit", "listen"} THEN 2 ELSE 1
\* The delays of the short timers, in half seconds.
Ticks(t) == IF t \in {"exit", "selfap_exit", "listen"} THEN 2 ELSE 3
Long == {"resp", "waiting", "join", "monitor", "join_ap"}
\* The events of the network and of an upgrade whose handlers set the mode.
Foreign == {"JOIN_AP", "JOIN_AP_ERR", "AP_JOINED", "UPGRADE_EXIT"}
CoreEvent == {"ENTER_SETTING", "EXIT_SETTING", "ENTER_SELFAP", "EXIT_SELFAP", "SC_START", "SC_STOP",
              "SC_RESTART", "SEND_ID", "RESP"} \cup Foreign

PairingTypeOK ==
    /\ mode \in {"WORK", "SETTING", "SELFAP"}
    /\ events \in Seq(CoreEvent)
    /\ due \in [Short -> 0..4] /\ armed \subseteq Long /\ counter \in 0..Timeout - 1
    /\ sc \in {"off", "on", "linked", "over"}
    /\ {listening, leak, station, ap, fault, hurry, ousted} \subseteq BOOLEAN
    /\ spro \in Reader \cup {NoReader} /\ app \in Seq(Unit)
    /\ asked \in 0..MaxAsked

PairingInit ==
    /\ mode = "WORK" /\ events = <<>> /\ due = [t \in Short |-> 0] /\ armed = {} /\ counter = 0
    /\ spro = NoReader /\ listening = FALSE
    /\ sc = "off" /\ station = TRUE /\ ap = FALSE
    /\ app = <<>> /\ asked = 0 /\ fault = FALSE /\ leak = FALSE
    /\ hurry = FALSE /\ ousted = FALSE

------------------------------------------------------------------------------
Running == spro # NoReader
Arm(d, t) == [d EXCEPT ![t] = Ticks(t) + 1]
Room == Len(events) < MaxEvents /\ ~fault
Post(e) == events' = Append(events, e)

\* The device is leaving a pairing mode; it is leaving, entering or changing one.
Leaving == ToSet(events) \cap {"EXIT_SETTING", "EXIT_SELFAP"} # {} \/ due["exit"] > 0 \/ due["selfap_exit"] > 0
Changing == \/ Leaving \/ ToSet(events) \cap {"ENTER_SETTING", "ENTER_SELFAP"} # {}
            \/ mode = "SETTING" /\ "JOIN_AP" \in ToSet(events)
            \/ \E t \in {"enter_ap", "enter_touch", "enter_key"} : due[t] > 0
\* The app waits for an answer.
Owed == ToSet(events) \cap {"SEND_ID", "RESP"} # {} \/ "resp" \in armed

\* What goes wrong in this code is recorded where it starts: an input or a
\* request while the device changes its mode, a search that starts after it
\* left, the 30 s without a client ending with an answer owed, a link that
\* comes up while a restart of the search is queued.
Disturbed(b) == hurry' = (hurry \/ b) /\ UNCHANGED ousted

\* The network, an upgrade that ends and a package of the server set the mode
\* to one of the working modes, whatever it is; nothing stops what pairing has
\* started.  Pairing's own JOIN_AP comes when nothing of it is left.
Ousts ==
    /\ mode' = "WORK"
    /\ ousted' = \/ ousted
                 \/ mode # "WORK" /\ \/ Running \/ sc # "off" \/ Leaving
                                     \/ ToSet(events) \cap {"SC_START", "SC_RESTART", "SC_STOP"} # {}
    /\ UNCHANGED hurry

\* iotgoSettingServerStop: the delayed answer and the port are left as they are.
ServerStop == spro' = NoReader

\* iotgoSettingServerStart in mode m, with the timers as they are after it.
ServerStart(m, d, a) ==
    /\ leak' = (leak \/ Running)
    /\ spro' = NewReader
    /\ due' = Arm(d, "listen")
    /\ armed' = IF m = "SETTING" THEN a \cup {"waiting"} ELSE a \ {"waiting"}

\* iotgoSettingSmartConfigStop.
SmartConfigStop == sc' = "off"

\* taskIoTgoNetworkCenter takes event e; handling it posts more.
Takes(e, more) == events # <<>> /\ Head(events) = e /\ events' = Tail(events) \o more /\ ~fault

------------------------------------------------------------------------------
(* The core task.                                                          *)

\* MSG_CORE_ENTER_SETTING_MODE.
EnterSetting ==
    /\ Takes("ENTER_SETTING", <<"SC_START">>)
    /\ mode' = "SETTING" /\ station' = FALSE
    /\ armed' = armed \ {"join_ap"}
    /\ UNCHANGED <<due, counter, settingVars, sc, ap, app, asked, fault, history>>

\* MSG_CORE_ENTER_SETTING_SELFAP_MODE.
EnterSelfap ==
    /\ Takes("ENTER_SELFAP", <<>>)
    /\ mode' = "SELFAP" /\ station' = FALSE /\ ap' = TRUE
    /\ counter' = 0
    /\ ServerStart("SELFAP", due, (armed \ {"join_ap"}) \cup {"monitor"})
    /\ UNCHANGED <<listening, sc, app, asked, fault, history>>

\* A mutant: the server is stopped at once, not a second later.
ExitSettingAtOnce ==
    /\ Takes("EXIT_SETTING", <<>>)
    /\ counter' = 0 /\ armed' = armed \ {"monitor", "join", "waiting"}
    /\ SmartConfigStop /\ ServerStop
    /\ due' = Arm(due, "exit")
    /\ UNCHANGED <<mode, listening, leak, station, ap, app, asked, fault, history>>

\* A mutant: the search goes on.
ExitSettingSearching ==
    /\ Takes("EXIT_SETTING", <<>>)
    /\ counter' = 0 /\ armed' = armed \ {"monitor", "join"}
    /\ due' = Arm(due, "exit")
    /\ UNCHANGED <<mode, settingVars, wifiVars, app, asked, fault, history>>

\* MSG_CORE_EXIT_SETTING_MODE.
ExitSetting ==
    /\ Takes("EXIT_SETTING", <<>>)
    /\ counter' = 0 /\ armed' = armed \ {"monitor", "join"}
    /\ SmartConfigStop
    /\ due' = Arm(due, "exit")
    /\ UNCHANGED <<mode, settingVars, station, ap, app, asked, fault, history>>

\* MSG_CORE_EXIT_SETTING_SELFAP_MODE.
ExitSelfap ==
    /\ Takes("EXIT_SELFAP", <<>>)
    /\ counter' = 0 /\ armed' = armed \ {"monitor"}
    /\ due' = Arm(due, "selfap_exit")
    /\ UNCHANGED <<mode, settingVars, wifiVars, app, asked, fault, history>>

\* MSG_CORE_SETTING_SC_START: the time of pairing starts again.
ScStart ==
    /\ Takes("SC_START", <<>>)
    /\ counter' = 0 /\ armed' = armed \cup {"monitor"}
    /\ ap' = FALSE
    /\ sc' = IF sc = "off" THEN "on" ELSE sc
    /\ Disturbed(Leaving \/ mode # "SETTING")
    /\ UNCHANGED <<mode, due, settingVars, station, app, asked, fault>>

\* MSG_CORE_SETTING_SC_STOP.
ScStop ==
    /\ Takes("SC_STOP", <<>>)
    /\ SmartConfigStop
    /\ ServerStart(mode, due, armed \ {"join"})
    /\ UNCHANGED <<mode, counter, listening, station, ap, app, asked, fault, history>>

\* A mutant: the search is stopped and not started again.
ScRestartStops ==
    /\ Takes("SC_RESTART", <<>>)
    /\ SmartConfigStop
    /\ armed' = armed \ {"join"}
    /\ UNCHANGED <<mode, due, counter, settingVars, station, ap, app, asked, fault, history>>

\* MSG_CORE_SETTING_SC_RESTART.
ScRestart ==
    /\ Takes("SC_RESTART", <<"SC_START">>)
    /\ SmartConfigStop
    /\ armed' = armed \ {"join"}
    /\ UNCHANGED <<mode, due, counter, settingVars, station, ap, app, asked, fault, history>>

\* MSG_CORE_SETTING_SEND_ID_TO_APP, iotgoSettingSendDeviceInfoToApp.
SendId ==
    /\ Takes("SEND_ID", <<>>)
    /\ armed' = armed \ {"waiting"}
    /\ fault' = ~Running
    /\ UNCHANGED <<mode, due, counter, settingVars, wifiVars, app, asked, history>>

\* MSG_CORE_SETTING_RESP_TO_APP, iotgoSettingSendRespToApp.
Resp ==
    /\ Takes("RESP", <<>>)
    /\ armed' = armed \cup {"resp"}
    /\ fault' = ~Running
    /\ UNCHANGED <<mode, due, counter, settingVars, wifiVars, app, asked, history>>

\* MSG_CORE_JOIN_AP: the end of pairing, or the network's.
JoinAp ==
    /\ Takes("JOIN_AP", <<>>)
    /\ Ousts
    /\ armed' = armed \cup {"join_ap"}
    /\ UNCHANGED <<due, counter, settingVars, wifiVars, app, asked, fault>>

\* MSG_CORE_JOIN_AP_ERR.
JoinApErr ==
    /\ Takes("JOIN_AP_ERR", <<"JOIN_AP">>)
    /\ Ousts
    /\ UNCHANGED <<timerVars, settingVars, wifiVars, app, asked, fault>>

\* MSG_CORE_AP_JOINED and MSG_CORE_UPGRADE_EXIT.
BackToWork ==
    /\ Takes("AP_JOINED", <<>>) \/ Takes("UPGRADE_EXIT", <<>>)
    /\ Ousts
    /\ UNCHANGED <<timerVars, settingVars, wifiVars, app, asked, fault>>

Others == JoinAp \/ JoinApErr \/ BackToWork
Task == EnterSetting \/ EnterSelfap \/ ExitSetting \/ ExitSelfap \/ ScStart \/ ScStop \/ ScRestart
        \/ SendId \/ Resp \/ Others

------------------------------------------------------------------------------
(* Timers.                                                                 *)
\* A mutant: the access point's mode has no timeout.
ExitSettingOnly == IF mode = "SETTING" THEN <<"EXIT_SETTING">> ELSE <<>>
\* The event that leaves the present pairing mode.
Exit == CASE mode = "SETTING" -> <<"EXIT_SETTING">>
          [] mode = "SELFAP" -> <<"EXIT_SELFAP">>
          [] OTHER -> <<>>

\* Half a second passes.
Tick ==
    /\ events = <<>> /\ "resp" \notin armed /\ ~fault
    /\ \A t \in Short : due[t] # 1
    /\ \E t \in Short : due[t] > 0
    /\ due' = [t \in Short |-> IF due[t] > 0 THEN due[t] - 1 ELSE 0]
    /\ UNCHANGED <<mode, events, armed, counter, settingVars, wifiVars, app, asked, fault, history>>

Fires(t) == due[t] = 1 /\ due' = [due EXCEPT ![t] = 0] /\ Room

\* setExitTimerCallback.
SetExit ==
    /\ Fires("exit")
    /\ ServerStop /\ armed' = armed \ {"waiting"}
    /\ IF station THEN mode' = "WORK" /\ UNCHANGED events
       ELSE Post("JOIN_AP") /\ UNCHANGED mode
    /\ UNCHANGED <<counter, listening, leak, wifiVars, app, asked, fault, history>>

\* setSelfapExitTimerCallback.
SetSelfapExit ==
    /\ Fires("selfap_exit")
    /\ ServerStop /\ armed' = armed \ {"waiting"}
    /\ ap' = FALSE /\ mode' = "WORK"
    /\ Post("JOIN_AP")
    /\ UNCHANGED <<counter, listening, leak, sc, station, app, asked, fault, history>>

\* enterAp, enterEsptouch, enterSettingSelfap.
Enter ==
    /\ \/ (Fires("enter_ap") \/ Fires("enter_key")) /\ Post("ENTER_SELFAP")
       \/ Fires("enter_touch") /\ Post("ENTER_SETTING")
    /\ UNCHANGED <<mode, armed, counter, settingVars, wifiVars, app, asked, fault, history>>

\* startTCPListen.
StartTCPListen ==
    /\ Fires("listen")
    /\ listening' = TRUE
    /\ UNCHANGED <<mode, events, armed, counter, spro, leak, wifiVars, app, asked, fault, history>>

Expires(t) == t \in armed /\ Room

\* cbSettingModeTimeoutListenerTimer: periodic.
TimeoutListener ==
    /\ Expires("monitor")
    /\ counter' = (counter + 1) % Timeout
    /\ events' = IF counter' = 0 THEN events \o Exit ELSE events
    /\ UNCHANGED <<mode, due, armed, settingVars, wifiVars, app, asked, fault, history>>

\* cbWaitingClientTmr.
WaitingClient ==
    /\ Expires("waiting")
    /\ armed' = armed \ {"waiting"}
    /\ ServerStop /\ Post("SC_START")
    /\ Disturbed(Owed)
    /\ UNCHANGED <<mode, due, counter, listening, leak, wifiVars, app, asked, fault>>

\* cbSmartConfigJoinApTimer.
JoinTimer ==
    /\ Expires("join")
    /\ armed' = armed \ {"join"}
    /\ IF sc # "over" /\ mode = "SETTING" THEN Post("SC_RESTART") ELSE UNCHANGED events
    /\ UNCHANGED <<mode, due, counter, settingVars, wifiVars, app, asked, fault, history>>

\* settingDelayRespAppTimerCb.
DelayResp ==
    /\ Expires("resp")
    /\ armed' = armed \ {"resp"}
    /\ fault' = ~Running
    /\ events' = events \o Exit
    /\ UNCHANGED <<mode, due, counter, settingVars, wifiVars, app, asked, history>>

\* joinAPStage2, when the attempt to join the access point has ended.
JoinApTimer ==
    /\ Expires("join_ap")
    /\ armed' = armed \ {"join_ap"}
    /\ station' \in BOOLEAN
    /\ Post(IF mode = "SETTING" THEN "RESP" ELSE IF station' THEN "AP_JOINED" ELSE "JOIN_AP_ERR")
    /\ UNCHANGED <<mode, due, counter, settingVars, sc, ap, app, asked, fault, history>>

ShortTimers == SetExit \/ SetSelfapExit \/ Enter \/ StartTCPListen
Timers == ShortTimers \/ TimeoutListener \/ WaitingClient \/ JoinTimer \/ DelayResp

------------------------------------------------------------------------------
(* SmartConfig, the app and the user.                                      *)

\* cbSmartConfig, SC_STATUS_LINK: the credentials are saved and tried.
ScLink ==
    /\ sc = "on" /\ Room
    /\ sc' = "linked" /\ armed' = armed \cup {"join"} /\ station' = FALSE
    /\ UNCHANGED <<mode, events, due, counter, settingVars, ap, app, asked, fault, history>>

\* The station gets an address; with wrong credentials it never does.
StationUp ==
    /\ sc = "linked" /\ ~station
    /\ station' = TRUE
    /\ UNCHANGED <<mode, events, timerVars, settingVars, sc, ap, app, asked, fault, history>>

\* cbSmartConfig, SC_STATUS_LINK_OVER.
ScLinkOver ==
    /\ sc = "linked" /\ station /\ Room
    /\ sc' = "over"
    /\ Post("SC_STOP")
    /\ Disturbed("SC_RESTART" \in ToSet(events))
    /\ UNCHANGED <<mode, timerVars, settingVars, station, ap, app, asked, fault>>

\* The app starts a request, not before the last one is answered.
AppRequest ==
    /\ listening /\ app = <<>> /\ (mode # "WORK" \/ Running) /\ ~Owed /\ ~fault
    /\ asked < MaxAsked /\ asked' = asked + 1
    /\ app' \in Requests
    /\ UNCHANGED <<mode, events, timerVars, settingVars, wifiVars, fault, history>>

\* svrSproOnePkgCb: the event a package leads to; parameters are saved before it.
Answer(c) ==
    LET units == ToSet(Text(c.r)) IN
    IF "get" \in units THEN <<"SEND_ID">>
    ELSE IF "post" \in units /\ "}" \in units
            /\ \/ "{all" \in units /\ mode \in {"SETTING", "SELFAP"}
               \/ "{host" \in units /\ mode = "SETTING"
         THEN <<"RESP">>
    ELSE <<>>

Answers(res) ==
    LET new == FlattenSeq([i \in DOMAIN res.calls |-> Answer(res.calls[i])]) IN
    /\ spro' = res.r
    /\ events' = events \o new
    /\ Disturbed(new # <<>> /\ Changing)
    /\ UNCHANGED <<mode, timerVars, listening, leak, wifiVars, asked, fault>>

\* svrTCPRecvCallback.
AppSegment ==
    /\ Room
    /\ \E n \in 1..Len(app) :
        /\ app' = SubSeq(app, n + 1, Len(app))
        /\ IF Running THEN Answers(Recv(spro, "HTTP", SubSeq(app, 1, n)))
           ELSE UNCHANGED <<mode, events, timerVars, settingVars, wifiVars, asked, fault, history>>

\* spro10sTimerCallback: the rest of an abandoned request is handed over too.
AppTimer ==
    /\ Running /\ spro.armed /\ Room
    /\ Answers(Expired(spro))
    /\ UNCHANGED app

\* keyISRStage2: a long press enters pairing, or changes to the access point.
LongPress ==
    /\ mode # "SELFAP"
    /\ IF mode = "SETTING"
       THEN Post("EXIT_SETTING") /\ due' = Arm(due, "enter_key")
       ELSE Post("ENTER_SETTING") /\ UNCHANGED due

\* keyISRStage2 and dealSettingMode (TC_SETTING_EXIT): leave pairing.
ShortPress == mode # "WORK" /\ events' = events \o Exit /\ UNCHANGED due

\* dealSettingMode.
McuAp ==
    /\ mode # "SELFAP"
    /\ IF mode = "SETTING" THEN Post("EXIT_SETTING") /\ due' = Arm(due, "enter_ap")
       ELSE Post("ENTER_SELFAP") /\ UNCHANGED due

McuTouch ==
    /\ mode # "SETTING"
    /\ IF mode = "SELFAP" THEN Post("EXIT_SELFAP") /\ due' = Arm(due, "enter_touch")
       ELSE Post("ENTER_SETTING") /\ UNCHANGED due

Asks ==
    /\ Room /\ asked < MaxAsked /\ asked' = asked + 1
    /\ LongPress \/ ShortPress \/ McuAp \/ McuTouch
    /\ Disturbed(Changing)
    /\ UNCHANGED <<mode, armed, counter, settingVars, wifiVars, app, fault>>

\* iotgoWiFiEventHander in a working mode, the station lost, and
\* cbModeMonitorTimer, a minute without progress: the network starts again.
NetworkLost ==
    /\ mode = "WORK"
    /\ station' \in {station, FALSE} /\ Post("JOIN_AP")
    /\ UNCHANGED <<mode, sc, ap, history>>

\* An upgrade ends, however it ends.
UpgradeEnds == Post("UPGRADE_EXIT") /\ UNCHANGED <<mode, wifiVars, history>>

\* clientTCPSproOnePkgCb: a package of the server, whose connection the device
\* has perhaps not closed yet.
ServerPackage == station /\ Ousts /\ UNCHANGED <<events, wifiVars>>

Network ==
    /\ Room /\ asked < MaxAsked /\ asked' = asked + 1
    /\ NetworkLost \/ UpgradeEnds \/ ServerPackage
    /\ UNCHANGED <<timerVars, settingVars, app, fault>>

\* After a disturbance the device plays on alone: no new input.
PairingNext ==
    \/ Task \/ Timers \/ Tick
    \/ ~hurry /\ (ScLink \/ StationUp \/ ScLinkOver \/ JoinApTimer)
    \/ ~hurry /\ (AppRequest \/ AppSegment \/ AppTimer \/ Asks \/ Network)

PairingSpec == PairingInit /\ [][PairingNext]_pairingVars

\* The core task runs, time passes and timers fire.
PairingFairness ==
    /\ WF_pairingVars(Task) /\ WF_pairingVars(Tick) /\ WF_pairingVars(ShortTimers)
    /\ WF_pairingVars(TimeoutListener) /\ WF_pairingVars(DelayResp)

------------------------------------------------------------------------------
(* iotgo_setting.c: svr_rx_buffer and the reader's buffer are not used     *)
(* after iotgoSettingServerStop freed them and set them to NULL: an answer *)
(* that is decided but not yet sent (3 ms later, through the core's queue) *)
(* finds them, because leaving waits a second before it stops the server.  *)
(* What defeats it is in Disturbed: a request while the server is about to *)
(* be stopped, or the 30 s without a client ending with an answer owed.    *)
NoNullBuffer == fault => hurry

(* iotgo_setting.c, iotgoSettingServerStart: the buffers of a running      *)
(* server are never replaced (they would leak, and so would its port):     *)
(* changing from one pairing mode to the other waits 1.5 s, longer than    *)
(* the 1 s after which the old mode's server is stopped.                   *)
StartedOnce == leak => hurry \/ ousted

(* iotgo_core.c, the two EXIT events and their timers: once the device is  *)
(* back at work, nothing of pairing is left: no search, no server, no      *)
(* access point and no timer that would act on them.                       *)
QuietAtWork ==
    (mode = "WORK" /\ ~Changing /\ ~hurry /\ ~ousted) =>
        sc = "off" /\ ~Running /\ armed \subseteq {"join_ap"} /\ ~ap

(* Pairing never waits for nothing: with its own access point the device   *)
(* serves the app under the timeout; in SETTING it searches or serves (not *)
(* both, since SmartConfig and the server share the radio) under the       *)
(* timeout, or an event that leads there is on its way.  (And every        *)
(* variable has its type.)                                                 *)
PairingServes ==
    /\ PairingTypeOK
    /\ ~Changing /\ ~hurry /\ ~ousted =>
        /\ mode = "SELFAP" => ap /\ Running /\ sc = "off" /\ "monitor" \in armed
        /\ mode = "SETTING" => \/ ToSet(events) \cap {"SC_START", "SC_RESTART", "SC_STOP"} # {}
                               \/ "monitor" \in armed /\ (sc # "off") # Running

(* cbSettingModeTimeoutListenerTimer: a device that is left in pairing     *)
(* goes back to work, unless the search starts again and again (each start *)
(* gives it another Timeout seconds) or a null buffer resets it.           *)
PairingEnds == []<>(mode = "WORK") \/ []<><<ScStart>>_pairingVars \/ <>fault
==============================================================================
