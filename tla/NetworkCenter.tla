---------------------------- MODULE NetworkCenter ----------------------------
(***************************************************************************)
(* The core task of the firmware (taskIoTgoNetworkCenter of iotgo_core.c): *)
(* how the device gets from power-on to a registered session with its      *)
(* server and back to one after any loss, together with the parts that     *)
(* drive it: joining the access point (iotgo_wifi.c), asking the           *)
(* distributor for a server (iotgo_bconn.c), the persistent connection     *)
(* (iotgo_pconn.c), the entry into and the exit from pairing, and the end  *)
(* of a firmware upgrade.                                                  *)
(*                                                                         *)
(* Left to other modules: the queue of outgoing messages (SendPump), what  *)
(* happens inside pairing and inside an upgrade.  The handlers that only   *)
(* hand a message to the send pump (MSG_CORE_DATE, MSG_CORE_NOTIFY_CONFIG) *)
(* do not appear.  The retry counters only choose delays, and delays are   *)
(* not modelled: an armed timer may fire at any time.                      *)
(***************************************************************************)
EXTENDS Integers, Sequences

CONSTANT
    Scenes      \* the circumstances to explore; every behaviour is one of them

\* A scene: how many events wait at most while timers and callbacks run, how
\* often the network fails, how often the user starts or switches pairing,
\* whether the server may start an upgrade, and whether nothing is assumed of
\* delays and answers (any_timing) or what happens in a healthy network takes
\* less than the firmware's own delays (Timely).
Scene == [backlog : Nat \ {0}, losses : Nat, keys : Nat, upgrade : BOOLEAN, any_timing : BOOLEAN]

ASSUME NetworkCenterAssumption == Scenes \subseteq Scene

VARIABLES
    mode,       \* iotgoDeviceMode()
    events,     \* the core task's event queue
    timers,     \* the armed timers
    sta,        \* the station; "leaving": disconnected by us, the event is due
    distor,     \* the request to the distributor
    conn,       \* the connection of client_tcp
    old,        \* an earlier connection was abandoned before its end was reported
    reg_sent,   \* a register message is with the send pump or the server
    upgrade,    \* a firmware upgrade is running
    scene,      \* the circumstances of this behaviour
    good,       \* access point, distributor and server are reachable
    losses,     \* how often the network failed
    keys,       \* how often the user started or switched pairing
    forced      \* UPGRADE_EXIT declared the device online while it was not

netVars == <<sta, distor, conn, old, reg_sent>>
envVars == <<scene, good, losses, keys>>
vars == <<mode, events, timers, netVars, upgrade, envVars, forced>>

MaxBacklog == scene.backlog
MaxLoss == scene.losses
MaxKey == scene.keys

WorkMode == {"AP_ERR", "AP_OK", "INIT", "NORMAL"}
PairingMode == {"SETTING", "SELFAP"}
Mode == {"START"} \cup WorkMode \cup PairingMode

Sig == {"JOIN_AP", "JOIN_AP_ERR", "AP_JOINED", "DISTRIBUTOR", "DISTRIBUTOR_OK",
        "DISTRIBUTOR_ERR", "REDIRECT", "CONNECT_SERVER", "CONNECT_SERVER_AGAIN",
        "SERVER_LOST", "SERVER_CONNECTED", "WS_CONNECT", "WS_CONNECTED", "REGISTER",
        "REGISTERED", "REGISTER_ERR", "WS_PING", "UPGRADE_EXIT",
        "ENTER_SETTING", "EXIT_SETTING", "ENTER_SELFAP", "EXIT_SELFAP"}

\* The join timer has two callbacks, joinAPTimerCallback and joinAPStage2.
Timer == {"start", "join1", "join2", "distor", "conn", "reg", "heartbeat",
          "exit", "selfap_exit", "enter", "selfap_enter"}

\* "running": no result posted yet; "stopped": its connection was closed
\* under it; "none": the result was posted, or nothing was ever asked.
Distor == {"none", "running", "stopped"}

\* "up": TCP connected; "upgrading": the WebSocket handshake is out; "dead":
\* the peer is gone and nobody told; "closing": disconnected by us, the
\* callback is due.
Conn == {"none", "connecting", "up", "upgrading", "ws", "dead", "closing"}

TypeOK ==
    /\ mode \in Mode
    /\ events \in Seq(Sig) /\ Len(events) <= MaxBacklog
    /\ timers \subseteq Timer
    /\ sta \in {"idle", "connecting", "got_ip", "leaving"}
    /\ distor \in Distor /\ conn \in Conn
    /\ {old, reg_sent, upgrade, good, forced} \subseteq BOOLEAN
    /\ scene \in Scenes
    /\ losses \in 0..MaxLoss /\ keys \in 0..MaxKey

\* iotgoCoreRun: the event queue exists, startIoTgoNetworkCenter is 100 ms away.
Init ==
    /\ mode = "START" /\ events = <<>> /\ timers = {"start"}
    /\ sta = "idle" /\ distor = "none" /\ conn = "none" /\ old = FALSE
    /\ reg_sent = FALSE /\ upgrade = FALSE
    /\ scene \in Scenes
    /\ good = TRUE /\ losses = 0 /\ keys = 0
    /\ forced = FALSE

------------------------------------------------------------------------------
\* system_os_post on queue q.  The real queue has 64 places, far more than
\* the model lets wait.
Post(q, sig) == events' = Append(q, sig)
NoPost(q) == events' = q

\* os_timer_disarm and os_timer_arm.
Timers(disarm, arm) == timers' = (timers \ disarm) \cup arm

Pending(sigs) == \E i \in 1..Len(events) : events[i] \in sigs

\* The core task takes its next event, which is sig.
Take(sig) == events # <<>> /\ Head(events) = sig

\* A one-shot timer fires.
Fire(t) == t \in timers

\* The device can talk to the world.
Reachable == good /\ sta = "got_ip"

\* A delay may not end while something quicker than it is going on.
Timely(going_on) == scene.any_timing \/ ~going_on

\* From the first packet of a connection to the answer to the registration.
Connecting ==
    \/ conn \in {"connecting", "up", "upgrading"}
    \/ conn = "ws" /\ reg_sent

\* iotgoWifiLeave
Left == IF sta = "idle" THEN "idle" ELSE "leaving"

CancelRetry == {"reg", "conn", "distor"}

\* iotgoPconnDisconnect stops the heartbeat, and the end of an established
\* connection will be reported by clientTCPDisconCallback.  espconn knows
\* nothing of a connection that is still being set up.
Disconnected == IF conn \in {"up", "upgrading", "ws", "dead"} THEN "closing" ELSE conn

------------------------------------------------------------------------------
\* iotgo_core.c and iotgo_wifi.c: joining the access point.
StartNetworkCenter ==
    /\ Fire("start")
    /\ Timers({"start"}, {})
    /\ Post(events, "JOIN_AP")
    /\ UNCHANGED <<mode, netVars, upgrade, envVars, forced>>

JoinAp ==
    /\ Take("JOIN_AP")
    /\ mode' = "AP_ERR"
    /\ Timers(CancelRetry \cup {"join2"}, {"join1"})        \* iotgoWifiJoin
    /\ NoPost(Tail(events))
    /\ UNCHANGED <<netVars, upgrade, envVars, forced>>

JoinApErr ==
    /\ Take("JOIN_AP_ERR")
    /\ mode' = "AP_ERR"
    /\ Post(Tail(events), "JOIN_AP")
    /\ UNCHANGED <<timers, netVars, upgrade, envVars, forced>>

ApJoined ==
    /\ Take("AP_JOINED")
    /\ mode' = "AP_OK"
    /\ Post(Tail(events), "DISTRIBUTOR")
    /\ UNCHANGED <<timers, netVars, upgrade, envVars, forced>>

\* joinAPTimerCallback: leave, then connect with the stored credentials.
JoinApTimer ==
    /\ Fire("join1")
    /\ \/ /\ sta' = "connecting"
          /\ Timers({"join1"}, {"join2"})
       \/ /\ ~good                              \* wifi_station_connect failed
          /\ sta' = Left
          /\ Timers({"join1"}, {})
    /\ NoPost(events)
    /\ UNCHANGED <<mode, distor, conn, old, reg_sent, upgrade, envVars, forced>>

\* joinAPStage2, every two seconds: the station has an address, or this was
\* the tenth time; in pairing the outcome is told to the app instead.
JoinApStage2 ==
    /\ Fire("join2")
    /\ \/ sta = "got_ip" /\ sta' = sta
       \/ sta # "got_ip" /\ ~good /\ sta' = Left
    /\ Timers({"join2"}, {})
    /\ IF mode = "SETTING" THEN NoPost(events)
       ELSE Post(events, IF sta = "got_ip" THEN "AP_JOINED" ELSE "JOIN_AP_ERR")
    /\ UNCHANGED <<mode, distor, conn, old, reg_sent, upgrade, envVars, forced>>

\* The station gets its address; or it has left or lost the access point,
\* which iotgoWiFiEventHander reports unless a new attempt is under way.
StationGotIp ==
    /\ sta = "connecting" /\ good
    /\ sta' = "got_ip"
    /\ UNCHANGED <<mode, events, timers, distor, conn, old, reg_sent, upgrade, envVars, forced>>

StationLost ==
    /\ sta = "leaving" \/ (sta \in {"connecting", "got_ip"} /\ ~good)
    /\ sta' = "idle"
    /\ IF mode \in WorkMode THEN Post(events, "JOIN_AP") ELSE NoPost(events)
    /\ UNCHANGED <<mode, timers, distor, conn, old, reg_sent, upgrade, envVars, forced>>

\* cbModeMonitorTimer: a minute in a mode on the way to NORMAL.  In a healthy
\* network a minute is enough for what is on its way to end.
InProgress ==
    \/ events # <<>>
    \/ good /\ timers \cap {"join1", "join2"} # {}
    \/ Reachable /\ (distor # "none" \/ Connecting \/ (conn = "ws" /\ "reg" \in timers))

\* Mutant: the mode the device is in while it joins is not watched.
ModeMonitorSkipsApErr ==
    /\ mode \in {"AP_OK", "INIT"}
    /\ Timely(InProgress)
    /\ ~Pending({"JOIN_AP"})
    /\ Post(events, "JOIN_AP")
    /\ UNCHANGED <<mode, timers, netVars, upgrade, envVars, forced>>

ModeMonitor ==
    /\ mode \in {"AP_ERR", "AP_OK", "INIT"}
    /\ Timely(InProgress)
    /\ ~Pending({"JOIN_AP"})
    /\ Post(events, "JOIN_AP")
    /\ UNCHANGED <<mode, timers, netVars, upgrade, envVars, forced>>

------------------------------------------------------------------------------
\* iotgo_bconn.c: asking the distributor for a server.
\* A new request overwrites one that is still running.
Distributor ==
    /\ Take("DISTRIBUTOR")
    /\ IF mode = "SETTING"
       THEN UNCHANGED <<timers, distor>>
       ELSE Timers({"reg", "conn"}, {}) /\ distor' = "running"
    /\ NoPost(Tail(events))
    /\ UNCHANGED <<mode, sta, conn, old, reg_sent, upgrade, envVars, forced>>

\* distorPostResultToNetworkCenter: the first of the response, an error
\* callback and the 10 s timeout posts the result, the others are ignored.
DistorResult ==
    /\ distor # "none"
    /\ distor' = "none"
    /\ \/ distor = "running" /\ Reachable /\ Post(events, "DISTRIBUTOR_OK")
       \/ (distor = "stopped" \/ ~Reachable) /\ Post(events, "DISTRIBUTOR_ERR")
    /\ UNCHANGED <<mode, timers, sta, conn, old, reg_sent, upgrade, envVars, forced>>

\* stopDistorRequest closes the connection of whatever request is running.
DistributorFinished(ok) ==
    /\ Take(IF ok THEN "DISTRIBUTOR_OK" ELSE "DISTRIBUTOR_ERR")
    /\ distor' = IF distor = "running" THEN "stopped" ELSE distor
    /\ IF ok THEN Post(Tail(events), "CONNECT_SERVER") /\ UNCHANGED timers
             ELSE NoPost(Tail(events)) /\ Timers({}, {"distor"})
    /\ UNCHANGED <<mode, sta, conn, old, reg_sent, upgrade, envVars, forced>>

\* tryDistorTmrCb
TryDistorTimer ==
    /\ Fire("distor")
    /\ Timers({"distor"}, {})
    /\ IF mode \notin {"INIT", "NORMAL", "AP_ERR", "SETTING"}
       THEN Post(events, "DISTRIBUTOR") ELSE NoPost(events)
    /\ UNCHANGED <<mode, netVars, upgrade, envVars, forced>>

------------------------------------------------------------------------------
\* iotgo_pconn.c: the persistent connection.
\* iotgoPconnConnect clears client_tcp whatever it was used for before; the
\* end of an abandoned connection is reported to the same callbacks.
ConnectServer ==
    /\ Take("CONNECT_SERVER")
    /\ IF mode \in PairingMode \cup {"NORMAL"}
       THEN UNCHANGED <<timers, conn, old>>
       ELSE /\ Timers({"reg"}, {})
            /\ conn' = "connecting"
            /\ old' = (old \/ conn # "none")
    /\ NoPost(Tail(events))
    /\ UNCHANGED <<mode, sta, distor, reg_sent, upgrade, envVars, forced>>

\* connAgainTimerCallback
ConnAgainTimer ==
    /\ Fire("conn")
    /\ Timely(Connecting \/ conn = "closing" \/ old)
    /\ Timers({"conn"}, {})
    /\ Post(events, "CONNECT_SERVER")
    /\ UNCHANGED <<mode, netVars, upgrade, envVars, forced>>

ConnectServerAgain ==
    /\ Take("CONNECT_SERVER_AGAIN")
    /\ IF mode \in PairingMode
       THEN UNCHANGED <<mode, timers>>
       ELSE mode' = "AP_OK" /\ Timers({}, {"conn"})
    /\ NoPost(Tail(events))
    /\ UNCHANGED <<netVars, upgrade, envVars, forced>>

\* MSG_CORE_CONNECT_SERVER_ERR, _RECONNECT_SERVER and _SERVER_DISCONNECTED
\* have the same handler.
ServerLost ==
    /\ Take("SERVER_LOST")
    /\ Timers({"heartbeat"}, {})
    /\ Post(Tail(events), "CONNECT_SERVER_AGAIN")
    /\ UNCHANGED <<mode, sta, distor, conn, old, reg_sent, upgrade, envVars, forced>>

\* clientTCPConnectedCallback; a failed attempt is reported by connTCP,
\* dnsFoundCallback or clientTCPReconCallback, except that dnsFoundCallback
\* posts nothing for an address of 0.
Connected ==
    /\ conn = "connecting" /\ Reachable
    /\ conn' = "up"
    /\ Post(events, "SERVER_CONNECTED")
    /\ UNCHANGED <<mode, timers, sta, distor, old, reg_sent, upgrade, envVars, forced>>

ConnectFails ==
    /\ conn = "connecting" /\ ~Reachable
    /\ conn' = "none"
    /\ \/ Post(events, "SERVER_LOST")
       \/ NoPost(events)
    /\ UNCHANGED <<mode, timers, sta, distor, old, reg_sent, upgrade, envVars, forced>>

\* An established connection breaks: reported at once, or never.
ConnectionBreaks ==
    /\ conn \in {"up", "upgrading", "ws"} /\ ~Reachable
    /\ \/ conn' = "none" /\ Post(events, "SERVER_LOST")
       \/ conn' = "dead" /\ NoPost(events)
    /\ UNCHANGED <<mode, timers, sta, distor, old, reg_sent, upgrade, envVars, forced>>

\* Whatever is sent over a dead connection is never acknowledged: after its
\* last retransmission TCP reports the end.  In mode NORMAL the date is sent
\* every half hour (gmtTimerCallback), with or without a heartbeat.
TcpGivesUp ==
    /\ conn = "dead"
    /\ conn' = "none"
    /\ Post(events, "SERVER_LOST")
    /\ UNCHANGED <<mode, timers, sta, distor, old, reg_sent, upgrade, envVars, forced>>

\* Mutant: a connection we closed ourselves is not reported.
DisconCallbackSilent ==
    /\ \/ conn = "closing" /\ conn' = "none" /\ UNCHANGED old /\ NoPost(events)
       \/ /\ old /\ Timely(Connecting) /\ old' = FALSE /\ UNCHANGED conn
          /\ Post(events, "SERVER_LOST")
    /\ UNCHANGED <<mode, timers, sta, distor, reg_sent, upgrade, envVars, forced>>

\* clientTCPDisconCallback for a connection we closed, and for an abandoned one.
DisconCallback ==
    /\ \/ conn = "closing" /\ conn' = "none" /\ UNCHANGED old
       \/ old /\ Timely(Connecting) /\ old' = FALSE /\ UNCHANGED conn
    /\ Post(events, "SERVER_LOST")
    /\ UNCHANGED <<mode, timers, sta, distor, reg_sent, upgrade, envVars, forced>>

\* MSG_CORE_SERVER_CONNECTED clears the queue of outgoing messages.
ServerConnected ==
    /\ Take("SERVER_CONNECTED")
    /\ reg_sent' = FALSE
    /\ Post(Tail(events), "WS_CONNECT")
    /\ UNCHANGED <<mode, timers, sta, distor, conn, old, upgrade, envVars, forced>>

\* iotgoPconnSwitchToWebSocket: a failed send is only logged.
WsConnect ==
    /\ Take("WS_CONNECT")
    /\ conn' = IF conn = "up" THEN "upgrading" ELSE conn
    /\ NoPost(Tail(events))
    /\ UNCHANGED <<mode, timers, sta, distor, old, reg_sent, upgrade, envVars, forced>>

\* The server answers the handshake.
SwitchingProtocols ==
    /\ conn = "upgrading" /\ Reachable
    /\ conn' = "ws"
    /\ Post(events, "WS_CONNECTED")
    /\ UNCHANGED <<mode, timers, sta, distor, old, reg_sent, upgrade, envVars, forced>>

\* iotgoCoreHeartbeatStart
WsConnected ==
    /\ Take("WS_CONNECTED")
    /\ Timers({}, {"heartbeat"})
    /\ Post(Tail(events), "REGISTER")
    /\ UNCHANGED <<mode, sta, distor, conn, old, reg_sent, upgrade, envVars, forced>>

------------------------------------------------------------------------------
\* Registration.
Register ==
    /\ Take("REGISTER")
    /\ IF mode \in PairingMode
       THEN UNCHANGED <<mode, reg_sent>>
       ELSE mode' = "INIT" /\ reg_sent' = TRUE
    /\ NoPost(Tail(events))
    /\ UNCHANGED <<timers, sta, distor, conn, old, upgrade, envVars, forced>>

\* doNotifyConfig: the server may turn the heartbeat on or off.
Configured ==
    \/ UNCHANGED timers
    \/ Timers({}, {"heartbeat"})
    \/ Timers({"heartbeat"}, {})

\* The server accepts or rejects; or the send pump gives up, or drops the message
\* in a mode in which it does not send.
RegisterAnswered ==
    /\ reg_sent /\ conn = "ws" /\ Reachable
    /\ reg_sent' = FALSE
    /\ Configured
    /\ Post(events, "REGISTERED")
    /\ UNCHANGED <<mode, sta, distor, conn, old, upgrade, envVars, forced>>

RegisterFails ==
    /\ reg_sent
    /\ reg_sent' = FALSE
    /\ \/ Timely(conn = "ws" /\ Reachable) /\ Post(events, "REGISTER_ERR")
       \/ mode \notin {"INIT", "NORMAL"} /\ NoPost(events)
    /\ UNCHANGED <<mode, timers, sta, distor, conn, old, upgrade, envVars, forced>>

\* Mutant: a late answer is accepted in every mode.
RegisteredAnyMode ==
    /\ Take("REGISTERED")
    /\ mode' = "NORMAL"
    /\ NoPost(Tail(events))
    /\ UNCHANGED <<timers, netVars, upgrade, envVars, forced>>

Registered ==
    /\ Take("REGISTERED")
    /\ mode' = IF mode \in PairingMode THEN mode ELSE "NORMAL"
    /\ NoPost(Tail(events))
    /\ UNCHANGED <<timers, netVars, upgrade, envVars, forced>>

RegisterErr ==
    /\ Take("REGISTER_ERR")
    /\ Timers({}, {"reg"})
    /\ NoPost(Tail(events))
    /\ UNCHANGED <<mode, netVars, upgrade, envVars, forced>>

\* cbRegisterTimer
RegisterTimer ==
    /\ Fire("reg")
    /\ Timers({"reg"}, {})
    /\ Post(events, "REGISTER")
    /\ UNCHANGED <<mode, netVars, upgrade, envVars, forced>>

------------------------------------------------------------------------------
\* The session: heartbeat and packages of the server.
\* sendPingToServer, every second: a ping is due when nothing was received
\* for long enough.
HeartbeatTimer ==
    /\ Fire("heartbeat")
    /\ ~Pending({"WS_PING"})
    /\ Post(events, "WS_PING")
    /\ UNCHANGED <<mode, timers, netVars, upgrade, envVars, forced>>

\* Two pings without a pong end the connection; the counting is not modelled.
WsPing ==
    /\ Take("WS_PING")
    /\ \/ /\ Timely(conn \in {"connecting", "up", "upgrading", "ws"} /\ Reachable)
          /\ Timers({"heartbeat"}, {}) /\ conn' = Disconnected
       \/ UNCHANGED <<timers, conn>>
    /\ NoPost(Tail(events))
    /\ UNCHANGED <<mode, sta, distor, old, reg_sent, upgrade, envVars, forced>>

\* clientTCPSproOnePkgCb: any request or response but INIT and UPGRADE sets
\* the mode, whatever it was; a redirection is also posted.  A connection we
\* have closed, or abandoned, may still deliver.
ServerPackage ==
    /\ conn \in {"ws", "closing"} \/ old
    /\ Reachable
    /\ mode' = "NORMAL"
    /\ \/ NoPost(events) /\ Configured
       \/ ~Pending({"REDIRECT"}) /\ Post(events, "REDIRECT") /\ UNCHANGED timers
    /\ UNCHANGED <<netVars, upgrade, envVars, forced>>

Redirect ==
    /\ Take("REDIRECT")
    /\ Timers({"heartbeat"}, {})
    /\ conn' = Disconnected
    /\ Post(Tail(events), "CONNECT_SERVER_AGAIN")
    /\ UNCHANGED <<mode, sta, distor, old, reg_sent, upgrade, envVars, forced>>

------------------------------------------------------------------------------
\* Pairing: its entry and exit.  AskPairing is the long key press or a
\* command of the MCU (keyISRStage2, dealSettingMode), SwitchPairing the
\* same from one kind of pairing to the other: leave now, enter 1.5 s later.
AskPairing ==
    /\ keys < MaxKey
    /\ keys' = keys + 1
    /\ mode \notin PairingMode
    /\ Post(events, "ENTER_SETTING") \/ Post(events, "ENTER_SELFAP")
    /\ UNCHANGED <<mode, timers, netVars, upgrade, scene, good, losses, forced>>

SwitchPairing ==
    /\ keys < MaxKey
    /\ keys' = keys + 1
    /\ \/ mode = "SETTING" /\ Post(events, "EXIT_SETTING") /\ Timers({}, {"selfap_enter"})
       \/ mode = "SELFAP" /\ Post(events, "EXIT_SELFAP") /\ Timers({}, {"enter"})
    /\ UNCHANGED <<mode, netVars, upgrade, scene, good, losses, forced>>

EnterTimer(t, sig) ==
    /\ Fire(t)
    /\ Timers({t}, {})
    /\ Post(events, sig)
    /\ UNCHANGED <<mode, netVars, upgrade, envVars, forced>>

EnterPairing(p, sig) ==
    /\ Take(sig)
    /\ mode' = p
    /\ Timers(CancelRetry \cup {"heartbeat", "join1", "join2"}, {})
    /\ conn' = Disconnected
    /\ sta' = Left
    /\ NoPost(Tail(events))
    /\ UNCHANGED <<distor, old, reg_sent, upgrade, envVars, forced>>

\* SmartConfig found the credentials and connects the station.
SmartConfigLink ==
    /\ mode = "SETTING" /\ sta \in {"idle", "leaving"}
    /\ sta' = "connecting"
    /\ UNCHANGED <<mode, events, timers, distor, conn, old, reg_sent, upgrade, envVars, forced>>

PairingEnds ==
    /\ mode \in PairingMode
    /\ ~Pending({"EXIT_SETTING", "EXIT_SELFAP"})
    /\ Post(events, IF mode = "SETTING" THEN "EXIT_SETTING" ELSE "EXIT_SELFAP")
    /\ UNCHANGED <<mode, timers, netVars, upgrade, envVars, forced>>

ExitPairing(sig, t) ==
    /\ Take(sig)
    /\ Timers({}, {t})
    /\ NoPost(Tail(events))
    /\ UNCHANGED <<mode, netVars, upgrade, envVars, forced>>

\* setExitTimerCallback, setSelfapExitTimerCallback: a second later,
\* whatever the mode is by then.
SetExitTimer ==
    /\ Fire("exit")
    /\ Timers({"exit"}, {})
    /\ IF sta = "got_ip"
       THEN mode' = "AP_OK" /\ Post(events, "DISTRIBUTOR")
       ELSE UNCHANGED mode /\ Post(events, "JOIN_AP")
    /\ UNCHANGED <<netVars, upgrade, envVars, forced>>

SetSelfapExitTimer ==
    /\ Fire("selfap_exit")
    /\ Timers({"selfap_exit"}, {})
    /\ mode' = "AP_ERR"
    /\ Post(events, "JOIN_AP")
    /\ UNCHANGED <<netVars, upgrade, envVars, forced>>

------------------------------------------------------------------------------
\* A firmware upgrade starts over a live session and runs on a connection of
\* its own; however it ends, MSG_CORE_UPGRADE_EXIT sets the mode.
UpgradeStart ==
    /\ scene.upgrade /\ ~upgrade
    /\ conn = "ws" /\ Reachable /\ mode = "NORMAL"
    /\ upgrade' = TRUE
    /\ UNCHANGED <<mode, events, timers, netVars, envVars, forced>>

UpgradeEnds ==
    /\ upgrade /\ ~Pending({"UPGRADE_EXIT"})
    /\ Post(events, "UPGRADE_EXIT")
    /\ UNCHANGED <<mode, timers, netVars, upgrade, envVars, forced>>

UpgradeExit ==
    /\ Take("UPGRADE_EXIT")
    /\ mode' = "NORMAL"
    /\ upgrade' = FALSE
    /\ forced' = (forced \/ mode # "NORMAL")
    /\ NoPost(Tail(events))
    /\ UNCHANGED <<timers, netVars, envVars>>

------------------------------------------------------------------------------
NetworkFails ==
    /\ good /\ losses < MaxLoss
    /\ good' = FALSE
    /\ losses' = losses + 1
    /\ UNCHANGED <<mode, events, timers, netVars, upgrade, scene, keys, forced>>

NetworkRecovers ==
    /\ ~good
    /\ good' = TRUE
    /\ UNCHANGED <<mode, events, timers, netVars, upgrade, scene, losses, keys, forced>>

CoreTask ==
    \/ JoinAp \/ JoinApErr \/ ApJoined
    \/ Distributor \/ \E ok \in BOOLEAN : DistributorFinished(ok)
    \/ ConnectServer \/ ConnectServerAgain \/ ServerLost
    \/ ServerConnected \/ WsConnect \/ WsConnected
    \/ Register \/ Registered \/ RegisterErr
    \/ WsPing \/ Redirect \/ UpgradeExit
    \/ EnterPairing("SETTING", "ENTER_SETTING") \/ EnterPairing("SELFAP", "ENTER_SELFAP")
    \/ ExitPairing("EXIT_SETTING", "exit") \/ ExitPairing("EXIT_SELFAP", "selfap_exit")

Timeouts ==
    \/ StartNetworkCenter \/ JoinApTimer \/ JoinApStage2
    \/ TryDistorTimer \/ ConnAgainTimer \/ RegisterTimer
    \/ SetExitTimer \/ SetSelfapExitTimer
    \/ EnterTimer("enter", "ENTER_SETTING") \/ EnterTimer("selfap_enter", "ENTER_SELFAP")

Callbacks ==
    \/ StationGotIp \/ StationLost \/ DistorResult
    \/ Connected \/ ConnectFails \/ TcpGivesUp \/ DisconCallback \/ SwitchingProtocols
    \/ RegisterAnswered \/ RegisterFails

Environment ==
    \/ ConnectionBreaks \/ ServerPackage
    \/ AskPairing \/ SwitchPairing \/ SmartConfigLink \/ PairingEnds
    \/ UpgradeStart \/ UpgradeEnds
    \/ NetworkFails \/ NetworkRecovers

Outside == Timeouts \/ Callbacks \/ ModeMonitor \/ HeartbeatTimer \/ Environment

Next == CoreTask \/ (Len(events) < MaxBacklog /\ Outside)

Spec == Init /\ [][Next]_vars

\* The SDK runs a task while it has events, fires armed timers and answers
\* every request with a callback.  The mode monitor counts seconds as long as
\* the mode stays on the way, so that its minute ends even if the modelled
\* progress comes and goes.
FairSpec ==
    /\ Spec
    /\ WF_vars(CoreTask)
    /\ WF_vars(StartNetworkCenter) /\ WF_vars(JoinApTimer) /\ WF_vars(JoinApStage2)
    /\ WF_vars(TryDistorTimer) /\ WF_vars(ConnAgainTimer) /\ WF_vars(RegisterTimer)
    /\ WF_vars(SetExitTimer) /\ WF_vars(SetSelfapExitTimer)
    /\ WF_vars(StationGotIp) /\ WF_vars(StationLost) /\ WF_vars(DistorResult)
    /\ WF_vars(Connected) /\ WF_vars(ConnectFails) /\ WF_vars(TcpGivesUp)
    /\ WF_vars(DisconCallback) /\ WF_vars(SwitchingProtocols)
    /\ WF_vars(RegisterAnswered) /\ WF_vars(RegisterFails)
    /\ SF_vars(ModeMonitor)

------------------------------------------------------------------------------
(* A device that believes itself online (mode NORMAL, in which it ignores  *)
(* MSG_CORE_CONNECT_SERVER and the mode monitor rests) has a connection,   *)
(* or the report of its end is still to come or to be handled: it is never *)
(* online in name only.  The end of an upgrade is the exception.  (And     *)
(* every variable has its type.)                                           *)
Leaves == {"SERVER_LOST", "CONNECT_SERVER_AGAIN", "JOIN_AP", "JOIN_AP_ERR",
           "AP_JOINED", "ENTER_SETTING", "ENTER_SELFAP"}

NormalAlive ==
    /\ TypeOK
    /\ mode = "NORMAL" /\ ~forced => conn # "none" \/ old \/ Pending(Leaves)

(* Pairing is left through its exit timers.  What else can end it is left  *)
(* over from before: an event of the join posted before the entry was      *)
(* handled, a package over a connection that is not closed yet, the end of *)
(* an upgrade.  No retry and no registration takes the device out of it.   *)
LeftOver == {"JOIN_AP", "JOIN_AP_ERR", "AP_JOINED", "UPGRADE_EXIT"}

PairingHolds ==
    [][(mode \in PairingMode /\ mode' \notin PairingMode)
        => SetExitTimer \/ SetSelfapExitTimer \/ ServerPackage
           \/ \E sig \in LeftOver : Take(sig)]_vars

(* If from some time on everything is reachable and nobody pairs, the      *)
(* device registers, and again after whatever ends a session: no lost      *)
(* event, exhausted retry or failed join leaves it waiting for nothing.    *)
Reconnects ==
    <>[](good /\ mode \notin PairingMode) => []<>(mode = "NORMAL")
==============================================================================
