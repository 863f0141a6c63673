---------------------------- MODULE ServerSession ----------------------------
(***************************************************************************)
(* The persistent connection as its reader and its heartbeat see it: the   *)
(* HTTP answer that opens the WebSocket, frames of the server cut into     *)
(* segments at any place, pings and pongs, a connection that breaks in the *)
(* middle of a frame, and a peer that dies without a word.                 *)
(*                                                                         *)
(* network_spro (iotgo_pconn.c) is made once, at the start, and neither a  *)
(* new connection nor a new package type clears it.  Joining the access    *)
(* point and the retries of the connection are in NetworkCenter; here a    *)
(* connection that was lost is simply made again.                          *)
(***************************************************************************)
EXTENDS SproReader, FiniteSets

CONSTANTS
    Segment,    \* most units in a segment
    Width,      \* the counters of the heartbeat wrap at this value (2^32)
    Frames,     \* frames that the server sends of its own accord
    MaxFlight,  \* bound: frames on their way
    MaxPings,   \* bound: unanswered pings are counted up to this number
    MaxPosted,  \* bound: events waiting when a timer or a segment adds another
    MaxSent,    \* bound: frames that the server sends of its own accord
    MaxFault    \* bound: breaks and silent deaths of the connection

\* A text frame with the length of its payload in one byte or in two, and a
\* payload, a JSON text, without an empty line or a field of an HTTP head.
TextFrame(f) ==
    /\ Len(f) > 1 /\ f[1] = "81" /\ Number(f[2]) # 127
    /\ Number(f[2]) < 126 => Len(f) = 2 + Number(f[2])
    /\ Number(f[2]) = 126 => Len(f) > 3 /\ Len(f) = 4 + 256 * Number(f[3]) + Number(f[4])
    /\ ToSet(f) \cap ({EndOfHead} \cup Lengths) = {}

\* The counters wrap, and the pings are counted, beyond the number at which a
\* connection is overdue.  The answer to the handshake fits in the buffer; a
\* frame or a segment may be longer than it.
ASSUME SessionAssumption ==
    /\ {Segment, Width, MaxFlight, MaxPings, MaxPosted, MaxSent, MaxFault} \subseteq Nat
    /\ Size > 1 /\ Width > 2 /\ MaxPings > 1
    /\ Frames \subseteq Seq(Unit) /\ \A f \in Frames : TextFrame(f)

VARIABLES
    network_spro,   \* the reader
    type,           \* its package type
    link,           \* "none", "handshake", "open"; "lost": its end is not handled yet
    alive,          \* the server is there
    stream,         \* units of the server on their way
    frames,         \* whole packages sent on this connection, not handed over yet
    pings,          \* pings that the server has not answered
    posted,         \* the core task's events
    beat,           \* the heartbeat timer is armed
    ping_counter, pong_counter,
    refused,        \* history: pings counted that the send queue refused
    reset,          \* history: counters cleared while a ping was unanswered
    torn,           \* history: in the middle of a package the buffer was cleared or
                    \* full, or the connection changed
    large,          \* history: a segment of more than half the buffer has arrived
    garbled,        \* history: a callback got something else than the next package
    faults, sends    \* breaks and deaths of the server, frames it sent, so far

readerVars == <<network_spro, type, torn, large, garbled>>
serverVars == <<alive, stream, frames, pings>>
bounds == <<faults, sends>>
beatVars == <<beat, ping_counter, pong_counter, refused, reset>>
sessionVars == <<readerVars, serverVars, beatVars, link, posted, bounds>>

Pong == <<"8a", Nul>>
Answer101 == <<"101", EndOfHead>>
PostedEvent == {"WS_CONNECTED", "REGISTER", "WS_PING", "WS_PING_OK", "DISCONNECTED"}
Capped(n) == IF n < MaxPings THEN n + 1 ELSE n
Count(s, e) == Cardinality({i \in DOMAIN s : s[i] = e})

SessionTypeOK ==
    /\ network_spro.index \in 0..Size /\ Len(network_spro.cell) = Size
    /\ {network_spro.opened, network_spro.armed, network_spro.wild} \subseteq BOOLEAN
    /\ type \in {"HTTP", "WS"} /\ link \in {"none", "handshake", "open", "lost"}
    /\ {alive, beat, reset, torn, large, garbled} \subseteq BOOLEAN
    /\ frames \in Seq(Frames \cup {Pong, Answer101})
    /\ pings \in 0..MaxPings /\ refused \in 0..MaxPings
    /\ posted \in Seq(PostedEvent)
    /\ {ping_counter, pong_counter} \subseteq 0..Width - 1

SessionInit ==
    /\ network_spro = NewReader /\ type = "HTTP"
    /\ link = "none" /\ alive = FALSE /\ stream = <<>> /\ frames = <<>> /\ pings = 0
    /\ posted = <<>> /\ beat = FALSE /\ ping_counter = 0 /\ pong_counter = 0 /\ refused = 0
    /\ reset = FALSE /\ torn = FALSE /\ large = FALSE /\ garbled = FALSE /\ faults = 0 /\ sends = 0

------------------------------------------------------------------------------
\* iotgoCoreHeartbeatStart, iotgoCoreHeartbeatStop.
HeartbeatSet(on, unanswered) ==
    /\ beat' = on /\ ping_counter' = 0 /\ pong_counter' = 0 /\ refused' = 0
    /\ reset' = unanswered

\* Counted pings without a counted pong.
Unanswered == pings + Count(frames, Pong) + Count(posted, "WS_PING_OK") + refused

\* iotgoPconnConnect, MSG_CORE_SERVER_CONNECTED, MSG_CORE_WS_CONNECT and
\* iotgoPconnSwitchToWebSocket: a new connection, on which the server answers
\* the handshake.
Connect ==
    /\ link = "none" /\ posted = <<>>
    /\ link' = "handshake" /\ alive' = TRUE
    /\ type' = "HTTP"
    /\ stream' = Answer101 /\ frames' = <<Answer101>> /\ pings' = 0
    /\ torn' = (network_spro.index > 0)
    /\ UNCHANGED <<network_spro, large, garbled, beatVars, posted, bounds>>

\* clientTCPSproOnePkgCb: the events that a callback posts, and the heartbeat
\* setting that a notify package carries (doNotifyConfig), if it does.
Posts(c) ==
    IF "101" \in ToSet(Text(c.r)) THEN <<"WS_CONNECTED">>
    ELSE IF c.r.cell[1] = "8a" /\ c.r.cell[2] = Nul THEN <<"WS_PING_OK">>
    ELSE <<>>

Payload(c) ==
    LET short == Number(c.r.cell[2]) <= 125
        start == IF short THEN 2 ELSE 4
        len == IF short THEN Number(c.r.cell[2]) ELSE 256 * Number(c.r.cell[3]) + Number(c.r.cell[4]) IN
    IF c.r.cell[1] = "81" /\ "101" \notin ToSet(Text(c.r)) /\ len + start = c.len
    THEN SubSeq(c.r.cell, start + 1, c.len) ELSE <<>>

Config(calls) == SelectSeq([i \in DOMAIN calls |-> Payload(calls[i])],
                           LAMBDA p : p = <<"hb">>)

\* The callbacks of a segment or of the reader's timer.
HandOver(res) ==
    LET posts == FlattenSeq([i \in DOMAIN res.calls |-> Posts(res.calls[i])])
        config == Config(res.calls) IN
    /\ network_spro' = res.r
    /\ posted' = posted \o posts
    /\ IF config = <<>> THEN UNCHANGED beatVars
       ELSE \E hb \in BOOLEAN : HeartbeatSet(hb, reset \/ Unanswered > 0)

\* What the callbacks of a segment got, and what should come next.
Matches(calls) ==
    /\ Len(calls) <= Len(frames)
    /\ \A i \in DOMAIN calls : calls[i].flag /\ SubSeq(calls[i].r.cell, 1, calls[i].len) = frames[i]

\* spTcpRecv: the next segment.
SegmentArrives ==
    /\ link \in {"handshake", "open"} /\ Len(posted) <= MaxPosted
    /\ \E n \in 1..Len(stream) :
        LET res == Recv(network_spro, type, SubSeq(stream, 1, n)) IN
        /\ n <= Segment /\ ~network_spro.wild
        /\ stream' = SubSeq(stream, n + 1, Len(stream))
        /\ frames' = SubSeq(frames, Len(res.calls) + 1, Len(frames))
        /\ torn' = (torn \/ network_spro.index + n > Size)
        /\ large' = (large \/ 2 * n > Size)
        /\ garbled' = (garbled \/ (~torn' /\ ~Matches(res.calls)))
        /\ HandOver(res)
    /\ UNCHANGED <<type, link, alive, pings, bounds>>

\* spro10sTimerCallback.
ReaderTimer ==
    /\ network_spro.armed /\ Len(posted) <= MaxPosted
    /\ HandOver(Expired(network_spro))
    /\ torn' = (torn \/ network_spro.index > 0)
    /\ UNCHANGED <<type, large, garbled, serverVars, link, bounds>>

------------------------------------------------------------------------------
(* The core task.                                                          *)
Next1(e, more) == posted # <<>> /\ Head(posted) = e /\ posted' = Tail(posted) \o more

\* MSG_CORE_WS_CONNECTED.
HeartbeatStarts ==
    /\ Next1("WS_CONNECTED", <<"REGISTER">>)
    /\ HeartbeatSet(TRUE, Unanswered > 0)
    /\ UNCHANGED <<readerVars, serverVars, link, bounds>>

\* MSG_CORE_REGISTER, iotgoPconnDeviceRegister: from now on the reader
\* expects frames, and the server, which gets the registration, sends them.
TypeIsWs ==
    /\ Next1("REGISTER", <<>>)
    /\ type' = "WS"
    /\ link' = IF link = "handshake" THEN "open" ELSE link
    /\ UNCHANGED <<network_spro, torn, large, garbled, serverVars, beatVars, bounds>>

\* MSG_CORE_CONNECT_SERVER_ERR, _RECONNECT_SERVER, _SERVER_DISCONNECTED.
Disconnection ==
    /\ Next1("DISCONNECTED", <<>>)
    /\ HeartbeatSet(FALSE, FALSE)
    /\ link' = "none"
    /\ UNCHANGED <<readerVars, serverVars, bounds>>

\* The connection is gone: its end is reported, what was on its way is lost.
Gone(more) ==
    /\ link' = "lost" /\ alive' = FALSE /\ stream' = <<>> /\ frames' = <<>> /\ pings' = 0
    /\ posted' = more \o <<"DISCONNECTED">>

\* A mutant: the pings that have not been answered do not end the connection.
PatientLimit == Width

\* The unsigned difference of the counters at which the connection is ended.
Limit == 2
Overdue == (ping_counter - pong_counter) % Width >= Limit

\* sendPingToServer.
HeartbeatDue ==
    /\ beat /\ Len(posted) <= MaxPosted
    /\ "WS_PING" \notin ToSet(posted)
    /\ posted' = Append(posted, "WS_PING")
    /\ UNCHANGED <<readerVars, serverVars, beatVars, link, bounds>>

\* A mutant: a ping that the queue refuses is not counted as a ping.
PingUncounted(sent) ==
    /\ ping_counter' = IF sent THEN (ping_counter + 1) % Width ELSE ping_counter
    /\ refused' = IF sent THEN refused ELSE Capped(refused)

\* sendWebSocketPing and the counting after it.
CountPing(sent) ==
    /\ ping_counter' = (ping_counter + 1) % Width
    /\ refused' = IF sent THEN refused ELSE Capped(refused)

\* MSG_CORE_WS_PING.  After a disconnect the ping is queued and counted all
\* the same.
Ping ==
    /\ posted # <<>> /\ Head(posted) = "WS_PING"
    /\ IF Overdue
       THEN /\ beat' = FALSE /\ ping_counter' = 1 /\ pong_counter' = 0 /\ refused' = 0 /\ reset' = FALSE
            /\ IF link \in {"handshake", "open"} THEN Gone(Tail(posted))
               ELSE posted' = Tail(posted) /\ UNCHANGED <<serverVars, link>>
       ELSE \E sent \in BOOLEAN :
            /\ CountPing(sent)
            /\ pings' = IF sent /\ link \in {"handshake", "open"} THEN Capped(pings) ELSE pings
            /\ posted' = Tail(posted)
            /\ UNCHANGED <<beat, pong_counter, reset, link, alive, stream, frames>>
    /\ UNCHANGED <<readerVars, bounds>>

\* MSG_CORE_WS_PING_OK.
PingOk ==
    /\ Next1("WS_PING_OK", <<>>)
    /\ pong_counter' = (pong_counter + 1) % Width
    /\ UNCHANGED <<readerVars, serverVars, beat, ping_counter, refused, reset, link, bounds>>

------------------------------------------------------------------------------
(* The server and the network.                                             *)
Sends(f) ==
    /\ alive /\ link = "open" /\ Len(frames) < MaxFlight
    /\ stream' = stream \o f /\ frames' = Append(frames, f)

ServerSends ==
    /\ sends < MaxSent /\ sends' = sends + 1
    /\ \E f \in Frames : Sends(f)
    /\ UNCHANGED <<readerVars, beatVars, alive, pings, link, posted, faults>>

ServerAnswers ==
    /\ pings > 0 /\ pings' = pings - 1
    /\ Sends(Pong)
    /\ UNCHANGED <<readerVars, beatVars, alive, link, posted, bounds>>

Break ==
    /\ link \in {"handshake", "open"} /\ faults < MaxFault /\ faults' = faults + 1
    /\ Gone(posted)
    /\ UNCHANGED <<readerVars, beatVars, sends>>

Silence ==
    /\ alive /\ link = "open" /\ faults < MaxFault /\ faults' = faults + 1
    /\ alive' = FALSE
    /\ UNCHANGED <<readerVars, beatVars, stream, frames, pings, link, posted, sends>>

\* TCP gives up on a peer that is gone when the device has sent something.
GivesUp ==
    /\ link = "open" /\ ~alive
    /\ Gone(posted)
    /\ UNCHANGED <<readerVars, beatVars, bounds>>

\* cbModeMonitorTimer: an attempt that came to nothing is made again.
Monitor ==
    /\ link = "handshake" /\ stream = <<>> /\ posted = <<>>
    /\ Gone(posted)
    /\ UNCHANGED <<readerVars, beatVars, bounds>>

\* taskIoTgoNetworkCenter.
SessionTask == HeartbeatStarts \/ TypeIsWs \/ Disconnection \/ Ping \/ PingOk

SessionNext ==
    \/ Connect \/ SegmentArrives \/ ReaderTimer \/ SessionTask
    \/ HeartbeatDue \/ Monitor
    \/ ServerSends \/ ServerAnswers \/ Break \/ Silence \/ GivesUp

\* Timers fire, events are handled, segments arrive and a server that is
\* there answers pings.
SessionFairness ==
    /\ WF_sessionVars(SessionTask) /\ WF_sessionVars(HeartbeatDue)

SessionSpec == SessionInit /\ [][SessionNext]_sessionVars

------------------------------------------------------------------------------
(* Spro.c: whatever the sizes and the cuts between segments, each callback *)
(* gets the next whole package of the connection and every package whose   *)
(* last unit has arrived is handed over.  The order and the contents are   *)
(* lost only after a package was torn: by the ten second timer, by a       *)
(* segment that does not fit behind the package it continues, or by a new  *)
(* connection that finds the rest of an old one in the buffer, which       *)
(* nothing clears.  The reader writes outside of its buffer only after a   *)
(* single segment of more than half the buffer: what gathers from shorter  *)
(* ones never leaves so much behind a package.                             *)
FramesIntact ==
    /\ ~garbled
    /\ network_spro.wild => large
    /\ (stream = <<>> /\ ~torn /\ link \in {"handshake", "open"}) => frames = <<>>

(* iotgo_core.c: the unsigned difference of the two counters is the number *)
(* of pings that were not answered (those refused by the send queue among  *)
(* them), so that only a connection with two of them is ended.  A notify   *)
(* package that clears the counters between a ping and its pong breaks it: *)
(* the late pong makes the difference wrap.  (And every variable has its   *)
(* type.)                                                                  *)
PingsBalance ==
    /\ SessionTypeOK
    /\ (link = "open" /\ beat /\ ~reset /\ ~torn) => (ping_counter - pong_counter) % Width = Unanswered

(* A peer that is gone without a word is noticed, as long as the server    *)
(* has not turned the heartbeat off.                                       *)
DeadPeerNoticed == (link = "open" /\ ~alive) ~> (link # "open" \/ ~beat)
==============================================================================
