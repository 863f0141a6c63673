------------------------- MODULE NetworkCenterProofs -------------------------
(* Proofs about the core task, for every scene: any number of failures and *)
(* key presses, any backlog of events, with and without assumptions on     *)
(* delays.                                                                 *)
EXTENDS NetworkCenter, TLAPS

\* A session has its connection, or an abandoned one that has still to end.
Held == conn \notin {"none", "connecting"} \/ old

\* Behind place i of the queue waits an event that takes the device out of
\* mode NORMAL.
EndsAfter(q, i) == \E j \in i + 1..Len(q) : q[j] \in Leaves

\* A session that is over is followed by its end: in the mode, and in the
\* queue, where the end is behind the REGISTERED that will set the mode.
Alive(q, held) == held \/ EndsAfter(q, 0)
Ordered(q, held) == \A i \in 1..Len(q) : q[i] = "REGISTERED" => held \/ EndsAfter(q, i)

SessionInv ==
    /\ mode = "NORMAL" /\ ~forced => Alive(events, Held)
    /\ Ordered(events, Held)

NetInv == TypeOK /\ SessionInv

\* TypeOK without the queue.
RestOK ==
    /\ mode \in Mode /\ timers \subseteq Timer
    /\ sta \in {"idle", "connecting", "got_ip", "leaving"}
    /\ distor \in Distor /\ conn \in Conn
    /\ {old, reg_sent, upgrade, good, forced} \subseteq BOOLEAN
    /\ scene \in Scenes
    /\ losses \in 0..MaxLoss /\ keys \in 0..MaxKey

------------------------------------------------------------------------------
\* What every handled event, and every step of a timer, a callback or the
\* environment, does to a session.
CoreEffect ==
    /\ RestOK' /\ scene' = scene /\ events # <<>>
    /\ Held => Held'
    /\ \/ /\ events' = Tail(events)
          /\ mode' = "NORMAL" /\ ~forced' =>
                \/ mode = "NORMAL" /\ ~forced /\ Head(events) \notin Leaves
                \/ Head(events) = "REGISTERED"
       \/ \E s \in Sig \ {"REGISTERED"} :
             /\ events' = Append(Tail(events), s)
             /\ mode' = "NORMAL" /\ ~forced' =>
                   mode = "NORMAL" /\ ~forced /\ (Head(events) \in Leaves => s \in Leaves)

OutsideEffect ==
    /\ RestOK' /\ scene' = scene
    /\ mode' = "NORMAL" /\ ~forced' => (mode = "NORMAL" /\ ~forced) \/ Held'
    /\ \/ events' = events /\ (Held => Held')
       \/ \E s \in Sig : /\ events' = Append(events, s)
                         /\ s = "REGISTERED" => Held'
                         /\ Held => Held' \/ s \in Leaves

------------------------------------------------------------------------------
\* The queue.
LEMMA TailKeeps ==
    ASSUME NEW q \in Seq(Sig), q # <<>>, NEW held \in BOOLEAN, Ordered(q, held)
    PROVE  /\ Tail(q) \in Seq(Sig) /\ Len(Tail(q)) = Len(q) - 1 /\ Len(q) \in Nat
           /\ Ordered(Tail(q), held)
           /\ Head(q) \notin Leaves /\ Alive(q, held) => Alive(Tail(q), held)
           /\ Head(q) = "REGISTERED" => Alive(Tail(q), held)
<1>1. /\ Tail(q) \in Seq(Sig) /\ Len(q) \in Nat \ {0} /\ Len(Tail(q)) = Len(q) - 1
      /\ Head(q) = q[1]
      /\ \A i \in 1..Len(Tail(q)) : Tail(q)[i] = q[i + 1]
  OBVIOUS
<1>2. ASSUME NEW i \in Nat, EndsAfter(q, i + 1) PROVE EndsAfter(Tail(q), i)
  <2>1. PICK j \in i + 2..Len(q) : q[j] \in Leaves
    BY <1>2 DEF EndsAfter
  <2>2. j - 1 \in i + 1..Len(Tail(q)) /\ Tail(q)[j - 1] = q[j]
    BY <1>1, <2>1
  <2> QED BY <2>1, <2>2 DEF EndsAfter
<1>3. Ordered(Tail(q), held)
  <2> SUFFICES ASSUME NEW i \in 1..Len(Tail(q)), Tail(q)[i] = "REGISTERED", ~held
               PROVE  EndsAfter(Tail(q), i)
    BY DEF Ordered
  <2>1. i + 1 \in 1..Len(q) /\ q[i + 1] = "REGISTERED" /\ i \in Nat
    BY <1>1
  <2> QED BY <1>2, <2>1 DEF Ordered
<1>4. ASSUME Head(q) \notin Leaves, EndsAfter(q, 0) PROVE EndsAfter(q, 1)
  BY <1>1, <1>4 DEF EndsAfter
<1>5. ASSUME Head(q) = "REGISTERED", ~held PROVE EndsAfter(q, 1)
  BY <1>1, <1>5 DEF Ordered
<1> QED BY <1>1, <1>2, <1>3, <1>4, <1>5 DEF Alive

LEMMA AppendKeeps ==
    ASSUME NEW q \in Seq(Sig), NEW s \in Sig, NEW held \in BOOLEAN, NEW still \in BOOLEAN,
           Ordered(q, held), held => still \/ s \in Leaves, s = "REGISTERED" => still
    PROVE  /\ Append(q, s) \in Seq(Sig) /\ Len(Append(q, s)) = Len(q) + 1 /\ Len(q) \in Nat
           /\ Ordered(Append(q, s), still)
           /\ s \in Leaves \/ Alive(q, held) => Alive(Append(q, s), still)
<1>1. /\ Append(q, s) \in Seq(Sig) /\ Len(q) \in Nat /\ Len(Append(q, s)) = Len(q) + 1
      /\ Append(q, s)[Len(q) + 1] = s
      /\ \A i \in 1..Len(q) : Append(q, s)[i] = q[i]
  OBVIOUS
<1>2. ASSUME NEW i \in 0..Len(q), s \in Leaves \/ EndsAfter(q, i) PROVE EndsAfter(Append(q, s), i)
  <2>1. CASE s \in Leaves
    BY <1>1, <2>1 DEF EndsAfter
  <2>2. CASE EndsAfter(q, i)
    <3>1. PICK j \in i + 1..Len(q) : q[j] \in Leaves
      BY <2>2 DEF EndsAfter
    <3>2. j \in i + 1..Len(Append(q, s)) /\ j \in 1..Len(q)
      BY <1>1, <3>1
    <3> QED BY <1>1, <3>1, <3>2 DEF EndsAfter
  <2> QED BY <1>2, <2>1, <2>2
<1>3. Ordered(Append(q, s), still)
  <2> SUFFICES ASSUME NEW i \in 1..Len(Append(q, s)), Append(q, s)[i] = "REGISTERED", ~still
               PROVE  EndsAfter(Append(q, s), i)
    BY DEF Ordered
  <2>1. i \in 1..Len(q) /\ q[i] = "REGISTERED" /\ i \in 0..Len(q)
    BY <1>1
  <2>2. s \in Leaves \/ EndsAfter(q, i)
    BY <2>1 DEF Ordered
  <2> QED BY <1>2, <2>1, <2>2
<1>4. 0 \in 0..Len(q)
  BY <1>1
<1> QED BY <1>1, <1>2, <1>3, <1>4 DEF Alive

------------------------------------------------------------------------------
\* These effects keep the invariant.
LEMMA TypeIs == /\ TypeOK <=> RestOK /\ events \in Seq(Sig) /\ Len(events) <= MaxBacklog
                /\ RestOK => Held \in BOOLEAN
BY DEF TypeOK, RestOK, Held

LEMMA TypeIsNext == /\ TypeOK' <=> RestOK' /\ events' \in Seq(Sig) /\ Len(events') <= MaxBacklog'
                    /\ RestOK' => Held' \in BOOLEAN
BY DEF TypeOK, RestOK, Held, MaxBacklog, MaxLoss, MaxKey

LEMMA BacklogIs == RestOK => MaxBacklog \in Nat \ {0}
BY NetworkCenterAssumption DEF RestOK, MaxBacklog, Scene

LEMMA CoreKeeps ==
    ASSUME NetInv, CoreEffect
    PROVE  NetInv'
<1>1. /\ events \in Seq(Sig) /\ events # <<>> /\ Len(events) <= MaxBacklog
      /\ Held \in BOOLEAN /\ Held' \in BOOLEAN /\ (Held => Held')
      /\ MaxBacklog' = MaxBacklog /\ MaxBacklog \in Nat /\ RestOK'
      /\ Ordered(events, Held) /\ (mode = "NORMAL" /\ ~forced => Alive(events, Held))
  BY TypeIs, TypeIsNext, BacklogIs DEF NetInv, SessionInv, CoreEffect, MaxBacklog
<1> DEFINE rest == Tail(events)
<1>2. /\ rest \in Seq(Sig) /\ Len(rest) = Len(events) - 1 /\ Len(events) \in Nat
      /\ Ordered(rest, Held)
      /\ Head(events) \notin Leaves /\ Alive(events, Held) => Alive(rest, Held)
      /\ Head(events) = "REGISTERED" => Alive(rest, Held)
  BY <1>1, TailKeeps
<1>3. Ordered(rest, Held') /\ (Alive(rest, Held) => Alive(rest, Held'))
  BY <1>1, <1>2 DEF Ordered, Alive
<1>4. ASSUME events' = rest,
             mode' = "NORMAL" /\ ~forced' =>
                (mode = "NORMAL" /\ ~forced /\ Head(events) \notin Leaves) \/ Head(events) = "REGISTERED"
      PROVE  NetInv'
  <2>1. mode' = "NORMAL" /\ ~forced' => Alive(rest, Held)
    BY <1>1, <1>2, <1>4
  <2>2. SessionInv'
    BY <1>3, <1>4, <2>1 DEF SessionInv, Ordered, Alive, EndsAfter
  <2>3. Len(events') <= MaxBacklog' /\ events' \in Seq(Sig)
    BY <1>1, <1>2, <1>4
  <2> QED BY <1>1, <2>2, <2>3, TypeIsNext DEF NetInv
<1>5. ASSUME NEW s \in Sig \ {"REGISTERED"}, events' = Append(rest, s),
             mode' = "NORMAL" /\ ~forced' =>
                mode = "NORMAL" /\ ~forced /\ (Head(events) \in Leaves => s \in Leaves)
      PROVE  NetInv'
  <2> DEFINE q == Append(rest, s)
  <2>1. /\ q \in Seq(Sig) /\ Len(q) = Len(rest) + 1
        /\ Ordered(q, Held')
        /\ s \in Leaves \/ Alive(rest, Held) => Alive(q, Held')
    BY <1>1, <1>2, AppendKeeps
  <2>2. mode' = "NORMAL" /\ ~forced' => Alive(q, Held')
    BY <1>1, <1>2, <1>5, <2>1
  <2>3. SessionInv'
    BY <1>5, <2>1, <2>2 DEF SessionInv, Ordered, Alive, EndsAfter
  <2>4. Len(events') <= MaxBacklog' /\ events' \in Seq(Sig)
    BY <1>1, <1>2, <1>5, <2>1
  <2> QED BY <1>1, <2>3, <2>4, TypeIsNext DEF NetInv
<1> QED BY <1>4, <1>5 DEF CoreEffect

LEMMA OutsideKeeps ==
    ASSUME NetInv, Len(events) < MaxBacklog, OutsideEffect
    PROVE  NetInv'
<1>1. /\ events \in Seq(Sig) /\ Len(events) \in Nat
      /\ Held \in BOOLEAN /\ Held' \in BOOLEAN
      /\ MaxBacklog' = MaxBacklog /\ MaxBacklog \in Nat
      /\ Ordered(events, Held) /\ (mode = "NORMAL" /\ ~forced => Alive(events, Held))
  BY TypeIs, TypeIsNext, BacklogIs DEF NetInv, SessionInv, OutsideEffect, MaxBacklog
<1>2. CASE events' = events /\ (Held => Held')
  <2>1. Ordered(events, Held') /\ (Alive(events, Held) \/ Held' => Alive(events, Held'))
    BY <1>1, <1>2 DEF Ordered, Alive
  <2>2. SessionInv'
    BY <1>1, <1>2, <2>1 DEF SessionInv, Ordered, Alive, EndsAfter, OutsideEffect
  <2> QED BY <1>1, <1>2, <2>2, TypeIsNext DEF NetInv, OutsideEffect
<1>3. ASSUME NEW s \in Sig, events' = Append(events, s), s = "REGISTERED" => Held',
             Held => Held' \/ s \in Leaves
      PROVE  NetInv'
  <2> DEFINE q == Append(events, s)
  <2>1. /\ q \in Seq(Sig) /\ Len(q) = Len(events) + 1
        /\ Ordered(q, Held')
        /\ s \in Leaves \/ Alive(events, Held) => Alive(q, Held')
    BY <1>1, <1>3, AppendKeeps
  <2>2. Held' => Alive(q, Held')
    BY DEF Alive
  <2>3. SessionInv'
    BY <1>1, <1>3, <2>1, <2>2 DEF SessionInv, Ordered, Alive, EndsAfter, OutsideEffect
  <2> QED BY <1>1, <1>3, <2>1, <2>3, TypeIsNext DEF NetInv, OutsideEffect
<1> QED BY <1>2, <1>3 DEF OutsideEffect

------------------------------------------------------------------------------
\* Each action has one of the effects.
LEMMA CoreHas ==
    ASSUME RestOK, events \in Seq(Sig), CoreTask
    PROVE  CoreEffect
<1> USE DEF Take, Post, NoPost, Timers, RestOK, Held, Leaves, Sig, CoreEffect, netVars, envVars,
            MaxLoss, MaxKey, Mode, WorkMode, PairingMode
<1>1. CASE JoinAp
  BY <1>1 DEF JoinAp, CancelRetry, Timer
<1>2. CASE JoinApErr
  BY <1>2 DEF JoinApErr
<1>3. CASE ApJoined
  BY <1>3 DEF ApJoined
<1>4. CASE Distributor
  BY <1>4 DEF Distributor, Timer, Distor
<1>5. CASE ConnectServer
  BY <1>5 DEF ConnectServer, Timer, Conn
<1>6. CASE ConnectServerAgain
  BY <1>6 DEF ConnectServerAgain, Timer
<1>7. CASE ServerLost
  BY <1>7 DEF ServerLost, Timer
<1>8. CASE ServerConnected
  BY <1>8 DEF ServerConnected
<1>9. CASE WsConnect
  BY <1>9 DEF WsConnect, Conn
<1>10. CASE WsConnected
  BY <1>10 DEF WsConnected, Timer
<1>11. CASE Register
  BY <1>11 DEF Register
<1>12. CASE Registered
  BY <1>12 DEF Registered
<1>13. CASE RegisterErr
  BY <1>13 DEF RegisterErr, Timer
<1>14. CASE WsPing
  BY <1>14 DEF WsPing, Disconnected, Timer, Conn
<1>15. CASE Redirect
  BY <1>15 DEF Redirect, Disconnected, Timer, Conn
<1>16. CASE UpgradeExit
  BY <1>16 DEF UpgradeExit
<1>17. ASSUME NEW ok \in BOOLEAN, DistributorFinished(ok) PROVE CoreEffect
  BY <1>17 DEF DistributorFinished, Distor, Timer
<1>18. ASSUME NEW p \in PairingMode, NEW sig \in {"ENTER_SETTING", "ENTER_SELFAP"}, EnterPairing(p, sig)
      PROVE  CoreEffect
  BY <1>18 DEF EnterPairing, Disconnected, Left, Conn, Timer, CancelRetry
<1>19. ASSUME NEW sig \in {"EXIT_SETTING", "EXIT_SELFAP"}, NEW t \in Timer, ExitPairing(sig, t)
      PROVE  CoreEffect
  BY <1>19 DEF ExitPairing
<1> QED
  <2>1. {"exit", "selfap_exit"} \subseteq Timer /\ {"SETTING", "SELFAP"} \subseteq PairingMode
    BY DEF Timer
  <2> HIDE DEF CoreEffect
  <2> QED BY <2>1, <1>1, <1>2, <1>3, <1>4, <1>5, <1>6, <1>7, <1>8, <1>9, <1>10, <1>11, <1>12, <1>13, <1>14, <1>15, <1>16, <1>17, <1>18, <1>19 DEF CoreTask

LEMMA OutsideHas ==
    ASSUME RestOK, events \in Seq(Sig), Outside
    PROVE  OutsideEffect
<1> USE DEF Fire, Post, NoPost, Timers, RestOK, Held, Leaves, Sig, OutsideEffect, netVars, envVars,
            MaxLoss, MaxKey, Mode, WorkMode, PairingMode
<1>0. /\ MaxLoss \in Nat /\ MaxKey \in Nat
      /\ keys < MaxKey => keys + 1 \in 0..MaxKey
      /\ losses < MaxLoss => losses + 1 \in 0..MaxLoss
  BY NetworkCenterAssumption DEF Scene
<1>1. CASE Timeouts
  <2>1. CASE StartNetworkCenter
    BY <2>1 DEF StartNetworkCenter
  <2>2. CASE JoinApTimer
    BY <2>2 DEF JoinApTimer, Left, Timer
  <2>3. CASE JoinApStage2
    BY <2>3 DEF JoinApStage2, Left
  <2>4. CASE TryDistorTimer
    BY <2>4 DEF TryDistorTimer
  <2>5. CASE ConnAgainTimer
    BY <2>5 DEF ConnAgainTimer
  <2>6. CASE RegisterTimer
    BY <2>6 DEF RegisterTimer
  <2>7. CASE SetExitTimer
    BY <2>7 DEF SetExitTimer
  <2>8. CASE SetSelfapExitTimer
    BY <2>8 DEF SetSelfapExitTimer
  <2>9. ASSUME NEW t \in Timer, NEW sig \in {"ENTER_SETTING", "ENTER_SELFAP"}, EnterTimer(t, sig)
        PROVE  OutsideEffect
    BY <2>9 DEF EnterTimer
  <2>10. {"enter", "selfap_enter"} \subseteq Timer
    BY DEF Timer
  <2> HIDE DEF OutsideEffect
  <2> QED BY <1>1, <2>1, <2>2, <2>3, <2>4, <2>5, <2>6, <2>7, <2>8, <2>9, <2>10 DEF Timeouts
<1>2. CASE Callbacks
  <2>1. CASE StationGotIp
    BY <2>1 DEF StationGotIp
  <2>2. CASE StationLost
    BY <2>2 DEF StationLost
  <2>3. CASE DistorResult
    BY <2>3 DEF DistorResult, Distor
  <2>4. CASE Connected
    BY <2>4 DEF Connected, Conn
  <2>5. CASE ConnectFails
    BY <2>5 DEF ConnectFails, Conn
  <2>6. CASE TcpGivesUp
    BY <2>6 DEF TcpGivesUp, Conn
  <2>7. CASE DisconCallback
    BY <2>7 DEF DisconCallback, Conn
  <2>8. CASE SwitchingProtocols
    BY <2>8 DEF SwitchingProtocols, Conn
  <2>9. CASE RegisterAnswered
    BY <2>9 DEF RegisterAnswered, Configured, Timer
  <2>10. CASE RegisterFails
    BY <2>10 DEF RegisterFails
  <2> HIDE DEF OutsideEffect
  <2> QED BY <1>2, <2>1, <2>2, <2>3, <2>4, <2>5, <2>6, <2>7, <2>8, <2>9, <2>10 DEF Callbacks
<1>3. CASE Environment
  <2>1. CASE ConnectionBreaks
    BY <2>1 DEF ConnectionBreaks, Conn
  <2>2. CASE ServerPackage
    BY <2>2 DEF ServerPackage, Configured, Timer
  <2>3. CASE AskPairing
    BY <2>3, <1>0 DEF AskPairing
  <2>4. CASE SwitchPairing
    <3>1. keys' \in 0..MaxKey' /\ timers' \subseteq Timer
      BY <2>4, <1>0 DEF SwitchPairing, Timer
    <3>2. \E s \in {"EXIT_SETTING", "EXIT_SELFAP"} : events' = Append(events, s)
      BY <2>4 DEF SwitchPairing
    <3> QED BY <2>4, <3>1, <3>2 DEF SwitchPairing
  <2>5. CASE SmartConfigLink
    BY <2>5 DEF SmartConfigLink
  <2>6. CASE PairingEnds
    BY <2>6 DEF PairingEnds
  <2>7. CASE UpgradeStart
    BY <2>7 DEF UpgradeStart
  <2>8. CASE UpgradeEnds
    BY <2>8 DEF UpgradeEnds
  <2>9. CASE NetworkFails
    <3>1. losses' \in 0..MaxLoss'
      BY <2>9, <1>0 DEF NetworkFails
    <3> QED BY <2>9, <3>1 DEF NetworkFails
  <2>10. CASE NetworkRecovers
    BY <2>10 DEF NetworkRecovers
  <2> HIDE DEF OutsideEffect
  <2> QED BY <1>3, <2>1, <2>2, <2>3, <2>4, <2>5, <2>6, <2>7, <2>8, <2>9, <2>10 DEF Environment
<1>4. CASE ModeMonitor
  BY <1>4 DEF ModeMonitor
<1>5. CASE HeartbeatTimer
  BY <1>5 DEF HeartbeatTimer
<1> QED BY <1>1, <1>2, <1>3, <1>4, <1>5 DEF Outside

------------------------------------------------------------------------------
LEMMA NetInvInit == Init => NetInv
<1> SUFFICES ASSUME Init PROVE NetInv
  OBVIOUS
<1>0. scene \in Scenes /\ 0 \in 0..MaxLoss /\ 0 \in 0..MaxKey
  BY NetworkCenterAssumption DEF Init, Scene, MaxLoss, MaxKey
<1>1. RestOK
  BY <1>0 DEF Init, RestOK, Mode, Timer, Distor, Conn
<1>2. events = <<>> /\ Len(events) = 0 /\ events \in Seq(Sig)
  BY DEF Init
<1>3. SessionInv
  BY <1>2 DEF Init, SessionInv, Ordered
<1> QED BY <1>1, <1>2, <1>3, TypeIs, BacklogIs DEF NetInv

LEMMA NetInvStep == NetInv /\ [Next]_vars => NetInv'
<1> SUFFICES ASSUME NetInv, [Next]_vars PROVE NetInv'
  OBVIOUS
<1>1. RestOK /\ events \in Seq(Sig)
  BY TypeIs DEF NetInv
<1>2. CASE CoreTask
  BY <1>1, <1>2, CoreHas, CoreKeeps
<1>3. CASE Len(events) < MaxBacklog /\ Outside
  BY <1>1, <1>3, OutsideHas, OutsideKeeps
<1>4. CASE UNCHANGED vars
  BY <1>4 DEF vars, netVars, envVars, NetInv, SessionInv, TypeOK, Held, Ordered, Alive, EndsAfter,
              MaxBacklog, MaxLoss, MaxKey
<1> QED BY <1>2, <1>3, <1>4 DEF Next

\* A device that believes itself online has a connection, or the report of
\* its end is to come or to be handled, but for the end of an upgrade: in
\* every scene.
THEOREM OnlineIsAlive == Spec => []NormalAlive
<1>1. NetInv => NormalAlive
  <2> SUFFICES ASSUME NetInv, mode = "NORMAL", ~forced
               PROVE  conn # "none" \/ old \/ Pending(Leaves)
    BY DEF NetInv, NormalAlive
  <2>1. Held \/ \E j \in 1..Len(events) : events[j] \in Leaves
    BY DEF NetInv, SessionInv, Alive, EndsAfter
  <2> QED BY <2>1 DEF Held, Pending
<1> QED BY <1>1, NetInvInit, NetInvStep, PTL DEF Spec

\* Nothing takes the device out of pairing but its exit timers and what was
\* left over from before: in every scene.
THEOREM PairingIsKept == Spec => PairingHolds
<1>1. [Next]_vars => [(mode \in PairingMode /\ mode' \notin PairingMode)
                       => SetExitTimer \/ SetSelfapExitTimer \/ ServerPackage
                          \/ \E sig \in LeftOver : Take(sig)]_vars
  <2> SUFFICES ASSUME Next, mode \in PairingMode, mode' \notin PairingMode
               PROVE  SetExitTimer \/ SetSelfapExitTimer \/ ServerPackage
                      \/ \E sig \in LeftOver : Take(sig)
    OBVIOUS
  <2>1. CASE CoreTask
    <3>1. JoinAp \/ JoinApErr \/ ApJoined \/ UpgradeExit
      BY <2>1 DEF CoreTask, PairingMode, Distributor, DistributorFinished, ConnectServer,
                  ConnectServerAgain, ServerLost, ServerConnected, WsConnect, WsConnected, Register,
                  Registered, RegisterErr, WsPing, Redirect, EnterPairing, ExitPairing
    <3> QED BY <3>1 DEF JoinAp, JoinApErr, ApJoined, UpgradeExit, LeftOver
  <2>2. CASE Outside
    BY <2>2 DEF Outside, Timeouts, Callbacks, Environment, PairingMode, StartNetworkCenter,
                JoinApTimer, JoinApStage2, TryDistorTimer, ConnAgainTimer, RegisterTimer, EnterTimer,
                StationGotIp, StationLost, DistorResult, Connected, ConnectFails, TcpGivesUp,
                DisconCallback, SwitchingProtocols, RegisterAnswered, RegisterFails, ModeMonitor,
                HeartbeatTimer, ConnectionBreaks, AskPairing, SwitchPairing, SmartConfigLink,
                PairingEnds, UpgradeStart, UpgradeEnds, NetworkFails, NetworkRecovers
  <2> QED BY <2>1, <2>2 DEF Next
<1> QED BY <1>1, PTL DEF Spec, PairingHolds
==============================================================================
