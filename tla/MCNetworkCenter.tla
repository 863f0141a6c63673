--------------------------- MODULE MCNetworkCenter ---------------------------
(* Small instances of the network centre.                                  *)
EXTENDS NetworkCenter

\* A session in a network that fails once and a server that sends upgrades,
\* with nothing assumed of delays; a user who pairs, and pairs again; and a
\* user who pairs while an upgrade goes on.
Session == [backlog |-> 2, losses |-> 1, keys |-> 0, upgrade |-> TRUE, any_timing |-> TRUE]
Pairing(waiting, presses) ==
    [backlog |-> waiting, losses |-> 0, keys |-> presses, upgrade |-> FALSE, any_timing |-> FALSE]
Intrusion == [backlog |-> 1, losses |-> 0, keys |-> 1, upgrade |-> TRUE, any_timing |-> FALSE]
SafetyScenes == {Session, Pairing(2, 1), Pairing(1, 2), Intrusion}

\* One failure and one visit to pairing, for liveness.
RecoveryScenes ==
    {[backlog |-> 1, losses |-> 1, keys |-> 1, upgrade |-> FALSE, any_timing |-> FALSE]}

\* Where the exploration stops: once UPGRADE_EXIT has declared an unconnected
\* device online, it may be stuck, and NormalAlive excepts it.
NotForced == ~forced
==============================================================================
