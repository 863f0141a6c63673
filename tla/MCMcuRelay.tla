----------------------------- MODULE MCMcuRelay ------------------------------
(* Small instances of the relay to the MCU: two reports of each of two     *)
(* states, and other messages.  With an MCU that does not answer in time   *)
(* the messages are only relayed: all of them are alike, and four of them  *)
(* fill the queue and the line.                                            *)
EXTENDS StateReports

CONSTANTS m1, m2, a1, a2, b1, b2

MCMsg == {m1, m2, a1, a2, b1, b2}
MCSays == [m \in MCMsg |-> CASE m \in {m1, m2} -> "other"
                             [] m \in {a1, a2} -> "NORMAL"
                             [] m \in {b1, b2} -> "NO_WIFI"]

MCInit == ReportInit /\ (~reliable => mode = "UPGRADE" /\ ~query_state_timer)

MCNext ==
    \/ reliable /\ ReportNext
    \/ ~reliable /\ Next /\ UNCHANGED reportVars /\ ~In(b1, queue') /\ ~In(b2, queue')

MCSpec == MCInit /\ [][MCNext]_allReportVars /\ ReportFairness
==============================================================================
