-------------------------- MODULE MCMonitorService --------------------------
(***************************************************************************)
(* One thread, open at the start, and an app-server that runs.             *)
(***************************************************************************)
EXTENDS MonitorService

MCInit == Init /\ up /\ \A t \in Threads : place[t] = "open"
MCSpec == MCInit /\ [][Next]_vars
MCFairSpec == MCSpec /\ Fairness
=============================================================================
