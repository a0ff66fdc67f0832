------------------------------ MODULE Viewers ------------------------------
(***************************************************************************)
(* A process that runs the monitor and one of its viewers: codexm ui or    *)
(* codexm dashboard (internal/cli/monitor.go), with the store in between.  *)
(***************************************************************************)
EXTENDS TerminalUI, Dashboard

vars == <<feedVars, uiVars, browserVars>>

TypeOK == FeedTypeOK /\ UITypeOK /\ DashboardTypeOK

Init == FeedInit /\ UIInit /\ DashboardInit

InBoth(A) == A /\ UNCHANGED <<uiVars, browserVars>>
InUI(A) == command = "ui" /\ A /\ UNCHANGED browserVars
InDashboard(A) == command = "dashboard" /\ A /\ UNCHANGED uiVars

Next ==
    \/ InBoth(Publish) \/ InBoth(Forward)
    \/ InUI(UINext)
    \/ InDashboard(DashboardNext)

Spec == Init /\ [][Next]_vars
-----------------------------------------------------------------------------
(***************************************************************************)
(* The service publishes every five seconds and goroutines run.  The       *)
(* browser handles what has arrived and connects again.  A request is      *)
(* answered and the answer handled before the next snapshot supersedes it, *)
(* at least again and again; users may stop at any time.  Two actions that *)
(* share a condition are never enabled at once.                            *)
(***************************************************************************)
ServeLatest == awaited /\ Serve(Len(requests))
ReceiveLatest == awaited /\ Receive(Len(requests))

Fairness ==
    /\ WF_vars(InBoth(Publish)) /\ WF_vars(InBoth(Forward))
    /\ WF_vars(InUI(UIStart \/ UISnapshot))
    /\ WF_vars(InDashboard(ServeSnapshot \/ ReceiveSnapshot))
    /\ WF_vars(InDashboard(Connect \/ ReceiveEvent))
    /\ SF_vars(InDashboard(ServeLatest)) /\ SF_vars(InDashboard(ReceiveLatest))

FairSpec == Spec /\ Fairness
-----------------------------------------------------------------------------
(***************************************************************************)
(* monitor/snapshot.go:223: in every snapshot the tree of a subagent ends  *)
(* where its ancestors do, at a task, at an unknown thread or nowhere.     *)
(***************************************************************************)
SubagentsPlaced ==
    \A list \in Orders(Threads(current)) : \A node \in Subagents(list) :
      \E x \in ToSet(list) : x.id = node.id /\ x.profile = node.profile /\ Placed(list, x, node)

(***************************************************************************)
(* Store.Publish drops what a slow viewer has no room for (types.go:155):  *)
(* nevertheless each viewer ends with the latest snapshot, and with the    *)
(* list of sessions taken from it, after any number of events.             *)
(***************************************************************************)
ViewersCatchUp == <>[](UICaughtUp /\ PageCaughtUp)
=============================================================================
