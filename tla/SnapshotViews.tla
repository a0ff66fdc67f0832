--------------------------- MODULE SnapshotViews ---------------------------
(***************************************************************************)
(* What the monitor makes of the threads its app-servers report            *)
(* (internal/monitor/snapshot.go) and which part of it a dashboard asks    *)
(* for (internal/dashboard/sessions.go).  Titles, tokens, accounts and     *)
(* unmanaged processes are left out.                                       *)
(***************************************************************************)
EXTENDS Integers, FiniteSets, SequencesExt

CONSTANTS
    ThreadIds,
    ProfileNames,
    ProjectRoots,
    Unset          \* no parent, no filter

ASSUME UnsetAssumption == Unset \notin ThreadIds \cup ProfileNames \cup ProjectRoots

(***************************************************************************)
(* A thread as an app-server reports it; updated orders threads in time.   *)
(***************************************************************************)
RawStatus == [type : {"active", "idle", "notLoaded", "systemError", ""}, flags : Seq(STRING)]
Thread == [id : ThreadIds, profile : ProfileNames, project : ProjectRoots,
           parent : ThreadIds \cup {Unset}, status : RawStatus,
           archived : BOOLEAN, updated : Nat]

(***************************************************************************)
(* The first flag that says what an active thread waits for decides.       *)
(***************************************************************************)
WaitingFlags == {"waitingOnApproval", "waitingOnUserInput"}

ThreadStatus(raw) ==
    LET waits == SelectSeq(raw.flags, LAMBDA flag : flag \in WaitingFlags)
    IN CASE raw.type = "active" /\ waits = <<>> -> "active"
         [] raw.type = "active" /\ waits # <<>> ->
              IF Head(waits) = "waitingOnApproval" THEN "waiting_approval" ELSE "waiting_input"
         [] raw.type = "notLoaded" -> "not_loaded"
         [] raw.type = "systemError" -> "error"
         [] raw.type = "" -> "unknown"
         [] OTHER -> raw.type

IsRoot(session) == session.parent = Unset

(***************************************************************************)
(* A snapshot has the sessions, the latest first, and what is made of them.*)
(* sort.Slice is not stable: sessions of one time come in any order.       *)
(***************************************************************************)
Orders(threads) ==
    LET positions == DOMAIN threads
        latestFirst == {order \in Bijection(positions, positions) :
                          \A i, j \in positions :
                            i < j => threads[order[i]].updated >= threads[order[j]].updated}
    IN {[i \in positions |-> threads[order[i]]] : order \in latestFirst}

IsTask(x) == IsRoot(x) /\ ~x.archived /\ ThreadStatus(x.status) # "not_loaded"

Projects(threads) == {x.project : x \in ToSet(threads)}
ProfileFacets(threads) == {x.profile : x \in ToSet(threads)}

Count(list, Test(_)) == Cardinality({i \in DOMAIN list : Test(list[i])})
-----------------------------------------------------------------------------
(***************************************************************************)
(* buildSubagents walks from a subagent up to its task.  Profiles share    *)
(* the table it looks parents up in: of two sessions with one id it knows  *)
(* the one that comes last.                                                *)
(***************************************************************************)
ById(sessions, id) == sessions[SelectLastInSeq(sessions, LAMBDA x : x.id = id)]
Known(sessions, id) == \E x \in ToSet(sessions) : x.id = id

StartWalk(session) ==
    [parent |-> session.parent, seen |-> {session.id}, depth |-> 0, end |-> "none", task |-> Unset]

\* A mistake: only the subagent itself is remembered, so that other cycles have no end.
AdvanceUnseen(sessions, w) ==
    IF w.end # "none" THEN w
    ELSE IF w.parent \in w.seen THEN [w EXCEPT !.end = "cycle"]
    ELSE LET up == [w EXCEPT !.depth = @ + 1]
         IN IF ~Known(sessions, w.parent) THEN [up EXCEPT !.end = "orphan"]
            ELSE IF IsRoot(ById(sessions, w.parent)) THEN [up EXCEPT !.end = "task", !.task = w.parent]
            ELSE [up EXCEPT !.parent = ById(sessions, w.parent).parent]

Advance(sessions, w) ==
    IF w.end # "none" THEN w
    ELSE IF w.parent \in w.seen THEN [w EXCEPT !.end = "cycle"]
    ELSE LET up == [w EXCEPT !.seen = @ \cup {w.parent}, !.depth = @ + 1]
         IN IF ~Known(sessions, w.parent) THEN [up EXCEPT !.end = "orphan"]
            ELSE IF IsRoot(ById(sessions, w.parent)) THEN [up EXCEPT !.end = "task", !.task = w.parent]
            ELSE [up EXCEPT !.parent = ById(sessions, w.parent).parent]

Walk(sessions, session) ==
    LET walk[n \in 0..(Len(sessions) + 1)] ==
          IF n = 0 THEN StartWalk(session) ELSE Advance(sessions, walk[n - 1])
    IN walk[Len(sessions) + 1]

Subagent(sessions, session) ==
    LET w == Walk(sessions, session)
    IN [id |-> session.id, profile |-> session.profile, task |-> w.task, depth |-> w.depth,
        orphan |-> w.end = "orphan", cycle |-> w.end = "cycle"]

\* That the result is in the order of tasks and depth is left out.
Subagents(sessions) == {Subagent(sessions, x) : x \in {y \in ToSet(sessions) : ~IsRoot(y)}}

(***************************************************************************)
(* What the tree of a subagent is: its ancestors are the least set that    *)
(* has its parent and the parent of each known member.  They go round in a *)
(* cycle, end at an unknown thread, or at the task.                        *)
(***************************************************************************)
Ancestors(sessions, session) ==
    LET closed(ids) == /\ session.parent \in ids
                       /\ \A id \in ids :
                            id # session.id /\ Known(sessions, id)
                              /\ ~IsRoot(ById(sessions, id)) => ById(sessions, id).parent \in ids
        all == {ids \in SUBSET ThreadIds : closed(ids)}
    IN {id \in ThreadIds : \A ids \in all : id \in ids}

Placed(sessions, session, node) ==
    LET ancestors == Ancestors(sessions, session)
        roots == {id \in ancestors : Known(sessions, id) /\ IsRoot(ById(sessions, id))}
        unknown == {id \in ancestors : ~Known(sessions, id)}
    IN /\ node.orphan <=> unknown # {} /\ session.id \notin ancestors
       /\ node.cycle <=> session.id \in ancestors \/ (unknown = {} /\ roots = {})
       /\ node.task = IF node.orphan \/ node.cycle THEN Unset ELSE CHOOSE id \in roots : TRUE
       /\ node.depth = Cardinality(ancestors \ {session.id})
-----------------------------------------------------------------------------
(***************************************************************************)
(* The list of sessions of the dashboard: filtered, cut into pages.  A page*)
(* has the sessions after its start up to its end; one that is too high is *)
(* the last one.                                                           *)
(***************************************************************************)
Matches(filter, value) == filter = Unset \/ filter = value

Matching(threads, profile, project) ==
    Count(threads, LAMBDA x : Matches(profile, x.profile) /\ Matches(project, x.project))

Pages(total, size) == IF total = 0 THEN 1 ELSE (total + size - 1) \div size

Lower(i, j) == IF i < j THEN i ELSE j

ClampPage(total, size, page) == Lower(page, Pages(total, size))

PageStart(size, page) == (page - 1) * size
PageEnd(total, size, page) == Lower(PageStart(size, page) + size, total)
=============================================================================
