----------------------------- MODULE MCViewers -----------------------------
(***************************************************************************)
(* Two profiles and two projects, and three states of their threads.       *)
(***************************************************************************)
EXTENDS Viewers

CONSTANTS i1, i2, i3, i4, i5, a, b, p, q

Raw(type, flags) == [type |-> type, flags |-> flags]
Of(id, profile_, project_, parent, status, updated) ==
    [id |-> id, profile |-> profile_, project |-> project_, parent |-> parent,
     status |-> status, archived |-> FALSE, updated |-> updated]

Idle == Raw("idle", <<>>)
Waiting == Raw("active", <<"other", "waitingOnUserInput", "waitingOnApproval">>)

\* A task with a subagent and one of that; a session of the other profile.
Tree == <<Of(i1, a, p, Unset, Raw("active", <<>>), 1), Of(i2, a, p, i1, Idle, 4),
           Of(i3, a, p, i2, Idle, 2), Of(i4, b, q, Unset, Waiting, 3)>>
\* Threads that are each other's parents, below one of them a third; one whose
\* parent is gone; the other profile has a copy of a subagent.
Tangle == <<Of(i1, a, p, i2, Idle, 1), Of(i2, a, p, i1, Idle, 2), Of(i3, a, q, i2, Idle, 3),
            Of(i4, a, q, i5, Idle, 4), Of(i2, b, p, i1, Idle, 2)>>
\* One session.
Quiet == <<Of(i4, b, q, Unset, Raw("notLoaded", <<>>), 5)>>

(***************************************************************************)
(* Every table of three threads of one profile.  The dashboard shows the   *)
(* same subagents as the terminal, so that it is not given these.          *)
(***************************************************************************)
Tables ==
    {<<Of(i1, a, p, x, Idle, 1), Of(i2, a, p, y, Idle, 2), Of(i3, a, p, z, Idle, 3)>> :
       x, y, z \in {Unset, i1, i2, i3, i4}}

MCFeeds ==
    [ui |-> {<<Tree, Quiet>>, <<Tangle>>} \cup {<<table>> : table \in Tables},
     dashboard |-> {<<Tree, Quiet>>}]
=============================================================================
