----------------------------- MODULE TerminalUI -----------------------------
(***************************************************************************)
(* codexm ui: the model of internal/tui/tui.go and its Update, one action  *)
(* for each message it handles.  Drawing is left out.                      *)
(***************************************************************************)
EXTENDS SnapshotFeed

CONSTANT AccountNumber \* profiles that have an account
ASSUME AccountAssumption == AccountNumber \in Nat

VARIABLES
    ui,        \* where Run is
    shown,     \* the snapshot of the model
    tab, cursor,
    filter,    \* what the filter matches
    filtering  \* whether keys go to the filter

uiVars == <<ui, shown, tab, cursor, filter, filtering>>

Tabs == 0..5

UITypeOK ==
    /\ ui \in {"off", "subscribed", "on", "quit"}
    /\ shown \in Snapshot
    /\ tab \in Tabs /\ cursor \in Nat
    /\ filter \in {Unset} \cup ProfileNames
    /\ filtering \in BOOLEAN

UIInit ==
    /\ ui = "off" /\ shown = 0
    /\ tab = 0 /\ cursor = 0 /\ filter = Unset /\ filtering = FALSE

(***************************************************************************)
(* selectableRows and clampCursor.  The filter applies to sessions and     *)
(* tasks; the overview has no rows.                                        *)
(***************************************************************************)
SelectableRows(v, t, text) ==
    CASE t = 1 -> IF v = 0 THEN 0 ELSE AccountNumber
      [] t = 2 -> Cardinality(Projects(Threads(v)))
      [] t = 3 -> Count(Threads(v), LAMBDA x : Matches(text, x.profile))
      [] t = 4 -> Count(Threads(v), LAMBDA x : IsTask(x) /\ Matches(text, x.profile))
      [] t = 5 -> Count(Threads(v), LAMBDA x : ~IsRoot(x))
      [] OTHER -> 0

\* A mistake: the cursor is kept one row too far.
ClampedLate(c, rows) == IF rows = 0 THEN 0 ELSE IF c > rows THEN rows ELSE c

Clamped(c, rows) == IF rows = 0 THEN 0 ELSE IF c >= rows THEN rows - 1 ELSE c

(***************************************************************************)
(* Every update ends with the cursor clamped to what is shown by then.     *)
(***************************************************************************)
Update(v, t, text, c) ==
    /\ shown' = v /\ tab' = t /\ filter' = text
    /\ cursor' = Clamped(c, SelectableRows(v, t, text))
-----------------------------------------------------------------------------
UISubscribe ==
    /\ ui = "off"
    /\ ui' = "subscribed"
    /\ Subscribe
    /\ UNCHANGED <<shown, tab, cursor, filter, filtering>>

\* The first snapshot is read from the store after the subscription.
UIStart ==
    /\ ui = "subscribed"
    /\ ui' = "on"
    /\ shown' = current
    /\ UNCHANGED <<feedVars, tab, cursor, filter, filtering>>

UISnapshot ==
    /\ ui = "on" /\ wire # <<>>
    /\ Update(Head(wire), tab, filter, cursor)
    /\ Delivered
    /\ UNCHANGED <<ui, filtering>>

Key == ui = "on" /\ ~filtering /\ UNCHANGED <<feedVars, ui>>

ChangeTab ==
    /\ Key
    /\ \E t \in Tabs : Update(shown, t, filter, 0)
    /\ UNCHANGED filtering

CursorUp ==
    /\ Key
    /\ Update(shown, tab, filter, IF cursor > 0 THEN cursor - 1 ELSE 0)
    /\ UNCHANGED filtering

CursorDown ==
    /\ Key
    /\ Update(shown, tab, filter, cursor + 1)
    /\ UNCHANGED filtering

StartFilter ==
    /\ Key
    /\ filtering' = TRUE
    /\ UNCHANGED <<shown, tab, cursor, filter>>

TypeFilter ==
    /\ ui = "on" /\ filtering
    /\ \E text \in {Unset} \cup ProfileNames : Update(shown, tab, text, cursor)
    /\ UNCHANGED <<feedVars, ui, filtering>>

EndFilter ==
    /\ ui = "on" /\ filtering
    /\ filtering' = FALSE
    /\ UNCHANGED <<feedVars, ui, shown, tab, cursor, filter>>

UIQuit ==
    /\ ui = "on" /\ ~filtering
    /\ ui' = "quit"
    /\ Unsubscribe
    /\ UNCHANGED <<shown, tab, cursor, filter, filtering>>

UINext ==
    \/ UISubscribe \/ UIStart \/ UISnapshot
    \/ ChangeTab \/ CursorUp \/ CursorDown
    \/ StartFilter \/ TypeFilter \/ EndFilter
    \/ UIQuit
-----------------------------------------------------------------------------
(***************************************************************************)
(* clampCursor (tui.go:132): the cursor is on a row that exists, whatever  *)
(* happened to the list under it, or on the first line of an empty one.    *)
(***************************************************************************)
CursorOnRow ==
    ui = "on" =>
        LET rows == SelectableRows(shown, tab, filter)
        IN cursor < rows \/ (cursor = 0 /\ rows = 0)

UICaughtUp == ui = "on" => shown = current
=============================================================================
