----------------------------- MODULE Dashboard -----------------------------
(***************************************************************************)
(* codexm dashboard: the handlers snapshot, events and sessions of         *)
(* internal/dashboard and the page in the browser, static/app.js.  The     *)
(* page shows the snapshots the event stream brings and asks for the list  *)
(* of sessions one page at a time, with a request of its own.              *)
(***************************************************************************)
EXTENDS SnapshotFeed

CONSTANTS
    Searches,   \* texts to search for; a text finds the sessions of one project
    PageSize,   \* sessions per page (50 in the code)
    MaxRequests,\* bound on the requests for a list that are on their way
    MaxEvents,  \* bound on what the user does, requests that fail, connections that break
    Nothing, Failed

ASSUME SearchesAssumption == Searches \subseteq ProjectRoots
ASSUME PageSizeAssumption == PageSize \in Nat \ {0}
ASSUME RequestsAssumption == MaxRequests \in Nat \ {0}
ASSUME AnswersAssumption == Nothing # Failed /\ {Nothing, Failed} \cap Nat = {}
ASSUME EventsAssumption == MaxEvents \in Nat

VARIABLES
    page,      \* whether the page is open
    state,     \* the snapshot it shows
    fetched,   \* its first request, for a snapshot
    view,      \* whether it shows the sessions
    profile, search, \* what the list is filtered by
    timer,     \* whether a change of the search waits for searchTimer
    sessions,  \* the page number, the number of pages and the list on display
    requests,  \* requests for a list, the oldest first: what each asks for, its answer
    awaited,   \* whether the last of them is the one sessionsRequest counts
    events     \* how many of these there were

browserVars == <<page, state, fetched, view, profile, search, timer, sessions,
                 requests, awaited, events>>

(***************************************************************************)
(* What a request asks for; the answer is the snapshot it is taken from.   *)
(***************************************************************************)
Ask == [profile : ProfileNames \cup {Unset}, search : Searches \cup {Unset}, page : Nat]
Answer == Snapshot \cup {Nothing, Failed}
Request == [ask : Ask, answer : Answer]
NoAsk == [profile |-> Unset, search |-> Unset, page |-> 1]

Found(from, ask) == Matching(Threads(from), ask.profile, ask.search)
ListedPage(from, ask) == ClampPage(Found(from, ask), PageSize, ask.page)
ListedPages(from, ask) == Pages(Found(from, ask), PageSize)

DashboardTypeOK ==
    /\ page \in {"closed", "open"}
    /\ state \in Snapshot
    /\ fetched \in [stage : {"no", "asked", "answered", "done"}, from : Snapshot]
    /\ view \in {"overview", "sessions"}
    /\ profile \in ProfileNames \cup {Unset} /\ search \in Searches \cup {Unset}
    /\ timer \in BOOLEAN
    /\ sessions \in [page : Nat, pages : Nat, ask : Ask, from : Snapshot, error : BOOLEAN]
    /\ requests \in Seq(Request) /\ Len(requests) <= MaxRequests
    /\ awaited \in BOOLEAN /\ (awaited => requests # <<>>)
    /\ events \in 0..MaxEvents

DashboardInit ==
    /\ page = "closed" /\ state = 0 /\ fetched = [stage |-> "no", from |-> 0] /\ view = "overview"
    /\ profile = Unset /\ search = Unset /\ timer = FALSE
    /\ sessions = [page |-> 1, pages |-> 1, ask |-> NoAsk, from |-> 0, error |-> FALSE]
    /\ requests = <<>> /\ awaited = FALSE
    /\ events = 0

Event == events < MaxEvents /\ events' = events + 1
-----------------------------------------------------------------------------
(***************************************************************************)
(* loadSessions.  A new request supersedes those that are outstanding.     *)
(* When MaxRequests are on their way the oldest is forgotten.              *)
(***************************************************************************)
Requested(ask) ==
    Append(IF Len(requests) < MaxRequests THEN requests ELSE Tail(requests),
           [ask |-> ask, answer |-> Nothing])

NewRequest(ask) == awaited' = TRUE /\ requests' = Requested(ask)

\* A mistake: a request that is outstanding is thought to be enough.
LoadOnce(ask) == IF awaited THEN UNCHANGED <<requests, awaited>> ELSE NewRequest(ask)

LoadSessions(ask) == NewRequest(ask)

Asking(number) == [profile |-> profile, search |-> search, page |-> number]

(***************************************************************************)
(* update, which every snapshot goes through.                              *)
(***************************************************************************)
Show(v) ==
    /\ state' = v
    /\ IF view = "sessions" THEN LoadSessions(Asking(sessions.page))
       ELSE UNCHANGED <<requests, awaited>>
    /\ UNCHANGED <<page, view, profile, search, timer, sessions, events>>
-----------------------------------------------------------------------------
(***************************************************************************)
(* init: the page fetches a snapshot and opens the event stream, which     *)
(* brings the current one too.  Neither waits for the other.               *)
(***************************************************************************)
OpenPage ==
    /\ page = "closed"
    /\ page' = "open" /\ fetched' = [fetched EXCEPT !.stage = "asked"]
    /\ UNCHANGED <<feedVars, state, view, profile, search, timer, sessions, requests,
                   awaited, events>>

ServeSnapshot ==
    /\ fetched.stage = "asked"
    /\ fetched' = [stage |-> "answered", from |-> current]
    /\ UNCHANGED <<feedVars, page, state, view, profile, search, timer, sessions, requests,
                   awaited, events>>

\* Nobody asks again.
FetchFails ==
    /\ fetched.stage = "asked" /\ Event
    /\ fetched' = [fetched EXCEPT !.stage = "done"]
    /\ UNCHANGED <<feedVars, page, state, view, profile, search, timer, sessions, requests,
                   awaited>>

ReceiveSnapshot ==
    /\ fetched.stage = "answered"
    /\ fetched' = [stage |-> "done", from |-> 0]
    /\ Show(fetched.from)
    /\ UNCHANGED feedVars

(***************************************************************************)
(* The browser connects again to a stream it has lost.  The handler of the *)
(* lost one ends.                                                          *)
(***************************************************************************)
Connect ==
    /\ page = "open" /\ ~subscribed
    /\ Subscribe
    /\ UNCHANGED browserVars

LoseConnection ==
    /\ subscribed /\ Event
    /\ Unsubscribe
    /\ UNCHANGED <<page, state, fetched, view, profile, search, timer, sessions, requests,
                   awaited>>

ReceiveEvent ==
    /\ page = "open" /\ wire # <<>>
    /\ Show(Head(wire))
    /\ Delivered
    /\ UNCHANGED fetched
-----------------------------------------------------------------------------
Input == page = "open" /\ Event /\ UNCHANGED <<feedVars, page, state, fetched>>

ShowSessions ==
    /\ Input
    /\ view' = "sessions"
    /\ LoadSessions(Asking(sessions.page))
    /\ UNCHANGED <<profile, search, timer, sessions>>

ShowOverview ==
    /\ Input /\ view = "sessions"
    /\ view' = "overview"
    /\ UNCHANGED <<profile, search, timer, sessions, requests, awaited>>

\* The choice is between the profiles the last answer named.
ChooseProfile ==
    /\ Input /\ view = "sessions"
    /\ profile' \in (ProfileFacets(Threads(sessions.from)) \cup {Unset}) \ {profile}
    /\ sessions' = [sessions EXCEPT !.page = 1]
    /\ LoadSessions([Asking(1) EXCEPT !.profile = profile'])
    /\ UNCHANGED <<view, search, timer>>

\* Typing in the search field.
Search ==
    /\ Input /\ view = "sessions"
    /\ search' \in (Searches \cup {Unset}) \ {search}
    /\ timer' = TRUE
    /\ UNCHANGED <<view, profile, sessions, requests, awaited>>

SearchTimer ==
    /\ timer
    /\ timer' = FALSE
    /\ sessions' = [sessions EXCEPT !.page = 1]
    /\ LoadSessions(Asking(1))
    /\ UNCHANGED <<feedVars, page, state, fetched, view, profile, search, events>>

Turn(number) ==
    /\ sessions' = [sessions EXCEPT !.page = number]
    /\ LoadSessions(Asking(number))

TurnPage ==
    /\ Input /\ view = "sessions"
    /\ \/ sessions.page > 1 /\ Turn(sessions.page - 1)
       \/ sessions.page < sessions.pages /\ Turn(sessions.page + 1)
    /\ UNCHANGED <<view, profile, search, timer>>
-----------------------------------------------------------------------------
(***************************************************************************)
(* The handler sessions answers from the snapshot of that moment; requests *)
(* overtake each other.                                                    *)
(***************************************************************************)
Serve(i) ==
    /\ requests[i].answer = Nothing
    /\ requests' = [requests EXCEPT ![i].answer = current]
    /\ UNCHANGED <<feedVars, page, state, fetched, view, profile, search, timer, sessions,
                   awaited, events>>

RequestFails(i) ==
    /\ requests[i].answer = Nothing /\ Event
    /\ requests' = [requests EXCEPT ![i].answer = Failed]
    /\ UNCHANGED <<feedVars, page, state, fetched, view, profile, search, timer, sessions,
                   awaited>>

\* A mistake: every answer is shown.
IsAny(i) == TRUE

\* Only the answer to the latest request counts.
IsLatest(i) == awaited /\ i = Len(requests)

(***************************************************************************)
(* What is shown follows the answer, and the choice of a profile the       *)
(* snapshot does not have is taken back: populateFacets.                   *)
(***************************************************************************)
Receive(i) ==
    LET from == requests[i].answer
        ask == requests[i].ask
    IN  /\ from # Nothing
        /\ requests' = RemoveAt(requests, i)
        /\ awaited' = (awaited /\ i # Len(requests))
        /\ IF ~IsLatest(i) THEN UNCHANGED <<sessions, profile>>
           ELSE IF from = Failed
           THEN sessions' = [sessions EXCEPT !.error = TRUE] /\ UNCHANGED profile
           ELSE /\ sessions' = [page |-> ListedPage(from, ask), pages |-> ListedPages(from, ask),
                                ask |-> ask, from |-> from, error |-> FALSE]
                /\ profile' = IF profile \in ProfileFacets(Threads(from)) THEN profile ELSE Unset
        /\ UNCHANGED <<feedVars, page, state, fetched, view, search, timer, events>>

DashboardNext ==
    \/ OpenPage \/ ServeSnapshot \/ FetchFails \/ ReceiveSnapshot
    \/ Connect \/ LoseConnection \/ ReceiveEvent
    \/ ShowSessions \/ ShowOverview \/ ChooseProfile \/ Search \/ SearchTimer \/ TurnPage
    \/ \E i \in DOMAIN requests : Serve(i) \/ RequestFails(i) \/ Receive(i)
-----------------------------------------------------------------------------
\* The list is on display and the page is not about to replace it.
AtRest == view = "sessions" /\ ~awaited /\ ~sessions.error

(***************************************************************************)
(* The list and the rest of the page come from different requests          *)
(* (server.go:230): at rest the list is not older than the snapshot beside *)
(* it, however requests overtake each other, events are dropped and the    *)
(* stream breaks.                                                          *)
(***************************************************************************)
ListNotOlder == AtRest => sessions.from >= state

(***************************************************************************)
(* At rest the list answers what the controls ask for.  Only a profile     *)
(* that is gone may be selected no longer while its empty list is shown.   *)
(***************************************************************************)
ListAnswersControls ==
    AtRest /\ ~timer =>
        /\ sessions.ask.search = search
        /\ sessions.page = ListedPage(sessions.from, sessions.ask)
        /\ \/ sessions.ask.profile = profile
           \/ /\ profile = Unset
              /\ sessions.ask.profile \notin ProfileFacets(Threads(sessions.from))

PageCaughtUp ==
    page = "open" =>
        /\ state = current
        /\ view = "sessions" =>
             sessions.from = current /\ sessions.ask.profile = profile /\ ~sessions.error
=============================================================================
