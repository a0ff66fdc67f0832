---------------------------- MODULE ViewersProofs ----------------------------
(***************************************************************************)
(* What both viewers preserve for any feeds, sizes and number of requests: *)
(* the cursor of the terminal is on a row, the list of the dashboard is    *)
(* not older than the page and answers its controls, each subagent has its *)
(* place in the tree; and no session falls between two pages.              *)
(***************************************************************************)
EXTENDS Viewers, FiniteSetTheorems, SequenceTheorems, WellFoundedInduction, TLAPS

LEMMA SubsetOfDomain ==
    ASSUME NEW S, NEW list \in Seq(S), NEW I \in SUBSET DOMAIN list
    PROVE  Cardinality(I) \in Nat
<1>1. DOMAIN list = 1..Len(list) /\ Len(list) \in Nat
  OBVIOUS
<1>2. IsFiniteSet(1..Len(list))
  BY <1>1, FS_Interval
<1>3. IsFiniteSet(I)
  BY <1>1, <1>2, FS_Subset
<1> QED BY <1>3, FS_CardinalityType

LEMMA ThreadsType == ASSUME FeedTypeOK, NEW v \in Snapshot PROVE Threads(v) \in Seq(Thread)
<1>1. feed \in Seq(Seq(Thread))
  BY FeedsAssumption DEF FeedTypeOK
<1> QED BY <1>1 DEF Snapshot, Threads

LEMMA MatchingType ==
    ASSUME NEW list \in Seq(Thread), NEW x, NEW y
    PROVE  Matching(list, x, y) \in Nat
<1> DEFINE I == {i \in DOMAIN list : Matches(x, list[i].profile) /\ Matches(y, list[i].project)}
<1>1. I \in SUBSET DOMAIN list
  OBVIOUS
<1>2. Cardinality(I) \in Nat
  BY <1>1, SubsetOfDomain
<1> QED BY <1>2 DEF Matching, Count

LEMMA PagesType ==
    ASSUME NEW total \in Nat, NEW size \in Nat \ {0}
    PROVE  /\ Pages(total, size) \in Nat \ {0}
           /\ total <= Pages(total, size) * size
<1>1. CASE total = 0
  BY <1>1 DEF Pages
<1>2. CASE total # 0
  <2> DEFINE m == total + size - 1
             q == m \div size
  <2>1. m \in Nat /\ m >= size
    BY <1>2
  <2>2. q \in Nat /\ q * size <= m /\ m < (q + 1) * size
    BY <2>1
  <2>3. q # 0
    BY <2>1, <2>2
  <2>4. (q - 1) * size = q * size - size /\ (q + 1) * size = q * size + size
    BY <2>2
  <2>5. Pages(total, size) = q
    BY <1>2 DEF Pages
  <2> QED BY <2>2, <2>3, <2>4, <2>5
<1> QED BY <1>1, <1>2

LEMMA PageWithin ==
    ASSUME NEW size \in Nat \ {0}, NEW i \in Nat, NEW m \in Nat, NEW n \in Nat,
           (m - 1) * size < i, i <= (m - 1) * size + size,
           (n - 1) * size < i, i <= (n - 1) * size + size
    PROVE  m = n
<1>1. (m - 1) * size + size = m * size /\ (n - 1) * size + size = n * size
  OBVIOUS
<1>2. CASE m < n
  <2>1. n - 1 >= m
    BY <1>2
  <2>2. (n - 1) * size >= m * size
    BY <2>1
  <2> QED BY <1>1, <2>2
<1>3. CASE n < m
  <2>1. m - 1 >= n
    BY <1>3
  <2>2. (m - 1) * size >= n * size
    BY <2>1
  <2> QED BY <1>1, <2>2
<1> QED BY <1>2, <1>3

(***************************************************************************)
(* sessions.go:66: whatever the number of sessions found, each of them is  *)
(* on exactly one of the pages the answer announces.                       *)
(***************************************************************************)
THEOREM SessionsOnOnePage ==
    ASSUME NEW total \in Nat, NEW i \in 1..total
    PROVE  \E n \in 1..Pages(total, PageSize) :
             /\ PageStart(PageSize, n) < i /\ i <= PageEnd(total, PageSize, n)
             /\ \A m \in 1..Pages(total, PageSize) :
                  PageStart(PageSize, m) < i /\ i <= PageEnd(total, PageSize, m) => m = n
<1> USE PageSizeAssumption
<1> DEFINE n == (i - 1) \div PageSize + 1
<1>1. n \in Nat \ {0} /\ (n - 1) * PageSize <= i - 1 /\ i - 1 < n * PageSize
  <2> DEFINE d == (i - 1) \div PageSize
  <2>1. d \in Nat /\ d * PageSize <= i - 1 /\ i - 1 < (d + 1) * PageSize
    OBVIOUS
  <2>2. n = d + 1 /\ n - 1 = d
    BY <2>1
  <2> QED BY <2>1, <2>2
<1>2. n * PageSize = (n - 1) * PageSize + PageSize
  BY <1>1
<1> HIDE DEF n
<1>3. n <= Pages(total, PageSize)
  <2>1. SUFFICES ASSUME n > Pages(total, PageSize) PROVE FALSE
    BY <1>1, PagesType
  <2>2. n - 1 >= Pages(total, PageSize) /\ Pages(total, PageSize) \in Nat
    BY <2>1, <1>1, PagesType
  <2>3. (n - 1) * PageSize >= Pages(total, PageSize) * PageSize
    BY <2>2, <1>1
  <2>4. total <= Pages(total, PageSize) * PageSize
    BY PagesType
  <2>5. (n - 1) * PageSize \in Nat /\ Pages(total, PageSize) * PageSize \in Nat
    BY <1>1, <2>2
  <2> QED BY <1>1, <2>3, <2>4, <2>5
<1>4. PageStart(PageSize, n) < i /\ i <= PageEnd(total, PageSize, n)
  <2>1. (n - 1) * PageSize \in Nat
    BY <1>1
  <2> QED BY <1>1, <1>2, <2>1 DEF PageStart, PageEnd, Lower
<1>5. ASSUME NEW m \in 1..Pages(total, PageSize),
             PageStart(PageSize, m) < i, i <= PageEnd(total, PageSize, m)
      PROVE  m = n
  <2>1. m \in Nat /\ (m - 1) * PageSize \in Int
    BY PagesType
  <2>2. (m - 1) * PageSize < i /\ i <= (m - 1) * PageSize + PageSize
    BY <1>5, <2>1 DEF PageStart, PageEnd, Lower
  <2>3. (n - 1) * PageSize < i /\ i <= (n - 1) * PageSize + PageSize
    BY <1>1, <1>2
  <2> QED BY <1>1, <2>1, <2>2, <2>3, PageWithin
<1>6. n \in 1..Pages(total, PageSize)
  BY <1>1, <1>3, PagesType
<1> QED BY <1>4, <1>5, <1>6
-----------------------------------------------------------------------------
LEMMA ProjectsType ==
    ASSUME NEW list \in Seq(Thread)
    PROVE  Cardinality(Projects(list)) \in Nat
<1>1. DOMAIN list = 1..Len(list) /\ Len(list) \in Nat
  OBVIOUS
<1>2. IsFiniteSet(1..Len(list))
  BY <1>1, FS_Interval
<1> DEFINE f == [i \in 1..Len(list) |-> list[i].project]
<1>3. f \in Surjection(1..Len(list), Projects(list))
  BY <1>1 DEF Projects, ToSet, Surjection
<1>4. IsFiniteSet(Projects(list))
  BY <1>2, <1>3, FS_Surjection
<1> QED BY <1>4, FS_CardinalityType

LEMMA RowsType ==
    ASSUME FeedTypeOK, NEW v \in Snapshot, NEW t \in Tabs, NEW text
    PROVE  SelectableRows(v, t, text) \in Nat
<1> DEFINE list == Threads(v)
<1>1. list \in Seq(Thread)
  BY ThreadsType
<1> HIDE DEF list
<1>2. Count(list, LAMBDA x : Matches(text, x.profile)) \in Nat
  <2>1. {i \in DOMAIN list : Matches(text, list[i].profile)} \in SUBSET DOMAIN list
    OBVIOUS
  <2> QED BY <1>1, <2>1, SubsetOfDomain DEF Count
<1>3. Count(list, LAMBDA x : IsTask(x) /\ Matches(text, x.profile)) \in Nat
  <2>1. {i \in DOMAIN list : IsTask(list[i]) /\ Matches(text, list[i].profile)} \in SUBSET DOMAIN list
    OBVIOUS
  <2> QED BY <1>1, <2>1, SubsetOfDomain DEF Count
<1>4. Count(list, LAMBDA x : ~IsRoot(x)) \in Nat
  <2>1. {i \in DOMAIN list : ~IsRoot(list[i])} \in SUBSET DOMAIN list
    OBVIOUS
  <2> QED BY <1>1, <2>1, SubsetOfDomain DEF Count
<1>5. Cardinality(Projects(list)) \in Nat
  BY <1>1, ProjectsType
<1> QED BY <1>2, <1>3, <1>4, <1>5, AccountAssumption DEF SelectableRows, list, Tabs

LEMMA ListedType ==
    ASSUME FeedTypeOK, NEW from \in Snapshot, NEW ask \in Ask
    PROVE  ListedPage(from, ask) \in Nat /\ ListedPages(from, ask) \in Nat
<1>1. Found(from, ask) \in Nat
  BY ThreadsType, MatchingType DEF Found
<1>2. Pages(Found(from, ask), PageSize) \in Nat
  BY <1>1, PagesType, PageSizeAssumption
<1> QED BY <1>2 DEF ListedPage, ListedPages, ClampPage, Lower, Ask

LEMMA RemoveAtType ==
    ASSUME NEW S, NEW s \in Seq(S), NEW i \in 1..Len(s)
    PROVE  /\ RemoveAt(s, i) \in Seq(S)
           /\ Len(RemoveAt(s, i)) = Len(s) - 1
           /\ i # Len(s) => RemoveAt(s, i)[Len(s) - 1] = s[Len(s)]
<1> DEFINE l == SubSeq(s, 1, i - 1)
           r == SubSeq(s, i + 1, Len(s))
<1>1. l \in Seq(S) /\ Len(l) = i - 1
  OBVIOUS
<1>2. r \in Seq(S) /\ Len(r) = Len(s) - i
  OBVIOUS
<1>3. i # Len(s) => r[Len(s) - i] = s[Len(s)]
  OBVIOUS
<1> HIDE DEF l, r
<1>4. l \o r \in Seq(S) /\ Len(l \o r) = Len(s) - 1
  BY <1>1, <1>2
<1>5. i # Len(s) => (l \o r)[Len(s) - 1] = r[Len(s) - i]
  BY <1>1, <1>2
<1>6. RemoveAt(s, i) = l \o r
  BY DEF RemoveAt, l, r
<1> QED BY <1>3, <1>4, <1>5, <1>6
-----------------------------------------------------------------------------
LEMMA InitType == Init => TypeOK
<1> SUFFICES ASSUME Init PROVE TypeOK
  OBVIOUS
<1>1. feed \in Seq(Seq(Thread)) /\ 0 \in Snapshot
  BY FeedsAssumption DEF Init, FeedInit, Snapshot
<1>2. FeedTypeOK
  <2>1. channel \in Seq(Snapshot) /\ Len(channel) <= 1
    BY DEF Init, FeedInit
  <2>2. wire \in Seq(Snapshot) /\ Len(wire) <= WireSize
    BY WireAssumption DEF Init, FeedInit
  <2> QED BY <1>1, <2>1, <2>2 DEF Init, FeedInit, FeedTypeOK
<1>3. UITypeOK
  <2>1. filtering \in BOOLEAN
    BY DEF Init, UIInit
  <2>2. tab \in Tabs /\ cursor \in Nat
    BY DEF Init, UIInit, Tabs
  <2> QED BY <1>1, <2>1, <2>2 DEF Init, UIInit, UITypeOK
<1>4. DashboardTypeOK
  <2>1. NoAsk \in Ask
    BY DEF NoAsk, Ask
  <2>2. sessions \in [page : Nat, pages : Nat, ask : Ask, from : Snapshot, error : BOOLEAN]
    BY <1>1, <2>1 DEF Init, DashboardInit
  <2>3. fetched \in [stage : {"no", "asked", "answered", "done"}, from : Snapshot]
    BY <1>1 DEF Init, DashboardInit
  <2>4. requests \in Seq(Request) /\ Len(requests) <= MaxRequests /\ events \in 0..MaxEvents
    BY RequestsAssumption, EventsAssumption DEF Init, DashboardInit
  <2>5. timer \in BOOLEAN /\ awaited \in BOOLEAN /\ (awaited => requests # <<>>)
    BY DEF Init, DashboardInit
  <2> QED BY <1>1, <2>2, <2>3, <2>4, <2>5 DEF Init, DashboardInit, DashboardTypeOK
<1> QED BY <1>2, <1>3, <1>4 DEF TypeOK

LEMMA FeedStep ==
    ASSUME FeedTypeOK,
           \/ Publish \/ Subscribe \/ Unsubscribe \/ Forward
           \/ (Delivered /\ wire # <<>>)
           \/ UNCHANGED feedVars
    PROVE  FeedTypeOK' /\ feed' = feed /\ Snapshot' = Snapshot
<1>1. feed' = feed
  BY DEF Publish, Subscribe, Unsubscribe, Forward, Delivered, feedVars
<1>2. Snapshot' = Snapshot
  BY <1>1 DEF Snapshot
<1>3. feed \in Seq(Seq(Thread))
  BY FeedsAssumption DEF FeedTypeOK
<1>4. CASE Publish
  <2>1. PICK v \in {current, current + 1} \cap 1..Len(feed) : Offer(v) /\ current' = v
    BY <1>4 DEF Publish
  <2>2. v \in Snapshot
    BY <1>3 DEF Snapshot
  <2> QED BY <1>2, <1>4, <2>1, <2>2 DEF Publish, Offer, FeedTypeOK
<1>5. CASE Subscribe
  <2>1. wire' \in Seq(Snapshot) /\ Len(wire') <= WireSize
    BY <1>5, WireAssumption DEF Subscribe
  <2>2. channel' \in Seq(Snapshot) /\ Len(channel') <= 1
    BY <1>5 DEF Subscribe, FeedTypeOK
  <2> QED BY <1>2, <1>5, <2>1, <2>2 DEF Subscribe, FeedTypeOK
<1>6. CASE Unsubscribe
  <2>1. wire' \in Seq(Snapshot) /\ Len(wire') <= WireSize
    BY <1>6, WireAssumption DEF Unsubscribe
  <2>2. channel' \in Seq(Snapshot) /\ Len(channel') <= 1
    BY <1>6 DEF Unsubscribe
  <2> QED BY <1>2, <1>6, <2>1, <2>2 DEF Unsubscribe, FeedTypeOK
<1>7. CASE Forward
  <2>1. Head(channel) \in Snapshot /\ Tail(channel) \in Seq(Snapshot) /\ Len(Tail(channel)) <= 1
    BY <1>7 DEF Forward, FeedTypeOK
  <2>2. Append(wire, Head(channel)) \in Seq(Snapshot) /\ Len(Append(wire, Head(channel))) <= WireSize
    BY <1>7, <2>1, WireAssumption DEF Forward, FeedTypeOK
  <2> QED BY <1>2, <1>7, <2>1, <2>2 DEF Forward, FeedTypeOK
<1>8. CASE Delivered /\ wire # <<>>
  <2>1. Tail(wire) \in Seq(Snapshot) /\ Len(Tail(wire)) <= WireSize
    BY <1>8, WireAssumption DEF FeedTypeOK
  <2> QED BY <1>2, <1>8, <2>1 DEF Delivered, FeedTypeOK
<1>9. CASE UNCHANGED feedVars
  BY <1>2, <1>9 DEF feedVars, FeedTypeOK
<1> QED BY <1>1, <1>2, <1>4, <1>5, <1>6, <1>7, <1>8, <1>9

LEMMA UpdateType ==
    ASSUME FeedTypeOK, NEW v \in Snapshot, NEW t \in Tabs, NEW text, NEW c \in Nat
    PROVE  Clamped(c, SelectableRows(v, t, text)) \in Nat
BY RowsType DEF Clamped

LEMMA UIType ==
    ASSUME FeedTypeOK, UITypeOK, UINext
    PROVE  FeedTypeOK' /\ feed' = feed /\ UITypeOK'
<1>1. FeedTypeOK' /\ feed' = feed /\ Snapshot' = Snapshot
  <2>1. \/ Subscribe \/ Unsubscribe \/ (Delivered /\ wire # <<>>)
        \/ UNCHANGED feedVars
    BY DEF UINext, UISubscribe, UIStart, UISnapshot, Key, ChangeTab, CursorUp, CursorDown,
           StartFilter, TypeFilter, EndFilter, UIQuit
  <2> QED BY <2>1, FeedStep
<1>2. /\ shown \in Snapshot /\ tab \in Tabs /\ cursor \in Nat
      /\ filter \in {Unset} \cup ProfileNames
  BY DEF UITypeOK
<1>3. filtering' \in BOOLEAN
  BY DEF UINext, UISubscribe, UIStart, UISnapshot, Key, ChangeTab, CursorUp, CursorDown,
         StartFilter, TypeFilter, EndFilter, UIQuit, UITypeOK
<1>4. ui' \in {"off", "subscribed", "on", "quit"}
  BY DEF UINext, UISubscribe, UIStart, UISnapshot, Key, ChangeTab, CursorUp, CursorDown,
         StartFilter, TypeFilter, EndFilter, UIQuit, UITypeOK
<1> DEFINE Kept == /\ shown' \in Snapshot /\ tab' \in Tabs /\ cursor' \in Nat
                   /\ filter' \in {Unset} \cup ProfileNames
<1>5. CASE UISubscribe \/ UIStart \/ StartFilter \/ EndFilter \/ UIQuit
  <2>1. Kept
    BY <1>2, <1>5
       DEF UISubscribe, UIStart, StartFilter, EndFilter, UIQuit, Key, FeedTypeOK
  <2> QED BY <1>1, <1>3, <1>4, <2>1 DEF UITypeOK
<1>6. CASE UISnapshot
  <2>1. Head(wire) \in Snapshot
    BY <1>6 DEF UISnapshot, FeedTypeOK
  <2>2. Kept
    BY <1>2, <1>6, <2>1, UpdateType DEF UISnapshot, Update
  <2> QED BY <1>1, <1>3, <1>4, <2>2 DEF UITypeOK
<1>7. CASE ChangeTab
  <2>1. 0 \in Nat
    OBVIOUS
  <2>2. Kept
    BY <1>2, <1>7, <2>1, UpdateType DEF ChangeTab, Update
  <2> QED BY <1>1, <1>3, <1>4, <2>2 DEF UITypeOK
<1>8. CASE CursorUp
  <2>1. (IF cursor > 0 THEN cursor - 1 ELSE 0) \in Nat
    BY <1>2
  <2>2. Kept
    BY <1>2, <1>8, <2>1, UpdateType DEF CursorUp, Update
  <2> QED BY <1>1, <1>3, <1>4, <2>2 DEF UITypeOK
<1>9. CASE CursorDown
  <2>1. cursor + 1 \in Nat
    BY <1>2
  <2>2. Kept
    BY <1>2, <1>9, <2>1, UpdateType DEF CursorDown, Update
  <2> QED BY <1>1, <1>3, <1>4, <2>2 DEF UITypeOK
<1>10. CASE TypeFilter
  <2>1. Kept
    BY <1>2, <1>10, UpdateType DEF TypeFilter, Update
  <2> QED BY <1>1, <1>3, <1>4, <2>1 DEF UITypeOK
<1> QED BY <1>1, <1>5, <1>6, <1>7, <1>8, <1>9, <1>10 DEF UINext

LEMMA RequestedType ==
    ASSUME DashboardTypeOK, NEW ask \in Ask
    PROVE  /\ Requested(ask) \in Seq(Request) /\ Len(Requested(ask)) <= MaxRequests
           /\ Requested(ask) # <<>>
           /\ Requested(ask)[Len(Requested(ask))] = [ask |-> ask, answer |-> Nothing]
<1> DEFINE before == IF Len(requests) < MaxRequests THEN requests ELSE Tail(requests)
           new == [ask |-> ask, answer |-> Nothing]
<1>1. requests \in Seq(Request) /\ Len(requests) <= MaxRequests
  BY DEF DashboardTypeOK
<1>2. new \in Request
  BY DEF Request, Answer
<1>3. before \in Seq(Request) /\ Len(before) < MaxRequests
  BY <1>1, RequestsAssumption
<1> HIDE DEF before, new
<1>4. /\ Append(before, new) \in Seq(Request) /\ Len(Append(before, new)) <= MaxRequests
      /\ Append(before, new) # <<>> /\ Append(before, new)[Len(Append(before, new))] = new
  BY <1>2, <1>3, RequestsAssumption
<1> QED BY <1>4 DEF Requested, before, new

LEMMA AskingType == ASSUME DashboardTypeOK, NEW number \in Nat PROVE Asking(number) \in Ask
BY DEF DashboardTypeOK, Asking, Ask

LEMMA AnswerType ==
    ASSUME DashboardTypeOK, NEW i \in DOMAIN requests
    PROVE  /\ requests[i].ask \in Ask /\ requests[i].answer \in Answer
           /\ i \in 1..Len(requests)
<1>1. requests \in Seq(Request)
  BY DEF DashboardTypeOK
<1>2. i \in 1..Len(requests) /\ requests[i] \in Request
  BY <1>1
<1> QED BY <1>2 DEF Request

(***************************************************************************)
(* What each group of actions of the page keeps, as far as types go.       *)
(***************************************************************************)
LEMMA DashboardFeed ==
    ASSUME FeedTypeOK, DashboardTypeOK, DashboardNext
    PROVE  FeedTypeOK' /\ feed' = feed /\ Snapshot' = Snapshot
<1>1. \/ Subscribe \/ Unsubscribe \/ (Delivered /\ wire # <<>>)
      \/ UNCHANGED feedVars
  BY DEF DashboardNext, OpenPage, ServeSnapshot, FetchFails, ReceiveSnapshot, Connect,
         LoseConnection, ReceiveEvent, Input, ShowSessions, ShowOverview, ChooseProfile,
         Search, SearchTimer, TurnPage, Serve, RequestFails, Receive
<1> QED BY <1>1, FeedStep

LEMMA DashboardBooleans ==
    ASSUME DashboardTypeOK, DashboardNext
    PROVE  timer' \in BOOLEAN /\ awaited' \in BOOLEAN
BY DEF DashboardNext, OpenPage, ServeSnapshot, FetchFails, ReceiveSnapshot, Connect,
       LoseConnection, ReceiveEvent, Input, ShowSessions, ShowOverview, ChooseProfile,
       Search, SearchTimer, TurnPage, Turn, Serve, RequestFails, Receive, Show,
       LoadSessions, NewRequest, browserVars, DashboardTypeOK

LEMMA DashboardEvents ==
    ASSUME DashboardTypeOK, DashboardNext
    PROVE  events' \in 0..MaxEvents /\ page' \in {"closed", "open"}
<1>1. events' = events \/ Event
  BY DEF DashboardNext, OpenPage, ServeSnapshot, FetchFails, ReceiveSnapshot, Connect,
         LoseConnection, ReceiveEvent, Input, ShowSessions, ShowOverview, ChooseProfile,
         Search, SearchTimer, TurnPage, Serve, RequestFails, Receive, Show, browserVars
<1>2. page' = page \/ page' = "open"
  BY DEF DashboardNext, OpenPage, ServeSnapshot, FetchFails, ReceiveSnapshot, Connect,
         LoseConnection, ReceiveEvent, Input, ShowSessions, ShowOverview, ChooseProfile,
         Search, SearchTimer, TurnPage, Serve, RequestFails, Receive, Show, browserVars
<1>3. events' \in 0..MaxEvents
  BY <1>1, EventsAssumption DEF Event, DashboardTypeOK
<1> QED BY <1>2, <1>3 DEF DashboardTypeOK

LEMMA FacetsType ==
    ASSUME FeedTypeOK, NEW v \in Snapshot
    PROVE  ProfileFacets(Threads(v)) \subseteq ProfileNames
<1> DEFINE list == Threads(v)
<1>1. list \in Seq(Thread)
  BY ThreadsType
<1> HIDE DEF list
<1>2. ASSUME NEW i \in DOMAIN list PROVE list[i].profile \in ProfileNames
  <2>1. list[i] \in Thread
    BY <1>1, <1>2
  <2> QED BY <2>1 DEF Thread
<1> QED BY <1>2 DEF ProfileFacets, ToSet, list

LEMMA ChosenType ==
    ASSUME FeedTypeOK, DashboardTypeOK, ChooseProfile
    PROVE  /\ profile' \in ProfileNames \cup {Unset}
           /\ [Asking(1) EXCEPT !.profile = profile'] \in Ask
<1>1. sessions.from \in Snapshot
  BY DEF DashboardTypeOK
<1>2. profile' \in ProfileNames \cup {Unset}
  BY <1>1, FacetsType DEF ChooseProfile
<1>3. Asking(1) \in Ask
  BY AskingType
<1> QED BY <1>2, <1>3 DEF Ask

(***************************************************************************)
(* Every step of the page that is not one of a request leaves the list     *)
(* alone or asks for a new one.                                            *)
(***************************************************************************)
LEMMA StepOfRequests ==
    ASSUME FeedTypeOK, DashboardTypeOK, DashboardNext
    PROVE  \/ \E i \in DOMAIN requests : Serve(i) \/ RequestFails(i) \/ Receive(i)
           \/ \E ask \in Ask : /\ requests' = Requested(ask) /\ awaited' = TRUE
                              /\ ask.search = search' /\ ask.profile = profile'
           \/ /\ UNCHANGED <<requests, awaited, sessions, profile>>
              /\ \/ UNCHANGED <<state, view, search, timer>>
                 \/ view' # "sessions" /\ UNCHANGED <<search, timer>>
                 \/ timer' = TRUE /\ UNCHANGED <<state, view>>
<1> USE DEF LoadSessions, NewRequest
<1>1. sessions.page \in Nat /\ 1 \in Nat
  BY DEF DashboardTypeOK
<1>2. \A n \in Nat : Asking(n) \in Ask /\ Asking(n).search = search /\ Asking(n).profile = profile
  <2>1. \A n \in Nat : Asking(n) \in Ask
    BY AskingType
  <2> QED BY <2>1 DEF Asking
<1>3. CASE OpenPage \/ ServeSnapshot \/ FetchFails \/ Connect \/ LoseConnection
  BY <1>3 DEF OpenPage, ServeSnapshot, FetchFails, Connect, LoseConnection, browserVars
<1>4. CASE ShowOverview \/ Search
  BY <1>4 DEF ShowOverview, Search, Input
<1>5. CASE ReceiveSnapshot \/ ReceiveEvent
  BY <1>1, <1>2, <1>5 DEF ReceiveSnapshot, ReceiveEvent, Show
<1>6. CASE ShowSessions \/ SearchTimer
  BY <1>1, <1>2, <1>6 DEF ShowSessions, SearchTimer
<1>7. CASE ChooseProfile
  <2> DEFINE ask == [Asking(1) EXCEPT !.profile = profile']
  <2>1. ask \in Ask
    BY <1>7, ChosenType
  <2>2. ask.search = search /\ ask.profile = profile'
    BY <1>1, <1>2 DEF Asking
  <2> QED BY <1>7, <2>1, <2>2 DEF ChooseProfile
<1>8. CASE TurnPage
  <2>1. CASE sessions.page > 1 /\ Turn(sessions.page - 1)
    <3>1. sessions.page - 1 \in Nat
      BY <1>1, <2>1
    <3> QED BY <1>2, <1>8, <2>1, <3>1 DEF TurnPage, Turn
  <2>2. CASE sessions.page < sessions.pages /\ Turn(sessions.page + 1)
    <3>1. sessions.page + 1 \in Nat
      BY <1>1
    <3> QED BY <1>2, <1>8, <2>2, <3>1 DEF TurnPage, Turn
  <2> QED BY <1>8, <2>1, <2>2 DEF TurnPage
<1> QED BY <1>3, <1>4, <1>5, <1>6, <1>7, <1>8 DEF DashboardNext

LEMMA DashboardRequests ==
    ASSUME FeedTypeOK, DashboardTypeOK, DashboardNext
    PROVE  /\ requests' \in Seq(Request) /\ Len(requests') <= MaxRequests
           /\ awaited' => requests' # <<>>
<1>1. Snapshot' = Snapshot /\ Answer' = Answer /\ Request' = Request
  BY DashboardFeed DEF Answer, Request
<1>2. CASE requests' = requests /\ awaited' = awaited
  BY <1>1, <1>2 DEF DashboardTypeOK
<1>3. CASE \E ask \in Ask : requests' = Requested(ask) /\ awaited' = TRUE
  BY <1>1, <1>3, RequestedType
<1>4. CASE \E i \in DOMAIN requests : Serve(i) \/ RequestFails(i) \/ Receive(i)
  <2>1. PICK i \in DOMAIN requests : Serve(i) \/ RequestFails(i) \/ Receive(i)
    BY <1>4
  <2>2. i \in 1..Len(requests) /\ requests[i].ask \in Ask /\ requests[i] \in Request
    <3>1. requests \in Seq(Request)
      BY DEF DashboardTypeOK
    <3> QED BY <3>1, AnswerType
  <2>3. requests \in Seq(Request) /\ Len(requests) <= MaxRequests
    BY DEF DashboardTypeOK
  <2>4. ASSUME NEW answer \in Answer, requests' = [requests EXCEPT ![i].answer = answer],
               awaited' = awaited
        PROVE  requests' \in Seq(Request) /\ Len(requests') <= MaxRequests /\ requests' # <<>>
    <3>1. [requests[i] EXCEPT !.answer = answer] \in Request
      BY <2>2, <2>4 DEF Request
    <3>2. requests' = [requests EXCEPT ![i] = [requests[i] EXCEPT !.answer = answer]]
      BY <2>4
    <3> QED BY <2>2, <2>3, <3>1, <3>2
  <2>5. CASE Serve(i)
    <3>1. current \in Answer
      BY DEF FeedTypeOK, Answer
    <3> QED BY <1>1, <2>4, <2>5, <3>1 DEF Serve
  <2>6. CASE RequestFails(i)
    <3>1. Failed \in Answer
      BY DEF Answer
    <3> QED BY <1>1, <2>4, <2>6, <3>1 DEF RequestFails
  <2>7. CASE Receive(i)
    <3>1. requests' = RemoveAt(requests, i) /\ (awaited' => i # Len(requests))
      BY <2>7 DEF Receive
    <3>2. RemoveAt(requests, i) \in Seq(Request) /\ Len(RemoveAt(requests, i)) = Len(requests) - 1
      BY <2>2, <2>3, RemoveAtType
    <3>3. i # Len(requests) => Len(requests) - 1 > 0
      BY <2>2, <2>3
    <3>4. requests' \in Seq(Request) /\ Len(requests') <= MaxRequests
      BY <2>3, <3>1, <3>2, RequestsAssumption
    <3>5. awaited' => Len(requests') # 0
      BY <2>3, <3>1, <3>2, <3>3
    <3>6. awaited' => requests' # <<>>
      BY <3>5
    <3> QED BY <1>1, <3>4, <3>6
  <2> QED BY <2>1, <2>5, <2>6, <2>7
<1> QED BY <1>2, <1>3, <1>4, StepOfRequests

LEMMA DashboardSessions ==
    ASSUME FeedTypeOK, DashboardTypeOK, DashboardNext
    PROVE  /\ sessions' \in [page : Nat, pages : Nat, ask : Ask, from : Snapshot, error : BOOLEAN]
           /\ profile' \in ProfileNames \cup {Unset} /\ search' \in Searches \cup {Unset}
<1> DEFINE List == [page : Nat, pages : Nat, ask : Ask, from : Snapshot, error : BOOLEAN]
<1>1. sessions \in List
  BY DEF DashboardTypeOK
<1>2. profile \in ProfileNames \cup {Unset} /\ search \in Searches \cup {Unset}
  BY DEF DashboardTypeOK
<1>3. search' \in Searches \cup {Unset}
  BY <1>2 DEF DashboardNext, OpenPage, ServeSnapshot, FetchFails, ReceiveSnapshot, Connect,
         LoseConnection, ReceiveEvent, Input, ShowSessions, ShowOverview, ChooseProfile,
         Search, SearchTimer, TurnPage, Serve, RequestFails, Receive, Show, browserVars
<1>4. ASSUME NEW number \in Nat PROVE [sessions EXCEPT !.page = number] \in List
  BY <1>1, <1>4
<1>5. CASE OpenPage \/ ServeSnapshot \/ FetchFails \/ ReceiveSnapshot \/ Connect
           \/ LoseConnection \/ ReceiveEvent \/ ShowSessions \/ ShowOverview \/ Search
           \/ \E i \in DOMAIN requests : Serve(i) \/ RequestFails(i)
  <2>1. sessions' = sessions /\ profile' = profile
    BY <1>5 DEF OpenPage, ServeSnapshot, FetchFails, ReceiveSnapshot, Connect, LoseConnection,
                ReceiveEvent, ShowSessions, ShowOverview, Search, Serve, RequestFails, Show, browserVars
  <2> QED BY <1>1, <1>2, <1>3, <2>1
<1>6. CASE ChooseProfile \/ SearchTimer
  <2>1. sessions' = [sessions EXCEPT !.page = 1] /\ profile' \in ProfileNames \cup {Unset}
    BY <1>2, <1>6, ChosenType DEF ChooseProfile, SearchTimer
  <2> QED BY <1>3, <1>4, <2>1
<1>7. CASE TurnPage
  <2>1. PICK number \in {sessions.page - 1, sessions.page + 1} :
          /\ sessions' = [sessions EXCEPT !.page = number]
          /\ number = sessions.page - 1 => sessions.page > 1
    BY <1>1, <1>7 DEF TurnPage, Turn
  <2>2. number \in Nat
    BY <1>1, <2>1
  <2>3. profile' = profile
    BY <1>7 DEF TurnPage
  <2> QED BY <1>2, <1>3, <1>4, <2>1, <2>2, <2>3
<1>8. CASE \E i \in DOMAIN requests : Receive(i)
  <2>1. PICK i \in DOMAIN requests : Receive(i)
    BY <1>8
  <2> DEFINE from == requests[i].answer
             ask == requests[i].ask
  <2>2. from \in Answer /\ ask \in Ask
    BY AnswerType
  <2>3. CASE sessions' = sessions /\ profile' = profile
    BY <1>1, <1>2, <1>3, <2>3
  <2>4. CASE sessions' = [sessions EXCEPT !.error = TRUE] /\ profile' = profile
    <3>1. sessions' \in List
      BY <1>1, <2>4
    <3> QED BY <1>2, <1>3, <2>4, <3>1
  <2>5. CASE /\ from \in Snapshot
             /\ sessions' = [page |-> ListedPage(from, ask), pages |-> ListedPages(from, ask),
                             ask |-> ask, from |-> from, error |-> FALSE]
             /\ profile' = IF profile \in ProfileFacets(Threads(from)) THEN profile ELSE Unset
    <3>1. sessions' \in List
      BY <2>2, <2>5, ListedType
    <3>2. profile' \in ProfileNames \cup {Unset}
      BY <1>2, <2>5
    <3> QED BY <1>3, <3>1, <3>2
  <2>6. from # Nothing /\ (from # Failed => from \in Snapshot)
    BY <2>1, <2>2 DEF Receive, Answer
  <2> HIDE DEF from, ask
  <2> QED BY <2>1, <2>3, <2>4, <2>5, <2>6 DEF Receive, from, ask
<1> QED BY <1>5, <1>6, <1>7, <1>8 DEF DashboardNext

LEMMA DashboardViews ==
    ASSUME FeedTypeOK, DashboardTypeOK, DashboardNext
    PROVE  /\ state' \in Snapshot
           /\ fetched' \in [stage : {"no", "asked", "answered", "done"}, from : Snapshot]
           /\ view' \in {"overview", "sessions"}
<1>1. 0 \in Snapshot /\ current \in Snapshot
  <2>1. feed \in Seq(Seq(Thread))
    BY FeedsAssumption DEF FeedTypeOK
  <2> QED BY <2>1 DEF FeedTypeOK, Snapshot
<1>2. view' \in {"overview", "sessions"}
  BY DEF DashboardNext, OpenPage, ServeSnapshot, FetchFails, ReceiveSnapshot, Connect,
         LoseConnection, ReceiveEvent, Input, ShowSessions, ShowOverview, ChooseProfile,
         Search, SearchTimer, TurnPage, Serve, RequestFails, Receive, Show, browserVars,
         DashboardTypeOK
<1>3. fetched \in [stage : {"no", "asked", "answered", "done"}, from : Snapshot] /\ state \in Snapshot
  BY DEF DashboardTypeOK
<1>4. wire # <<>> => Head(wire) \in Snapshot
  BY DEF FeedTypeOK
<1>5. state' \in Snapshot
  BY <1>3, <1>4 DEF DashboardNext, OpenPage, ServeSnapshot, FetchFails, ReceiveSnapshot, Connect,
         LoseConnection, ReceiveEvent, Input, ShowSessions, ShowOverview, ChooseProfile,
         Search, SearchTimer, TurnPage, Serve, RequestFails, Receive, Show, browserVars
<1>6. \/ fetched' = fetched
      \/ \E stage \in {"asked", "done"} : fetched' = [fetched EXCEPT !.stage = stage]
      \/ \E stage \in {"answered", "done"}, v \in Snapshot : fetched' = [stage |-> stage, from |-> v]
  BY <1>1 DEF DashboardNext, OpenPage, ServeSnapshot, FetchFails, ReceiveSnapshot, Connect,
         LoseConnection, ReceiveEvent, Input, ShowSessions, ShowOverview, ChooseProfile,
         Search, SearchTimer, TurnPage, Serve, RequestFails, Receive, Show, browserVars
<1>7. fetched' \in [stage : {"no", "asked", "answered", "done"}, from : Snapshot]
  BY <1>3, <1>6
<1> QED BY <1>2, <1>5, <1>7

LEMMA NextType == ASSUME TypeOK, [Next]_vars PROVE TypeOK'
<1>1. FeedTypeOK /\ UITypeOK /\ DashboardTypeOK
  BY DEF TypeOK
<1>2. CASE InBoth(Publish) \/ InBoth(Forward) \/ UNCHANGED vars
  <2>1. FeedTypeOK' /\ Snapshot' = Snapshot
    BY <1>1, <1>2, FeedStep DEF InBoth, vars
  <2>2. UNCHANGED uiVars /\ UNCHANGED browserVars
    BY <1>2 DEF InBoth, vars
  <2>3. UITypeOK'
    BY <1>1, <2>1, <2>2 DEF UITypeOK, uiVars
  <2>4. DashboardTypeOK'
    BY <1>1, <2>1, <2>2 DEF DashboardTypeOK, browserVars, Request, Answer
  <2> QED BY <2>1, <2>3, <2>4 DEF TypeOK
<1>3. CASE InUI(UINext)
  <2>1. FeedTypeOK' /\ feed' = feed /\ UITypeOK' /\ UNCHANGED browserVars
    BY <1>1, <1>3, UIType DEF InUI
  <2>2. Snapshot' = Snapshot
    BY <2>1 DEF Snapshot
  <2>3. DashboardTypeOK'
    BY <1>1, <2>1, <2>2 DEF DashboardTypeOK, browserVars, Request, Answer
  <2> QED BY <2>1, <2>3 DEF TypeOK
<1>4. CASE InDashboard(DashboardNext)
  <2>1. DashboardNext /\ UNCHANGED uiVars
    BY <1>4 DEF InDashboard
  <2>2. FeedTypeOK' /\ Snapshot' = Snapshot
    BY <1>1, <2>1, DashboardFeed
  <2>3. UITypeOK'
    BY <1>1, <2>1, <2>2 DEF UITypeOK, uiVars
  <2>4. Request' = Request
    BY <2>2 DEF Request, Answer
  <2>5. DashboardTypeOK'
    BY <1>1, <2>1, <2>2, <2>4, DashboardBooleans, DashboardEvents, DashboardRequests,
       DashboardSessions, DashboardViews DEF DashboardTypeOK
  <2> QED BY <2>2, <2>3, <2>5 DEF TypeOK
<1> QED BY <1>2, <1>3, <1>4 DEF Next

(***************************************************************************)
(* Every state of both viewers has the types TypeOK names.                 *)
(***************************************************************************)
THEOREM TypeCorrect == Spec => []TypeOK
<1>1. Init => TypeOK
  BY InitType
<1>2. TypeOK /\ [Next]_vars => TypeOK'
  BY NextType
<1> QED BY <1>1, <1>2, PTL DEF Spec
-----------------------------------------------------------------------------
(***************************************************************************)
(* The cursor.  Before the first snapshot is shown the tab has no rows.    *)
(***************************************************************************)
Cursor == CursorOnRow /\ (ui \in {"off", "subscribed"} => tab = 0 /\ cursor = 0)

OnRow(c, rows) == c < rows \/ (c = 0 /\ rows = 0)

LEMMA ClampedOnRow ==
    ASSUME NEW c \in Nat, NEW rows \in Nat PROVE OnRow(Clamped(c, rows), rows)
BY DEF Clamped, OnRow

LEMMA RowsThen ==
    ASSUME feed' = feed
    PROVE  SelectableRows(shown, tab, filter)' = SelectableRows(shown', tab', filter')
BY DEF SelectableRows, Threads

LEMMA CursorStep ==
    ASSUME TypeOK, Cursor, UINext
    PROVE  Cursor'
<1>1. FeedTypeOK /\ UITypeOK
  BY DEF TypeOK
<1>2. feed' = feed /\ UITypeOK'
  BY <1>1, UIType
<1> DEFINE rows == SelectableRows(shown, tab, filter)
<1>3. rows' = SelectableRows(shown', tab', filter')
  BY <1>2, RowsThen
<1>4. CASE UISubscribe
  BY <1>4 DEF UISubscribe, Cursor, CursorOnRow
<1>5. CASE UIStart
  <2>1. tab' = 0 /\ cursor' = 0 /\ ui' = "on"
    BY <1>5 DEF UIStart, Cursor
  <2>2. SelectableRows(shown', tab', filter') = 0
    BY <2>1 DEF SelectableRows
  <2> QED BY <1>3, <2>1, <2>2 DEF Cursor, CursorOnRow
<1>6. CASE StartFilter \/ EndFilter
  <2>1. UNCHANGED <<ui, shown, tab, cursor, filter>> /\ ui = "on"
    BY <1>6 DEF StartFilter, EndFilter, Key
  <2>2. rows' = rows
    BY <1>3, <2>1
  <2> QED BY <2>1, <2>2 DEF Cursor, CursorOnRow
<1>7. CASE UIQuit
  BY <1>7 DEF UIQuit, Cursor, CursorOnRow
<1>8. CASE UISnapshot \/ ChangeTab \/ CursorUp \/ CursorDown \/ TypeFilter
  <2>1. \E c \in Nat : cursor' = Clamped(c, SelectableRows(shown', tab', filter'))
    <3>1. cursor \in Nat /\ cursor + 1 \in Nat /\ (cursor > 0 => cursor - 1 \in Nat) /\ 0 \in Nat
      BY <1>1 DEF UITypeOK
    <3>2. CASE UISnapshot
      BY <3>1, <3>2 DEF UISnapshot, Update
    <3>3. CASE ChangeTab
      BY <3>1, <3>3 DEF ChangeTab, Update
    <3>4. CASE CursorUp
      BY <3>1, <3>4 DEF CursorUp, Update
    <3>5. CASE CursorDown
      BY <3>1, <3>5 DEF CursorDown, Update
    <3>6. CASE TypeFilter
      BY <3>1, <3>6 DEF TypeFilter, Update
    <3> QED BY <1>8, <3>2, <3>3, <3>4, <3>5, <3>6
  <2>2. SelectableRows(shown', tab', filter') \in Nat
    <3>1. shown' \in Snapshot /\ tab' \in Tabs
      BY <1>2 DEF UITypeOK, Snapshot
    <3> QED BY <1>1, <3>1, RowsType
  <2>3. OnRow(cursor', SelectableRows(shown', tab', filter'))
    BY <2>1, <2>2, ClampedOnRow
  <2>4. ui' = "on"
    BY <1>8 DEF UISnapshot, ChangeTab, CursorUp, CursorDown, TypeFilter, Key
  <2> QED BY <1>3, <2>3, <2>4 DEF Cursor, CursorOnRow, OnRow
<1> QED BY <1>4, <1>5, <1>6, <1>7, <1>8 DEF UINext

LEMMA CursorNext == ASSUME TypeOK, Cursor, [Next]_vars PROVE Cursor'
<1>1. CASE InUI(UINext)
  BY <1>1, CursorStep DEF InUI
<1>2. CASE ~InUI(UINext)
  <2>1. UNCHANGED uiVars
    BY <1>2 DEF Next, InBoth, InDashboard, vars
  <2>2. feed' = feed
    <3>1. FeedTypeOK /\ DashboardTypeOK
      BY DEF TypeOK
    <3>2. CASE InDashboard(DashboardNext)
      BY <3>1, <3>2, DashboardFeed DEF InDashboard
    <3>3. CASE InBoth(Publish) \/ InBoth(Forward) \/ UNCHANGED vars
      BY <3>1, <3>3, FeedStep DEF InBoth, vars
    <3> QED BY <1>2, <3>2, <3>3 DEF Next
  <2>3. SelectableRows(shown, tab, filter)' = SelectableRows(shown, tab, filter)
    BY <2>1, <2>2, RowsThen DEF uiVars
  <2> QED BY <2>1, <2>3 DEF uiVars, Cursor, CursorOnRow
<1> QED BY <1>1, <1>2

(***************************************************************************)
(* clampCursor (tui.go:132): whatever arrives and whatever is typed, the   *)
(* cursor is on a row, or at the top when there is none.                   *)
(***************************************************************************)
THEOREM CursorStaysOnRow == Spec => []CursorOnRow
<1>1. Init => Cursor
  BY DEF Init, UIInit, Cursor, CursorOnRow
<1>2. TypeOK /\ Cursor /\ [Next]_vars => Cursor'
  BY CursorNext
<1>3. Cursor => CursorOnRow
  BY DEF Cursor
<1> QED BY <1>1, <1>2, <1>3, TypeCorrect, PTL DEF Spec
-----------------------------------------------------------------------------
(***************************************************************************)
(* The list of sessions.  Nothing on its way is newer than the store; the  *)
(* answer the page waits for is not older than what it shows.              *)
(***************************************************************************)
ChannelOrder ==
    /\ \A i \in DOMAIN channel : channel[i] <= current
    /\ \A i \in DOMAIN wire : wire[i] <= current
PageOrder == state <= current /\ fetched.from <= current
Due == requests[Len(requests)]
AnswerNotOlder ==
    view = "sessions" /\ awaited /\ Due.answer \notin {Nothing, Failed} => Due.answer >= state

Ordered == ChannelOrder /\ PageOrder /\ AnswerNotOlder /\ ListNotOlder

LEMMA SnapshotInt == ASSUME FeedTypeOK PROVE Snapshot \subseteq Nat /\ current \in Nat
<1>1. feed \in Seq(Seq(Thread))
  BY FeedsAssumption DEF FeedTypeOK
<1> QED BY <1>1 DEF Snapshot, FeedTypeOK

LEMMA OrderOfFeed ==
    ASSUME FeedTypeOK, ChannelOrder,
           \/ Publish \/ Subscribe \/ Unsubscribe \/ Forward
           \/ (Delivered /\ wire # <<>>)
           \/ UNCHANGED feedVars
    PROVE  ChannelOrder' /\ current <= current'
<1>1. /\ channel \in Seq(Snapshot) /\ Len(channel) <= 1
      /\ wire \in Seq(Snapshot) /\ current \in Nat /\ Snapshot \subseteq Nat
  BY SnapshotInt DEF FeedTypeOK
<1>2. CASE Publish
  <2>1. PICK v \in {current, current + 1} : Offer(v) /\ current' = v /\ wire' = wire
    BY <1>2 DEF Publish
  <2>2. v \in Nat /\ current <= v
    BY <1>1, <2>1
  <2>3. ASSUME NEW i \in DOMAIN wire PROVE wire[i] <= v
    <3>1. wire[i] \in Snapshot
      BY <1>1, <2>3
    <3>2. wire[i] \in Nat
      BY <1>1, <3>1
    <3>3. wire[i] <= current
      BY <2>3 DEF ChannelOrder
    <3> QED BY <1>1, <2>2, <3>2, <3>3
  <2>4. ASSUME NEW i \in DOMAIN channel PROVE channel[i] <= v
    <3>1. channel[i] \in Snapshot
      BY <1>1, <2>4
    <3>2. channel[i] \in Nat
      BY <1>1, <3>1
    <3>3. channel[i] <= current
      BY <2>4 DEF ChannelOrder
    <3> QED BY <1>1, <2>2, <3>2, <3>3
  <2>5. channel' = <<v>> \/ channel' = channel
    BY <2>1 DEF Offer
  <2>6. \A i \in DOMAIN channel' : channel'[i] <= v
    BY <2>2, <2>4, <2>5
  <2> QED BY <2>1, <2>2, <2>3, <2>6 DEF ChannelOrder
<1>3. CASE Subscribe
  <2>1. current' = current /\ wire' = <<>> /\ (channel' = <<>> \/ channel' = <<current>>)
    BY <1>3 DEF Subscribe
  <2> QED BY <1>1, <2>1 DEF ChannelOrder
<1>4. CASE Unsubscribe
  BY <1>1, <1>4 DEF Unsubscribe, ChannelOrder
<1>5. CASE Forward
  <2>1. /\ current' = current /\ channel # <<>>
        /\ wire' = Append(wire, Head(channel)) /\ channel' = Tail(channel)
    BY <1>5 DEF Forward
  <2>2. Head(channel) = channel[1] /\ 1 \in DOMAIN channel /\ Tail(channel) = <<>>
    BY <1>1, <2>1
  <2>3. channel[1] <= current
    BY <2>2 DEF ChannelOrder
  <2>4. \A i \in DOMAIN wire' : wire'[i] <= current
    BY <1>1, <2>1, <2>2, <2>3 DEF ChannelOrder
  <2>5. \A i \in DOMAIN channel' : channel'[i] <= current
    BY <2>1, <2>2
  <2> QED BY <1>1, <2>1, <2>4, <2>5 DEF ChannelOrder
<1>6. CASE Delivered /\ wire # <<>>
  <2>1. current' = current /\ channel' = channel /\ wire' = Tail(wire)
    BY <1>6 DEF Delivered
  <2>2. \A i \in DOMAIN Tail(wire) : Tail(wire)[i] <= current
    BY <1>1, <1>6 DEF ChannelOrder
  <2> QED BY <1>1, <2>1, <2>2 DEF ChannelOrder
<1>7. CASE UNCHANGED feedVars
  BY <1>1, <1>7 DEF feedVars, ChannelOrder
<1> QED BY <1>2, <1>3, <1>4, <1>5, <1>6, <1>7

LEMMA PageOrderStep ==
    ASSUME FeedTypeOK, DashboardTypeOK, ChannelOrder, PageOrder, DashboardNext
    PROVE  ChannelOrder' /\ PageOrder'
<1>1. state \in Nat /\ fetched.from \in Nat /\ current \in Nat
  <2>1. state \in Snapshot /\ fetched.from \in Snapshot
    BY DEF DashboardTypeOK
  <2> QED BY <2>1, SnapshotInt
<1>2. \/ Subscribe \/ Unsubscribe \/ (Delivered /\ wire # <<>>)
      \/ UNCHANGED feedVars
  BY DEF DashboardNext, OpenPage, ServeSnapshot, FetchFails, ReceiveSnapshot, Connect,
         LoseConnection, ReceiveEvent, Input, ShowSessions, ShowOverview, ChooseProfile,
         Search, SearchTimer, TurnPage, Serve, RequestFails, Receive
<1>3. ChannelOrder'
  BY <1>2, OrderOfFeed
<1>4. current' = current
  BY <1>2 DEF Subscribe, Unsubscribe, Delivered, feedVars
<1>5. wire # <<>> => Head(wire) <= current
  <2>1. wire \in Seq(Snapshot)
    BY DEF FeedTypeOK
  <2>2. wire # <<>> => 1 \in DOMAIN wire /\ Head(wire) = wire[1]
    BY <2>1
  <2> QED BY <2>2 DEF ChannelOrder
<1>6. state' = state \/ state' = fetched.from \/ (wire # <<>> /\ state' = Head(wire))
  BY DEF DashboardNext, OpenPage, ServeSnapshot, FetchFails, ReceiveSnapshot, Connect,
         LoseConnection, ReceiveEvent, Input, ShowSessions, ShowOverview, ChooseProfile,
         Search, SearchTimer, TurnPage, Serve, RequestFails, Receive, Show, browserVars
<1>7. fetched'.from \in {fetched.from, 0, current}
  <2>1. \/ fetched' = fetched
        \/ fetched' = [fetched EXCEPT !.stage = "asked"]
        \/ fetched' = [fetched EXCEPT !.stage = "done"]
        \/ fetched' = [stage |-> "done", from |-> 0]
        \/ fetched' = [stage |-> "answered", from |-> current]
    BY DEF DashboardNext, OpenPage, ServeSnapshot, FetchFails, ReceiveSnapshot, Connect,
         LoseConnection, ReceiveEvent, Input, ShowSessions, ShowOverview, ChooseProfile,
         Search, SearchTimer, TurnPage, Serve, RequestFails, Receive, Show, browserVars
  <2>2. fetched \in [stage : {"no", "asked", "answered", "done"}, from : Snapshot]
    BY DEF DashboardTypeOK
  <2> QED BY <2>1, <2>2
<1>8. state' <= current /\ fetched'.from <= current
  BY <1>1, <1>5, <1>6, <1>7 DEF PageOrder
<1> QED BY <1>3, <1>4, <1>8 DEF PageOrder

(***************************************************************************)
(* A request that was just sent has no answer, and nothing is at rest.     *)
(***************************************************************************)
LEMMA SentIsDue ==
    ASSUME DashboardTypeOK, NEW ask \in Ask, requests' = Requested(ask), awaited' = TRUE
    PROVE  Due' = [ask |-> ask, answer |-> Nothing] /\ ~AtRest'
<1>1. Due' = requests'[Len(requests')]
  BY DEF Due
<1> QED BY <1>1, RequestedType DEF AtRest

LEMMA DueStays ==
    ASSUME DashboardTypeOK, NEW i \in DOMAIN requests, Serve(i) \/ RequestFails(i) \/ Receive(i)
    PROVE  /\ awaited' => awaited
           /\ awaited' => Due'.ask = Due.ask
           /\ awaited' => \/ Due'.answer = Due.answer
                          \/ Serve(i) /\ Due'.answer = current
                          \/ RequestFails(i) /\ Due'.answer = Failed
           /\ Receive(i) /\ awaited /\ ~awaited' => i = Len(requests)
<1>1. requests \in Seq(Request) /\ i \in 1..Len(requests) /\ Len(requests) \in 1..Len(requests)
  BY AnswerType DEF DashboardTypeOK
<1>2. Due' = requests'[Len(requests')]
  BY DEF Due
<1>3. requests[i] \in Request /\ Due \in Request
  BY <1>1 DEF Due
<1>4. ASSUME NEW answer, requests' = [requests EXCEPT ![i].answer = answer], awaited' = awaited
      PROVE  Due'.ask = Due.ask /\ (Due'.answer = Due.answer \/ Due'.answer = answer)
  <2>1. Len(requests') = Len(requests)
    BY <1>1, <1>4
  <2>2. CASE i = Len(requests)
    <3>1. Due' = [Due EXCEPT !.answer = answer]
      BY <1>1, <1>2, <1>4, <2>1, <2>2 DEF Due
    <3> QED BY <1>3, <3>1 DEF Request
  <2>3. CASE i # Len(requests)
    BY <1>1, <1>2, <1>4, <2>1, <2>3 DEF Due
  <2> QED BY <2>2, <2>3
<1>5. CASE Serve(i)
  BY <1>4, <1>5 DEF Serve
<1>6. CASE RequestFails(i)
  BY <1>4, <1>6 DEF RequestFails
<1>7. CASE Receive(i)
  <2>1. requests' = RemoveAt(requests, i) /\ (awaited' <=> awaited /\ i # Len(requests))
    BY <1>7 DEF Receive, DashboardTypeOK
  <2>2. /\ Len(RemoveAt(requests, i)) = Len(requests) - 1
        /\ i # Len(requests) => RemoveAt(requests, i)[Len(requests) - 1] = requests[Len(requests)]
    BY <1>1, RemoveAtType
  <2>3. awaited' => Due' = Due
    BY <1>2, <2>1, <2>2 DEF Due
  <2> QED BY <2>1, <2>3
<1> QED BY <1>5, <1>6, <1>7

LEMMA AnswerStep ==
    ASSUME FeedTypeOK, DashboardTypeOK, ChannelOrder, PageOrder, AnswerNotOlder, ListNotOlder,
           DashboardNext
    PROVE  AnswerNotOlder' /\ ListNotOlder'
<1>1. CASE \E ask \in Ask : requests' = Requested(ask) /\ awaited' = TRUE
  <2>1. Due'.answer = Nothing /\ ~AtRest'
    BY <1>1, SentIsDue
  <2> QED BY <2>1 DEF AnswerNotOlder, ListNotOlder
<1>2. CASE UNCHANGED <<requests, awaited, sessions, state, view>>
  BY <1>2 DEF AnswerNotOlder, ListNotOlder, AtRest, Due
<1>3. CASE view' # "sessions"
  BY <1>3 DEF AnswerNotOlder, ListNotOlder, AtRest
<1>4. CASE \E i \in DOMAIN requests : Serve(i) \/ RequestFails(i) \/ Receive(i)
  <2>1. PICK i \in DOMAIN requests : Serve(i) \/ RequestFails(i) \/ Receive(i)
    BY <1>4
  <2>2. UNCHANGED <<state, view>> /\ current >= state
    <3>1. current \in Nat /\ state \in Nat
      BY SnapshotInt DEF DashboardTypeOK
    <3> QED BY <2>1, <3>1 DEF Serve, RequestFails, Receive, PageOrder
  <2>3. AnswerNotOlder'
    BY <2>1, <2>2, DueStays DEF AnswerNotOlder
  <2>4. CASE sessions' = sessions /\ (awaited' <=> awaited)
    <3>1. AtRest' => AtRest
      BY <2>2, <2>4 DEF AtRest
    <3>2. sessions'.from = sessions.from /\ state' = state
      BY <2>2, <2>4
    <3> QED BY <2>3, <3>1, <3>2 DEF ListNotOlder
  <2>5. CASE Receive(i) /\ ~IsLatest(i)
    <3>1. sessions' = sessions /\ (awaited' <=> awaited)
      BY <2>5 DEF Receive, IsLatest, DashboardTypeOK
    <3> QED BY <2>4, <3>1
  <2>6. CASE Receive(i) /\ IsLatest(i)
    <3>1. Due = requests[i] /\ awaited /\ Due.answer # Nothing
      BY <2>6 DEF IsLatest, Due, Receive
    <3>2. CASE Due.answer = Failed
      <4>1. sessions' = [sessions EXCEPT !.error = TRUE]
        BY <2>6, <3>1, <3>2 DEF Receive
      <4>2. sessions'.error = TRUE
        BY <4>1 DEF DashboardTypeOK
      <4>3. ~AtRest'
        BY <4>2 DEF AtRest
      <4> QED BY <2>3, <4>3 DEF ListNotOlder
    <3>3. CASE Due.answer # Failed
      <4>1. sessions'.from = Due.answer
        BY <2>6, <3>1, <3>3 DEF Receive
      <4>2. AtRest' => view = "sessions"
        BY <2>2 DEF AtRest
      <4>3. view = "sessions" => Due.answer >= state
        BY <3>1, <3>3 DEF AnswerNotOlder
      <4>4. AtRest' => sessions'.from >= state'
        BY <2>2, <4>1, <4>2, <4>3
      <4> QED BY <2>3, <4>4 DEF ListNotOlder
    <3> QED BY <3>2, <3>3
  <2>7. CASE Serve(i) \/ RequestFails(i)
    BY <2>4, <2>7 DEF Serve, RequestFails
  <2> QED BY <2>1, <2>3, <2>5, <2>6, <2>7
<1> QED BY <1>1, <1>2, <1>3, <1>4, StepOfRequests

LEMMA OrderedNext == ASSUME TypeOK, Ordered, [Next]_vars PROVE Ordered'
<1>1. FeedTypeOK /\ DashboardTypeOK
  BY DEF TypeOK
<1>2. ChannelOrder /\ PageOrder /\ AnswerNotOlder /\ ListNotOlder
  BY DEF Ordered
<1>3. CASE InDashboard(DashboardNext)
  BY <1>1, <1>2, <1>3, PageOrderStep, AnswerStep DEF InDashboard, Ordered
<1>4. CASE ~InDashboard(DashboardNext)
  <2>1. UNCHANGED browserVars
    BY <1>4 DEF Next, InBoth, InUI, vars
  <2>2. ChannelOrder' /\ current <= current'
    <3>1. CASE InUI(UINext)
      <4>1. \/ Subscribe \/ Unsubscribe \/ (Delivered /\ wire # <<>>)
            \/ UNCHANGED feedVars
        BY <3>1 DEF InUI, UINext, UISubscribe, UIStart, UISnapshot, Key, ChangeTab, CursorUp,
                    CursorDown, StartFilter, TypeFilter, EndFilter, UIQuit
      <4> QED BY <1>1, <1>2, <4>1, OrderOfFeed
    <3>2. CASE InBoth(Publish) \/ InBoth(Forward) \/ UNCHANGED vars
      BY <1>1, <1>2, <3>2, OrderOfFeed DEF InBoth, vars
    <3> QED BY <1>4, <3>1, <3>2 DEF Next
  <2>3. PageOrder'
    <3>1. state \in Nat /\ fetched.from \in Nat /\ current \in Nat
      BY <1>1, SnapshotInt DEF DashboardTypeOK
    <3>2. current' \in Nat
      BY NextType, SnapshotInt DEF TypeOK, Snapshot, FeedTypeOK
    <3> QED BY <1>2, <2>1, <2>2, <3>1, <3>2 DEF PageOrder, browserVars
  <2>4. AnswerNotOlder' /\ ListNotOlder'
    BY <1>2, <2>1 DEF AnswerNotOlder, ListNotOlder, AtRest, Due, browserVars
  <2> QED BY <2>2, <2>3, <2>4 DEF Ordered
<1> QED BY <1>3, <1>4

LEMMA OrderedInit == Init => Ordered
BY DEF Init, FeedInit, DashboardInit, Ordered, ChannelOrder, PageOrder, AnswerNotOlder,
       ListNotOlder, AtRest

(***************************************************************************)
(* app.js:204: in every order in which snapshots, answers and clicks may   *)
(* reach the page, with requests and events lost, the list at rest is not  *)
(* older than the snapshot shown beside it.                                *)
(***************************************************************************)
THEOREM ListIsNotOlder == Spec => []ListNotOlder
<1>1. TypeOK /\ Ordered /\ [Next]_vars => Ordered'
  BY OrderedNext
<1>2. Ordered => ListNotOlder
  BY DEF Ordered
<1> QED BY <1>1, <1>2, OrderedInit, TypeCorrect, PTL DEF Spec
-----------------------------------------------------------------------------
(***************************************************************************)
(* The controls.  Unless the search waits, the request the page waits for  *)
(* asks for what they say.                                                 *)
(***************************************************************************)
DueAsks == awaited /\ ~timer => Due.ask.search = search /\ Due.ask.profile = profile

Controlled == DueAsks /\ ListAnswersControls

\* What the list on display answers, once it is at rest.
Answered ==
    /\ sessions.ask.search = search
    /\ sessions.page = ListedPage(sessions.from, sessions.ask)
    /\ \/ sessions.ask.profile = profile
       \/ /\ profile = Unset
          /\ sessions.ask.profile \notin ProfileFacets(Threads(sessions.from))

LEMMA ControlsAre == ListAnswersControls <=> (AtRest /\ ~timer => Answered)
BY DEF ListAnswersControls, Answered

LEMMA AnsweredStays ==
    ASSUME Answered, feed' = feed, UNCHANGED <<sessions, search, profile>>
    PROVE  Answered'
<1>1. ListedPage(sessions.from, sessions.ask)' = ListedPage(sessions.from, sessions.ask)
  BY DEF ListedPage, Found, Threads
<1>2. ProfileFacets(Threads(sessions.from))' = ProfileFacets(Threads(sessions.from))
  BY DEF Threads
<1> QED BY <1>1, <1>2 DEF Answered

LEMMA ControlledStep ==
    ASSUME FeedTypeOK, DashboardTypeOK, DueAsks, ListAnswersControls, DashboardNext
    PROVE  DueAsks' /\ ListAnswersControls'
<1>0. feed' = feed
  BY DashboardFeed
<1>1. CASE \E ask \in Ask : /\ requests' = Requested(ask) /\ awaited' = TRUE
                          /\ ask.search = search' /\ ask.profile = profile'
  <2>1. Due'.ask.search = search' /\ Due'.ask.profile = profile' /\ ~AtRest'
    BY <1>1, SentIsDue
  <2> QED BY <2>1 DEF DueAsks, ListAnswersControls
<1>2. CASE UNCHANGED <<requests, awaited, sessions, profile, view, search, timer>>
  <2>1. (AtRest' <=> AtRest) /\ Due' = Due
    BY <1>2 DEF AtRest, Due
  <2>2. DueAsks'
    BY <1>2, <2>1 DEF DueAsks
  <2>3. AtRest' /\ ~timer' => Answered'
    BY <1>0, <1>2, <2>1, ControlsAre, AnsweredStays
  <2> QED BY <2>2, <2>3 DEF ListAnswersControls, Answered
<1>3. CASE view' # "sessions" /\ UNCHANGED <<requests, awaited, profile, search, timer>>
  <2>1. ~AtRest' /\ Due' = Due
    BY <1>3 DEF AtRest, Due
  <2> QED BY <1>3, <2>1 DEF DueAsks, ListAnswersControls
<1>4. CASE timer' = TRUE
  BY <1>4 DEF DueAsks, ListAnswersControls
<1>5. CASE \E i \in DOMAIN requests : Serve(i) \/ RequestFails(i) \/ Receive(i)
  <2>1. PICK i \in DOMAIN requests : Serve(i) \/ RequestFails(i) \/ Receive(i)
    BY <1>5
  <2>2. UNCHANGED <<view, search, timer>>
    BY <2>1 DEF Serve, RequestFails, Receive
  <2>3. CASE UNCHANGED <<sessions, profile>> /\ (awaited' <=> awaited)
    <3>1. AtRest' <=> AtRest
      BY <2>2, <2>3 DEF AtRest
    <3>2. awaited' => Due'.ask = Due.ask
      BY <2>1, DueStays
    <3>3. DueAsks'
      BY <2>2, <2>3, <3>2 DEF DueAsks
    <3>4. AtRest' /\ ~timer' => Answered'
      BY <1>0, <2>2, <2>3, <3>1, ControlsAre, AnsweredStays
    <3> QED BY <3>3, <3>4 DEF ListAnswersControls, Answered
  <2>4. CASE Receive(i) /\ ~IsLatest(i)
    <3>1. UNCHANGED <<sessions, profile>> /\ (awaited' <=> awaited)
      BY <2>4 DEF Receive, IsLatest, DashboardTypeOK
    <3> QED BY <2>3, <3>1
  <2>5. CASE Receive(i) /\ IsLatest(i)
    <3>1. Due = requests[i] /\ awaited /\ ~awaited' /\ Due.answer # Nothing
      BY <2>5 DEF IsLatest, Due, Receive, DashboardTypeOK
    <3>2. DueAsks'
      BY <3>1 DEF DueAsks
    <3>3. CASE Due.answer = Failed
      <4>1. sessions' = [sessions EXCEPT !.error = TRUE]
        BY <2>5, <3>1, <3>3 DEF Receive
      <4>2. sessions'.error = TRUE
        BY <4>1 DEF DashboardTypeOK
      <4>3. ~AtRest'
        BY <4>2 DEF AtRest
      <4> QED BY <3>2, <4>3 DEF ListAnswersControls
    <3>4. CASE Due.answer # Failed
      <4> DEFINE from == Due.answer
                 ask == Due.ask
      <4>1. /\ sessions' = [page |-> ListedPage(from, ask), pages |-> ListedPages(from, ask),
                            ask |-> ask, from |-> from, error |-> FALSE]
            /\ profile' = IF profile \in ProfileFacets(Threads(from)) THEN profile ELSE Unset
        BY <2>5, <3>1, <3>4 DEF Receive
      <4>2. sessions'.from = from /\ sessions'.ask = ask /\ sessions'.page = ListedPage(from, ask)
        BY <4>1
      <4>3. ~timer => ask.search = search /\ ask.profile = profile
        BY <3>1 DEF DueAsks
      <4>4. ListedPage(sessions.from, sessions.ask)' = ListedPage(from, ask)
        BY <1>0, <4>2 DEF ListedPage, Found, Threads
      <4>5. ProfileFacets(Threads(sessions.from))' = ProfileFacets(Threads(from))
        BY <1>0, <4>2 DEF Threads
      <4> HIDE DEF from, ask
      <4>6. ~timer' => Answered'
        BY <2>2, <4>1, <4>2, <4>3, <4>4, <4>5 DEF Answered
      <4> QED BY <3>2, <4>6 DEF ListAnswersControls, Answered
    <3> QED BY <3>3, <3>4
  <2>6. CASE Serve(i) \/ RequestFails(i)
    BY <2>3, <2>6 DEF Serve, RequestFails
  <2> QED BY <2>1, <2>4, <2>5, <2>6
<1> QED BY <1>1, <1>2, <1>3, <1>4, <1>5, StepOfRequests

LEMMA ControlledNext == ASSUME TypeOK, Controlled, [Next]_vars PROVE Controlled'
<1>1. FeedTypeOK /\ UITypeOK /\ DashboardTypeOK /\ DueAsks /\ ListAnswersControls
  BY DEF TypeOK, Controlled
<1>2. CASE InDashboard(DashboardNext)
  BY <1>1, <1>2, ControlledStep DEF InDashboard, Controlled
<1>3. CASE ~InDashboard(DashboardNext)
  <2>1. UNCHANGED browserVars
    BY <1>3 DEF Next, InBoth, InUI, vars
  <2>2. feed' = feed
    <3>1. CASE InUI(UINext)
      BY <1>1, <3>1, UIType DEF InUI
    <3>2. CASE InBoth(Publish) \/ InBoth(Forward) \/ UNCHANGED vars
      BY <1>1, <3>2, FeedStep DEF InBoth, vars
    <3> QED BY <1>3, <3>1, <3>2 DEF Next
  <2>3. (AtRest' <=> AtRest) /\ Due' = Due
    BY <2>1 DEF AtRest, Due, browserVars
  <2>4. DueAsks'
    BY <1>1, <2>1, <2>3 DEF DueAsks, browserVars
  <2>5. AtRest' /\ ~timer' => Answered'
    BY <1>1, <2>1, <2>2, <2>3, ControlsAre, AnsweredStays DEF browserVars
  <2> QED BY <2>4, <2>5 DEF Controlled, ListAnswersControls, Answered
<1> QED BY <1>2, <1>3

(***************************************************************************)
(* At rest the list answers the profile, the search and the page the       *)
(* controls of the page show, whatever was clicked while answers were on   *)
(* their way; only a profile that is gone may be shown as not chosen.      *)
(***************************************************************************)
THEOREM ListAnswersWhatIsChosen == Spec => []ListAnswersControls
<1>1. Init => Controlled
  BY DEF Init, DashboardInit, Controlled, DueAsks, ListAnswersControls, AtRest
<1>2. TypeOK /\ Controlled /\ [Next]_vars => Controlled'
  BY ControlledNext
<1>3. Controlled => ListAnswersControls
  BY DEF Controlled
<1> QED BY <1>1, <1>2, <1>3, TypeCorrect, PTL DEF Spec
-----------------------------------------------------------------------------
(***************************************************************************)
(* The tree of subagents.  A walk is a function on 0..Len(list) + 1; what  *)
(* holds at its start and is kept by each step holds at its end, as there  *)
(* is no first number at which it fails.                                   *)
(***************************************************************************)
LEMMA Induction ==
    ASSUME NEW T, 0 \in T, \A n \in Nat : n \in T => n + 1 \in T
    PROVE  \A n \in Nat : n \in T
<1> DEFINE Less == {pair \in Nat \X Nat : pair[1] < pair[2]}
           missing == Nat \ T
<1> SUFFICES ASSUME missing # {} PROVE FALSE
  OBVIOUS
<1>1. IsWellFoundedOn(Less, Nat)
  BY NatLessThanWellFounded DEF OpToRel
<1>2. missing \subseteq Nat
  OBVIOUS
<1>3. PICK n \in missing : \A m \in missing : ~(<<m, n>> \in Less)
  BY <1>1, <1>2, WFMin
<1>4. n \in Nat /\ n # 0 /\ n - 1 \in Nat /\ <<n - 1, n>> \in Less
  BY <1>3
<1>5. n - 1 \in T
  BY <1>3, <1>4
<1>6. n - 1 + 1 = n
  BY <1>4
<1> QED
  BY <1>3, <1>4, <1>5, <1>6

Steps(list, session, f, m) ==
    f = [n \in 0..m |-> IF n = 0 THEN StartWalk(session) ELSE Advance(list, f[n - 1])]

LEMMA StepsExist ==
    ASSUME NEW list, NEW session, NEW m \in Nat
    PROVE  \E f : Steps(list, session, f, m)
<1> DEFINE T == {n \in Nat : \E f : Steps(list, session, f, n)}
<1>1. 0 \in T
  <2> DEFINE f == [n \in 0..0 |-> StartWalk(session)]
  <2>1. Steps(list, session, f, 0)
    BY DEF Steps
  <2> QED
    BY <2>1
<1>2. ASSUME NEW n \in Nat, n \in T
      PROVE  n + 1 \in T
  <2>1. PICK f : Steps(list, session, f, n)
    BY <1>2
  <2> DEFINE g == [k \in 0..(n + 1) |-> IF k = n + 1 THEN Advance(list, f[n]) ELSE f[k]]
  <2>2. \A k \in 0..n : f[k] = IF k = 0 THEN StartWalk(session) ELSE Advance(list, f[k - 1])
    BY <2>1 DEF Steps
  <2>3. \A k \in 0..(n + 1) : g[k] = IF k = 0 THEN StartWalk(session) ELSE Advance(list, g[k - 1])
    <3> TAKE k \in 0..(n + 1)
    <3>1. CASE k = n + 1
      BY <3>1
    <3>2. CASE k # n + 1
      BY <2>2, <3>2
    <3> QED
      BY <3>1, <3>2
  <2>4. Steps(list, session, g, n + 1)
    BY <2>3 DEF Steps
  <2> QED
    BY <2>4
<1> HIDE DEF T
<1>3. \A n \in Nat : n \in T
  BY <1>1, <1>2, Induction
<1> QED
  BY <1>3 DEF T

LEMMA WalkSteps ==
    ASSUME NEW list, NEW session, Len(list) \in Nat
    PROVE  \E f : Steps(list, session, f, Len(list) + 1) /\ Walk(list, session) = f[Len(list) + 1]
<1> DEFINE walk[n \in 0..(Len(list) + 1)] ==
          IF n = 0 THEN StartWalk(session) ELSE Advance(list, walk[n - 1])
<1>1. Walk(list, session) = walk[Len(list) + 1]
  BY DEF Walk
<1>2. \E f : Steps(list, session, f, Len(list) + 1)
  BY StepsExist
<1>3. Steps(list, session, walk, Len(list) + 1)
  BY <1>2 DEF Steps
<1> QED
  BY <1>1, <1>3
-----------------------------------------------------------------------------
LEMMA Greatest ==
    ASSUME NEW n \in Nat, NEW S \in SUBSET (1..n), S # {}
    PROVE  \E i \in S : \A j \in S : i >= j
<1> DEFINE above == {m \in Nat : \A j \in S : j <= n - m}
<1> SUFFICES ASSUME \A i \in S : \E j \in S : ~(i >= j)
             PROVE  FALSE
  OBVIOUS
<1>1. 0 \in above
  OBVIOUS
<1>2. ASSUME NEW m \in Nat, m \in above
      PROVE  m + 1 \in above
  <2> SUFFICES ASSUME NEW j \in S PROVE j <= n - (m + 1)
    OBVIOUS
  <2>1. PICK k \in S : ~(j >= k)
    OBVIOUS
  <2>2. k <= n - m /\ j \in 1..n /\ k \in 1..n
    BY <1>2
  <2> QED
    BY <2>1, <2>2
<1> HIDE DEF above
<1>3. n \in above
  BY <1>1, <1>2, Induction
<1>4. PICK j \in S : TRUE
  OBVIOUS
<1>5. j <= n - n /\ j \in 1..n
  BY <1>3 DEF above
<1> QED
  BY <1>5

LEMMA Lookup ==
    ASSUME NEW list \in Seq(Thread), NEW id, Known(list, id)
    PROVE  ById(list, id) \in ToSet(list) /\ ById(list, id) \in Thread
<1> DEFINE I == {i \in 1..Len(list) : list[i].id = id}
<1>1. Len(list) \in Nat /\ DOMAIN list = 1..Len(list)
  OBVIOUS
<1>2. I \in SUBSET (1..Len(list)) /\ I # {}
  BY <1>1 DEF Known, ToSet
<1>3. \E i \in I : \A j \in I : i >= j
  BY <1>1, <1>2, Greatest
<1>4. Max(I) \in I
  BY <1>3 DEF Max
<1>5. ById(list, id) = list[Max(I)]
  BY <1>2 DEF ById, SelectLastInSeq
<1> HIDE DEF I
<1>6. Max(I) \in 1..Len(list)
  BY <1>2, <1>4
<1> QED
  BY <1>1, <1>5, <1>6 DEF ToSet

Listed(list) == {id \in ThreadIds : Known(list, id)}

LEMMA FewListed ==
    ASSUME NEW list \in Seq(Thread)
    PROVE  IsFiniteSet(Listed(list)) /\ Cardinality(Listed(list)) <= Len(list)
<1> DEFINE f == [i \in 1..Len(list) |-> list[i].id]
<1>1. Len(list) \in Nat /\ DOMAIN list = 1..Len(list)
  OBVIOUS
<1>2. f \in Surjection(1..Len(list), Listed(list))
  <2>1. \A i \in 1..Len(list) : f[i] \in Listed(list)
    <3> TAKE i \in 1..Len(list)
    <3>1. list[i] \in Thread /\ list[i] \in ToSet(list)
      BY <1>1 DEF ToSet
    <3> QED
      BY <3>1 DEF Listed, Known, Thread
  <2>2. \A id \in Listed(list) : \E i \in 1..Len(list) : f[i] = id
    BY <1>1 DEF Listed, Known, ToSet
  <2> QED
    BY <2>1, <2>2 DEF Surjection
<1>3. IsFiniteSet(1..Len(list)) /\ Cardinality(1..Len(list)) = Len(list)
  BY <1>1, FS_Interval
<1> HIDE DEF f
<1> QED
  BY <1>2, <1>3, FS_Surjection

(***************************************************************************)
(* The ancestors are the least set that has the parent and is closed.      *)
(***************************************************************************)
Passed(list, session, id) ==
    id # session.id /\ Known(list, id) /\ ~IsRoot(ById(list, id))

ClosedUp(list, session, ids) ==
    /\ session.parent \in ids
    /\ \A id \in ids : Passed(list, session, id) => ById(list, id).parent \in ids

LEMMA AncestorsLeast ==
    ASSUME NEW list, NEW session, NEW ids \in SUBSET ThreadIds, ClosedUp(list, session, ids)
    PROVE  Ancestors(list, session) \subseteq ids
BY DEF Ancestors, ClosedUp, Passed

LEMMA AncestorsClosed ==
    ASSUME NEW list \in Seq(Thread), NEW session, session.parent \in ThreadIds
    PROVE  ClosedUp(list, session, Ancestors(list, session))
<1> DEFINE all == {ids \in SUBSET ThreadIds : ClosedUp(list, session, ids)}
<1>1. Ancestors(list, session) = {id \in ThreadIds : \A ids \in all : id \in ids}
  BY DEF Ancestors, ClosedUp, Passed
<1>2. session.parent \in Ancestors(list, session)
  BY <1>1 DEF ClosedUp
<1>3. ASSUME NEW id \in Ancestors(list, session), Passed(list, session, id)
      PROVE  ById(list, id).parent \in Ancestors(list, session)
  <2>1. ById(list, id).parent \in ThreadIds
    BY <1>3, Lookup DEF Passed, IsRoot, Thread
  <2>2. \A ids \in all : ById(list, id).parent \in ids
    BY <1>1, <1>3 DEF ClosedUp
  <2> QED
    BY <1>1, <2>1, <2>2
<1> QED
  BY <1>2, <1>3 DEF ClosedUp
-----------------------------------------------------------------------------
(***************************************************************************)
(* A walk has seen the session and part of its ancestors, as many as depth *)
(* says, and each of these but the last leads on.                          *)
(***************************************************************************)
Visited(session, w) == w.seen \ {session.id}

LeadOn(list, ids, seen) ==
    \A id \in ids : Known(list, id) /\ ~IsRoot(ById(list, id)) /\ ById(list, id).parent \in seen

WalkShape(w) ==
    /\ w = [parent |-> w.parent, seen |-> w.seen, depth |-> w.depth, end |-> w.end, task |-> w.task]
    /\ w.end \in {"none", "cycle", "orphan", "task"}
    /\ w.parent \in ThreadIds /\ w.seen \subseteq ThreadIds /\ IsFiniteSet(w.seen)

Climbed(list, session, w) ==
    LET visited == Visited(session, w) IN
    /\ session.id \in w.seen /\ w.depth = Cardinality(visited)
    /\ visited \cup {w.parent} \subseteq Ancestors(list, session)
    /\ session.parent \in visited \cup {w.parent}
    /\ w.end \in {"none", "cycle"} => LeadOn(list, visited, visited \cup {w.parent}) /\ w.task = Unset
    /\ w.end = "cycle" => w.parent \in w.seen
    /\ w.end \in {"orphan", "task"} => w.parent \in visited /\ LeadOn(list, visited \ {w.parent}, visited)
    /\ w.end = "orphan" => ~Known(list, w.parent) /\ w.task = Unset
    /\ w.end = "task" => Known(list, w.parent) /\ IsRoot(ById(list, w.parent)) /\ w.task = w.parent

WalkInv(list, session, w) == WalkShape(w) /\ Climbed(list, session, w)

IsSubagent(list, session) == session \in ToSet(list) /\ ~IsRoot(session)

LEMMA SubagentType ==
    ASSUME NEW list \in Seq(Thread), NEW session, IsSubagent(list, session)
    PROVE  /\ session \in Thread /\ session.id \in ThreadIds /\ session.parent \in ThreadIds
           /\ Known(list, session.id)
<1>1. session \in Thread
  BY DEF IsSubagent, ToSet
<1>2. Known(list, session.id)
  BY DEF IsSubagent, Known
<1> QED
  BY <1>1, <1>2 DEF IsSubagent, IsRoot, Thread

LEMMA StartInv ==
    ASSUME NEW list \in Seq(Thread), NEW session, IsSubagent(list, session)
    PROVE  WalkInv(list, session, StartWalk(session)) /\ StartWalk(session).depth = 0
<1> DEFINE w == StartWalk(session)
<1>1. w = [parent |-> session.parent, seen |-> {session.id}, depth |-> 0, end |-> "none", task |-> Unset]
  BY DEF StartWalk
<1>2. /\ w.parent = session.parent /\ w.seen = {session.id} /\ w.depth = 0 /\ w.end = "none"
      /\ w.task = Unset
  BY <1>1
<1> HIDE DEF w
<1>3. IsFiniteSet({session.id}) /\ Cardinality({}) = 0
  BY FS_Singleton, FS_EmptySet
<1>4. WalkShape(w)
  BY <1>1, <1>2, <1>3, SubagentType DEF WalkShape
<1>5. Visited(session, w) = {}
  BY <1>2 DEF Visited
<1>6. session.parent \in Ancestors(list, session)
  BY AncestorsClosed, SubagentType DEF ClosedUp
<1>7. Climbed(list, session, w)
  BY <1>2, <1>3, <1>5, <1>6 DEF Climbed, LeadOn
<1> QED
  BY <1>2, <1>4, <1>7 DEF WalkInv, w

(***************************************************************************)
(* The next ancestor is new, or the walk goes round.                       *)
(***************************************************************************)
LEMMA AdvanceShape ==
    ASSUME NEW list, NEW w, WalkShape(w), w.end = "none"
    PROVE  LET id == w.parent
               seen == w.seen \cup {id}
               Up(to, end, task) ==
                 [parent |-> to, seen |-> seen, depth |-> w.depth + 1, end |-> end, task |-> task]
           IN /\ id \in w.seen => Advance(list, w) = [parent |-> id, seen |-> w.seen, depth |-> w.depth,
                                                     end |-> "cycle", task |-> w.task]
              /\ id \notin w.seen /\ ~Known(list, id) => Advance(list, w) = Up(id, "orphan", w.task)
              /\ id \notin w.seen /\ Known(list, id) /\ IsRoot(ById(list, id))
                   => Advance(list, w) = Up(id, "task", id)
              /\ id \notin w.seen /\ Known(list, id) /\ ~IsRoot(ById(list, id))
                   => Advance(list, w) = Up(ById(list, id).parent, "none", w.task)
<1> DEFINE fields == {"parent", "seen", "depth", "end", "task"}
           id == w.parent
           up == [w EXCEPT !.seen = w.seen \cup {id}, !.depth = w.depth + 1]
<1>1. w = [x \in fields |-> w[x]]
  BY DEF WalkShape
<1>2. up = [x \in fields |-> IF x = "depth" THEN w.depth + 1
                             ELSE IF x = "seen" THEN w.seen \cup {id} ELSE w[x]]
  BY <1>1
<1>3. Advance(list, w) =
        IF id \in w.seen THEN [w EXCEPT !.end = "cycle"]
        ELSE IF ~Known(list, id) THEN [up EXCEPT !.end = "orphan"]
        ELSE IF IsRoot(ById(list, id)) THEN [up EXCEPT !.end = "task", !.task = id]
        ELSE [up EXCEPT !.parent = ById(list, id).parent]
  BY DEF Advance
<1> HIDE DEF up
<1>4. \A e : [w EXCEPT !.end = e] = [x \in fields |-> IF x = "end" THEN e ELSE w[x]]
  BY <1>1
<1>5. \A e : [up EXCEPT !.end = e] = [x \in fields |-> IF x = "end" THEN e ELSE up[x]]
  BY <1>2
<1>6. \A t : [up EXCEPT !.end = "task", !.task = t]
               = [x \in fields |-> IF x = "task" THEN t ELSE IF x = "end" THEN "task" ELSE up[x]]
  BY <1>2
<1>7. \A t : [up EXCEPT !.parent = t] = [x \in fields |-> IF x = "parent" THEN t ELSE up[x]]
  BY <1>2
<1>8. up.parent = id /\ up.seen = w.seen \cup {id} /\ up.depth = w.depth + 1 /\ up.end = "none"
      /\ up.task = w.task
  BY <1>2
<1> HIDE DEF id
<1>9. CASE id \in w.seen
  BY <1>3, <1>4, <1>9 DEF id
<1>10. CASE id \notin w.seen /\ ~Known(list, id)
  BY <1>3, <1>5, <1>8, <1>10 DEF id
<1>11. CASE id \notin w.seen /\ Known(list, id) /\ IsRoot(ById(list, id))
  BY <1>3, <1>6, <1>8, <1>11 DEF id
<1>12. CASE id \notin w.seen /\ Known(list, id) /\ ~IsRoot(ById(list, id))
  BY <1>3, <1>7, <1>8, <1>12 DEF id
<1> QED
  BY <1>9, <1>10, <1>11, <1>12

LEMMA AdvanceInv ==
    ASSUME NEW list \in Seq(Thread), NEW session, IsSubagent(list, session),
           NEW w, WalkInv(list, session, w)
    PROVE  LET v == Advance(list, w) IN
           /\ WalkInv(list, session, v)
           /\ v.end = "none" => w.end = "none" /\ v.depth = w.depth + 1
<1> DEFINE v == Advance(list, w)
           id == w.parent
           visited == Visited(session, w)
           Up(to, end, task) == [parent |-> to, seen |-> w.seen \cup {id}, depth |-> w.depth + 1,
                                 end |-> end, task |-> task]
           ahead == visited \cup {id}
<1> USE DEF WalkInv
<1>1. CASE w.end # "none"
  <2>1. v = w
    BY <1>1 DEF Advance
  <2> QED
    BY <1>1, <2>1
<1>2. CASE w.end = "none"
  <2>1. /\ id \in w.seen => v = [parent |-> id, seen |-> w.seen, depth |-> w.depth,
                                 end |-> "cycle", task |-> w.task]
        /\ id \notin w.seen /\ ~Known(list, id) => v = Up(id, "orphan", w.task)
        /\ id \notin w.seen /\ Known(list, id) /\ IsRoot(ById(list, id)) => v = Up(id, "task", id)
        /\ id \notin w.seen /\ Known(list, id) /\ ~IsRoot(ById(list, id))
             => v = Up(ById(list, id).parent, "none", w.task)
    BY <1>2, AdvanceShape
  <2>2. /\ id \in ThreadIds /\ w.seen \subseteq ThreadIds /\ IsFiniteSet(w.seen)
        /\ session.id \in w.seen /\ w.depth = Cardinality(visited) /\ visited \subseteq w.seen
        /\ ahead \subseteq Ancestors(list, session) /\ session.parent \in ahead
        /\ LeadOn(list, visited, ahead) /\ w.task = Unset
    BY <1>2 DEF WalkShape, Climbed, Visited
  <2> HIDE DEF v
  <2>3. CASE id \in w.seen
    <3>1. /\ v = [parent |-> v.parent, seen |-> v.seen, depth |-> v.depth, end |-> v.end, task |-> v.task]
          /\ v.parent = id /\ v.seen = w.seen /\ v.depth = w.depth /\ v.end = "cycle" /\ v.task = Unset
      BY <2>1, <2>2, <2>3
    <3>2. WalkShape(v)
      BY <2>2, <3>1 DEF WalkShape
    <3>3. Visited(session, v) = visited
      BY <3>1 DEF Visited
    <3> HIDE DEF visited
    <3>4. Climbed(list, session, v)
      BY <2>2, <2>3, <3>1, <3>3 DEF Climbed
    <3> QED
      BY <3>1, <3>2, <3>4 DEF v
  <2>4. CASE id \notin w.seen
    <3>1. id # session.id /\ id \notin visited
      BY <2>2, <2>4
    <3>2. IsFiniteSet(w.seen \cup {id}) /\ IsFiniteSet(visited)
      BY <2>2, FS_AddElement, FS_Subset
    <3>3. Cardinality(ahead) = w.depth + 1
      <4> HIDE DEF visited
      <4> QED
        BY <2>2, <3>1, <3>2, FS_AddElement
    <3>4. ASSUME NEW to \in ThreadIds, NEW end, NEW task, v = Up(to, end, task), end \in {"none", "orphan", "task"}
          PROVE  /\ WalkShape(v) /\ Visited(session, v) = ahead /\ session.id \in v.seen
                 /\ v.parent = to /\ v.depth = Cardinality(ahead) /\ v.end = end /\ v.task = task
      <4>1. /\ v = [parent |-> v.parent, seen |-> v.seen, depth |-> v.depth, end |-> v.end, task |-> v.task]
            /\ v.parent = to /\ v.seen = w.seen \cup {id} /\ v.depth = w.depth + 1 /\ v.end = end
            /\ v.task = task
        BY <3>4
      <4>2. WalkShape(v)
        BY <2>2, <3>2, <3>4, <4>1 DEF WalkShape
      <4>3. Visited(session, v) = ahead
        BY <3>1, <4>1 DEF Visited
      <4> HIDE DEF ahead
      <4> QED
        BY <2>2, <3>3, <4>1, <4>2, <4>3
    <3>5. CASE ~Known(list, id)
      <4>1. v = Up(id, "orphan", Unset)
        BY <2>1, <2>2, <2>4, <3>5
      <4>2. ahead \ {id} = visited /\ ahead \cup {id} = ahead
        BY <3>1
      <4>3. /\ WalkShape(v) /\ Visited(session, v) = ahead /\ session.id \in v.seen
            /\ v.parent = id /\ v.depth = Cardinality(ahead) /\ v.end = "orphan" /\ v.task = Unset
        BY <2>2, <3>4, <4>1
      <4>4. id \in ahead
        OBVIOUS
      <4> HIDE DEF ahead, visited
      <4>5. Climbed(list, session, v)
        BY <2>2, <3>5, <4>2, <4>3, <4>4 DEF Climbed
      <4> QED
        BY <4>3, <4>5 DEF v
    <3>6. CASE Known(list, id) /\ IsRoot(ById(list, id))
      <4>1. v = Up(id, "task", id)
        BY <2>1, <2>4, <3>6
      <4>2. ahead \ {id} = visited /\ ahead \cup {id} = ahead
        BY <3>1
      <4>3. /\ WalkShape(v) /\ Visited(session, v) = ahead /\ session.id \in v.seen
            /\ v.parent = id /\ v.depth = Cardinality(ahead) /\ v.end = "task" /\ v.task = id
        BY <2>2, <3>4, <4>1
      <4>4. id \in ahead
        OBVIOUS
      <4> HIDE DEF ahead, visited
      <4>5. Climbed(list, session, v)
        BY <2>2, <3>6, <4>2, <4>3, <4>4 DEF Climbed
      <4> QED
        BY <4>3, <4>5 DEF v
    <3>7. CASE Known(list, id) /\ ~IsRoot(ById(list, id))
      <4> DEFINE to == ById(list, id).parent
      <4>1. v = Up(to, "none", Unset)
        BY <2>1, <2>2, <2>4, <3>7
      <4>2. to \in ThreadIds
        BY <3>7, Lookup DEF IsRoot, Thread
      <4>3. to \in Ancestors(list, session)
        BY <2>2, <3>1, <3>7, AncestorsClosed, SubagentType DEF ClosedUp, Passed
      <4>4. LeadOn(list, ahead, ahead \cup {to})
        BY <2>2, <3>7 DEF LeadOn
      <4>5. /\ WalkShape(v) /\ Visited(session, v) = ahead /\ session.id \in v.seen
            /\ v.parent = to /\ v.depth = Cardinality(ahead) /\ v.end = "none" /\ v.task = Unset
        BY <3>4, <4>1, <4>2
      <4> HIDE DEF to
      <4>6. v.depth = w.depth + 1
        BY <3>3, <4>5
      <4> HIDE DEF ahead
      <4>7. Climbed(list, session, v)
        BY <2>2, <4>3, <4>4, <4>5 DEF Climbed
      <4> QED
        BY <1>2, <4>5, <4>6, <4>7 DEF v
    <3> QED
      BY <3>5, <3>6, <3>7
  <2> QED
    BY <2>3, <2>4
<1> QED
  BY <1>1, <1>2
LEMMA WalkEnds ==
    ASSUME NEW list \in Seq(Thread), NEW session, IsSubagent(list, session)
    PROVE  LET w == Walk(list, session) IN WalkInv(list, session, w) /\ w.end # "none"
<1> DEFINE top == Len(list) + 1
<1>1. top \in Nat /\ Len(list) \in Nat /\ top > Len(list)
  OBVIOUS
<1>2. PICK f : Steps(list, session, f, top) /\ Walk(list, session) = f[top]
  BY <1>1, WalkSteps
<1> DEFINE T == {n \in Nat : n <= top => /\ WalkInv(list, session, f[n])
                                         /\ f[n].end = "none" => f[n].depth = n}
<1> HIDE DEF top
<1>3. /\ f[0] = StartWalk(session)
      /\ \A n \in Nat : n + 1 <= top => f[n + 1] = Advance(list, f[n])
  <2>1. \A n \in 0..top : f[n] = IF n = 0 THEN StartWalk(session) ELSE Advance(list, f[n - 1])
    BY <1>1, <1>2 DEF Steps
  <2>2. f[0] = StartWalk(session)
    BY <1>1, <2>1
  <2>3. ASSUME NEW n \in Nat, n + 1 <= top
        PROVE  f[n + 1] = Advance(list, f[n])
    <3>1. n + 1 \in 0..top /\ n + 1 # 0 /\ (n + 1) - 1 = n
      BY <1>1, <2>3
    <3> QED
      BY <2>1, <3>1
  <2> QED
    BY <2>2, <2>3
<1>4. 0 \in T
  BY <1>3, StartInv
<1>5. ASSUME NEW n \in Nat, n \in T
      PROVE  n + 1 \in T
  <2> SUFFICES ASSUME n + 1 <= top
               PROVE  /\ WalkInv(list, session, f[n + 1])
                      /\ f[n + 1].end = "none" => f[n + 1].depth = n + 1
    OBVIOUS
  <2>1. WalkInv(list, session, f[n]) /\ (f[n].end = "none" => f[n].depth = n)
    BY <1>1, <1>5
  <2>2. /\ WalkInv(list, session, f[n + 1])
        /\ f[n + 1].end = "none" => f[n].end = "none" /\ f[n + 1].depth = f[n].depth + 1
    BY <1>3, <2>1, AdvanceInv
  <2> QED
    BY <2>1, <2>2
<1> HIDE DEF T
<1>6. top \in T
  BY <1>1, <1>4, <1>5, Induction
<1>7. WalkInv(list, session, f[top]) /\ (f[top].end = "none" => f[top].depth = top)
  BY <1>1, <1>6 DEF T
<1>8. ASSUME f[top].end = "none"
      PROVE  FALSE
  <2> DEFINE visited == Visited(session, f[top])
  <2>1. visited \subseteq ThreadIds /\ LeadOn(list, visited, visited \cup {f[top].parent})
    BY <1>7, <1>8 DEF WalkInv, WalkShape, Climbed, Visited
  <2>2. visited \in SUBSET Listed(list)
    BY <2>1 DEF LeadOn, Listed
  <2>3. Cardinality(visited) = top
    BY <1>7, <1>8 DEF WalkInv, Climbed
  <2> HIDE DEF visited
  <2>4. IsFiniteSet(Listed(list)) /\ Cardinality(Listed(list)) <= Len(list)
    BY FewListed
  <2>5. Cardinality(Listed(list)) \in Nat
    BY <2>4, FS_CardinalityType
  <2>6. top <= Cardinality(Listed(list))
    BY <2>2, <2>3, <2>4, FS_Subset
  <2> QED
    BY <1>1, <2>4, <2>5, <2>6
<1> QED
  BY <1>2, <1>7, <1>8
(***************************************************************************)
(* Where a walk ends it has seen all ancestors.                            *)
(***************************************************************************)
LEMMA AllClimbed ==
    ASSUME NEW list \in Seq(Thread), NEW session, IsSubagent(list, session),
           NEW w, WalkInv(list, session, w), w.end # "none"
    PROVE  /\ Ancestors(list, session) = Visited(session, w) \cup {w.parent}
           /\ Ancestors(list, session) \ {session.id} = Visited(session, w)
           /\ w.end \in {"orphan", "task"} => session.id \notin Ancestors(list, session)
<1> DEFINE visited == Visited(session, w)
           all == visited \cup {w.parent}
<1>1. /\ w.end \in {"cycle", "orphan", "task"} /\ w.parent \in ThreadIds /\ visited \subseteq ThreadIds
      /\ visited \cup {w.parent} \subseteq Ancestors(list, session)
      /\ session.parent \in all
      /\ w.end = "cycle" => LeadOn(list, visited, all) /\ w.parent \in w.seen
      /\ w.end \in {"orphan", "task"} => w.parent \in visited /\ LeadOn(list, visited \ {w.parent}, visited)
      /\ w.end = "orphan" => ~Known(list, w.parent)
      /\ w.end = "task" => IsRoot(ById(list, w.parent))
  BY DEF WalkInv, WalkShape, Climbed, Visited
<1>2. session.id \notin visited /\ (w.parent \in w.seen => w.parent \in visited \cup {session.id})
  BY DEF Visited
<1> HIDE DEF visited
<1>3. ASSUME NEW id \in all, Passed(list, session, id)
      PROVE  ById(list, id).parent \in all
  <2>1. CASE w.end = "cycle"
    <3>1. id \in visited
      BY <1>1, <1>2, <1>3, <2>1 DEF Passed
    <3> QED
      BY <1>1, <2>1, <3>1 DEF LeadOn
  <2>2. CASE w.end \in {"orphan", "task"}
    <3>1. id # w.parent
      BY <1>1, <1>3, <2>2 DEF Passed
    <3> QED
      BY <1>1, <1>3, <2>2, <3>1 DEF LeadOn
  <2> QED
    BY <1>1, <2>1, <2>2
<1>4. ClosedUp(list, session, all)
  BY <1>1, <1>3 DEF ClosedUp
<1>5. all \in SUBSET ThreadIds
  BY <1>1
<1> HIDE DEF all
<1>6. Ancestors(list, session) \subseteq all
  BY <1>4, <1>5, AncestorsLeast
<1>7. Ancestors(list, session) = all
  BY <1>1, <1>6 DEF all
<1> QED
  BY <1>1, <1>2, <1>7 DEF all, visited

(***************************************************************************)
(* snapshot.go:240: for any table, whatever its threads name as parents,   *)
(* the walk from a subagent ends where its ancestors do, and depth is      *)
(* their number.                                                           *)
(***************************************************************************)
THEOREM WalksPlaceSubagents ==
    ASSUME NEW list \in Seq(Thread), NEW session, IsSubagent(list, session)
    PROVE  Placed(list, session, Subagent(list, session))
<1> DEFINE w == Walk(list, session)
           node == Subagent(list, session)
           ancestors == Ancestors(list, session)
           roots == {id \in ancestors : Known(list, id) /\ IsRoot(ById(list, id))}
           unknown == {id \in ancestors : ~Known(list, id)}
           visited == Visited(session, w)
<1>1. /\ node.task = w.task /\ node.depth = w.depth
      /\ node.orphan = (w.end = "orphan") /\ node.cycle = (w.end = "cycle")
  BY DEF Subagent
<1>2. WalkInv(list, session, w) /\ w.end # "none"
  BY WalkEnds
<1> HIDE DEF w, node
<1>3. /\ ancestors = visited \cup {w.parent} /\ ancestors \ {session.id} = visited
      /\ w.end \in {"orphan", "task"} => session.id \notin ancestors
  BY <1>2, AllClimbed
<1>4. /\ w.depth = Cardinality(visited) /\ w.end \in {"cycle", "orphan", "task"}
      /\ w.end = "cycle" => LeadOn(list, visited, ancestors) /\ w.task = Unset
      /\ w.end \in {"orphan", "task"} => LeadOn(list, visited \ {w.parent}, visited)
      /\ w.end = "orphan" => ~Known(list, w.parent) /\ w.task = Unset
      /\ w.end = "task" => Known(list, w.parent) /\ IsRoot(ById(list, w.parent)) /\ w.task = w.parent
  BY <1>2, <1>3 DEF WalkInv, WalkShape, Climbed
<1> HIDE DEF ancestors, visited
<1>5. CASE w.end = "cycle"
  <2>1. session.id \in ancestors \/ (unknown = {} /\ roots = {})
    BY <1>3, <1>4, <1>5 DEF LeadOn
  <2>2. ~(unknown # {} /\ session.id \notin ancestors)
    BY <1>3, <1>4, <1>5 DEF LeadOn
  <2> HIDE DEF unknown, roots
  <2>3. /\ node.orphan <=> unknown # {} /\ session.id \notin ancestors
        /\ node.cycle <=> session.id \in ancestors \/ (unknown = {} /\ roots = {})
        /\ node.task = IF node.orphan \/ node.cycle THEN Unset ELSE CHOOSE id \in roots : TRUE
        /\ node.depth = Cardinality(ancestors \ {session.id})
    BY <1>1, <1>3, <1>4, <1>5, <2>1, <2>2
  <2> QED
    BY <2>3 DEF Placed, ancestors, unknown, roots, node
<1>6. CASE w.end = "orphan"
  <2>1. unknown # {} /\ session.id \notin ancestors
    BY <1>3, <1>4, <1>6
  <2> HIDE DEF unknown, roots
  <2>3. /\ node.orphan <=> unknown # {} /\ session.id \notin ancestors
        /\ node.cycle <=> session.id \in ancestors \/ (unknown = {} /\ roots = {})
        /\ node.task = IF node.orphan \/ node.cycle THEN Unset ELSE CHOOSE id \in roots : TRUE
        /\ node.depth = Cardinality(ancestors \ {session.id})
    BY <1>1, <1>3, <1>4, <1>6, <2>1
  <2> QED
    BY <2>3 DEF Placed, ancestors, unknown, roots, node
<1>7. CASE w.end = "task"
  <2>1. unknown = {} /\ session.id \notin ancestors
    BY <1>3, <1>4, <1>7 DEF LeadOn
  <2>2. roots = {w.parent}
    BY <1>3, <1>4, <1>7 DEF LeadOn
  <2> HIDE DEF unknown, roots
  <2>3. w.task = CHOOSE id \in roots : TRUE
    BY <1>4, <1>7, <2>2
  <2>4. /\ node.orphan <=> unknown # {} /\ session.id \notin ancestors
        /\ node.cycle <=> session.id \in ancestors \/ (unknown = {} /\ roots = {})
        /\ node.task = IF node.orphan \/ node.cycle THEN Unset ELSE CHOOSE id \in roots : TRUE
        /\ node.depth = Cardinality(ancestors \ {session.id})
    BY <1>1, <1>3, <1>4, <1>7, <2>1, <2>2, <2>3
  <2> QED
    BY <2>4 DEF Placed, ancestors, unknown, roots, node
<1> QED
  BY <1>4, <1>5, <1>6, <1>7

LEMMA OrdersType ==
    ASSUME NEW threads \in Seq(Thread), NEW list \in Orders(threads)
    PROVE  list \in Seq(Thread)
<1> DEFINE positions == DOMAIN threads
<1>1. PICK order \in Bijection(positions, positions) : list = [i \in positions |-> threads[order[i]]]
  BY DEF Orders
<1>2. positions = 1..Len(threads) /\ Len(threads) \in Nat /\ \A i \in positions : threads[i] \in Thread
  OBVIOUS
<1>3. \A i \in positions : order[i] \in positions
  BY DEF Bijection, Injection
<1> QED
  BY <1>1, <1>2, <1>3

(***************************************************************************)
(* snapshot.go:223: so in every snapshot each subagent is placed right,    *)
(* whatever the app-servers report and in whatever order sessions of one   *)
(* time are sorted.                                                        *)
(***************************************************************************)
THEOREM SubagentsArePlaced == Spec => []SubagentsPlaced
<1>1. ASSUME TypeOK
      PROVE  SubagentsPlaced
  <2> SUFFICES ASSUME NEW list \in Orders(Threads(current)), NEW node \in Subagents(list)
               PROVE  \E x \in ToSet(list) : /\ x.id = node.id /\ x.profile = node.profile
                                             /\ Placed(list, x, node)
    BY DEF SubagentsPlaced
  <2>1. list \in Seq(Thread)
    BY <1>1, ThreadsType, OrdersType DEF TypeOK, FeedTypeOK
  <2>2. PICK x \in ToSet(list) : ~IsRoot(x) /\ node = Subagent(list, x)
    BY DEF Subagents
  <2>3. node.id = x.id /\ node.profile = x.profile
    BY <2>2 DEF Subagent
  <2>4. Placed(list, x, node)
    BY <2>1, <2>2, WalksPlaceSubagents DEF IsSubagent
  <2> QED
    BY <2>2, <2>3, <2>4
<1> QED BY <1>1, TypeCorrect, PTL
=============================================================================
