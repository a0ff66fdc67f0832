--------------------------- MODULE MonitorService ---------------------------
(***************************************************************************)
(* How the monitor follows the threads of one profile's app-server: the    *)
(* RPC client (appserver/client.go), whose reader goroutine hands answers  *)
(* to the calls that wait for them and queues notifications, and the       *)
(* goroutine of the profile (monitor/service.go), which connects, lists    *)
(* the threads now and then, applies notifications and publishes.          *)
(*                                                                         *)
(* The app-server is the environment.  One connection carries its answers  *)
(* and notifications in order.                                             *)
(***************************************************************************)
EXTENDS SnapshotStore, FiniteSets, SequencesExt

CONSTANTS
    Threads,    \* thread ids
    QueueSize,  \* notifications a client keeps (256 in the code)
    MaxRetries, \* how often an overloaded call is repeated (4 in the code)
    Ids,        \* request ids, reused when nothing refers to them any more
    MaxEvents,  \* bound on changes of threads and on faults: overloads,
                \* timeouts, lost connections, outages
    None

ASSUME QueueAssumption == QueueSize \in Nat \ {0} /\ Ids \subseteq Nat /\ None \notin Ids
ASSUME BoundAssumption == IsFiniteSet(Threads) /\ MaxRetries \in Nat /\ MaxEvents \in Nat

VARIABLES
    place,    \* where the app-server keeps each thread
    up,       \* whether the app-server can be reached
    linked,   \* whether the connection is alive
    requests, \* requests it has not answered
    wire,     \* what it has sent on the connection
    notes,    \* the client's queue of notifications
    stage,    \* what the goroutine of the profile is doing
    calls,    \* its two calls of thread/list
    events

server == <<place, up>>
link == <<linked, requests, wire>>
watcher == <<stage, calls, notes>>
vars == <<storeVars, server, link, watcher, events>>

Lists == {"open", "archived"}
Entry == [id : Threads, archived : BOOLEAN, model : BOOLEAN]
Note == [kind : {"started", "open", "archived", "deleted", "model"}, thread : Threads]

(***************************************************************************)
(* An answer names its request.  given is history: whether the client has  *)
(* given the request up.                                                   *)
(***************************************************************************)
Answer == [id : Ids, list : Lists, threads : Seq(Threads), overload : BOOLEAN, given : BOOLEAN]
Request == [id : Ids, list : Lists, given : BOOLEAN]
Call == [state : {"none", "asked", "backoff", "done", "failed"},
         id : Ids \cup {None}, tries : 0..MaxRetries, answer : Answer \cup {None}]
NoCall == [state |-> "none", id |-> None, tries |-> 0, answer |-> None]

TypeOK ==
    /\ StoreTypeOK([threads : Seq(Entry), healthy : BOOLEAN])
    /\ place \in [Threads -> {"none"} \cup Lists]
    /\ up \in BOOLEAN /\ linked \in BOOLEAN
    /\ requests \subseteq Request
    /\ wire \in Seq(Answer \cup Note)
    /\ notes \in Seq(Note) /\ Len(notes) <= QueueSize
    /\ stage \in {"down", "account", "list", "wait", "select"}
    /\ calls \in [Lists -> Call]
    /\ events \in 0..MaxEvents

Init ==
    /\ StoreInit([threads |-> <<>>, healthy |-> FALSE])
    /\ place \in [Threads -> {"none"} \cup Lists]
    /\ up \in BOOLEAN /\ linked = FALSE
    /\ requests = {} /\ wire = <<>> /\ notes = <<>>
    /\ stage = "down" /\ calls = [q \in Lists |-> NoCall]
    /\ events = 0
-----------------------------------------------------------------------------
(***************************************************************************)
(* The app-server.                                                         *)
(***************************************************************************)
Send(message) == wire' = IF linked THEN Append(wire, message) ELSE wire

Event == events < MaxEvents /\ events' = events + 1

ChangeThread(t, to) ==
    /\ Event
    /\ place[t] # to /\ (place[t] = "none" => to = "open")
    /\ place' = [place EXCEPT ![t] = to]
    /\ Send([thread |-> t, kind |-> IF place[t] = "none" THEN "started"
                                    ELSE IF to = "none" THEN "deleted" ELSE to])
    /\ UNCHANGED <<storeVars, up, linked, requests, watcher>>

ReportModel(t) ==
    /\ Event
    /\ place[t] # "none"
    /\ Send([thread |-> t, kind |-> "model"])
    /\ UNCHANGED <<storeVars, server, linked, requests, watcher>>

\* The last changed one comes first; when a thread changed is left open.
Listings(list) == SetToSeqs({t \in Threads : place[t] = list})

Serve(r) ==
    /\ \E overload \in BOOLEAN :
         /\ IF overload THEN Event ELSE UNCHANGED events
         /\ \E threads \in IF overload THEN {<<>>} ELSE Listings(r.list) :
              Send([id |-> r.id, list |-> r.list, overload |-> overload, given |-> r.given,
                    threads |-> threads])
    /\ requests' = requests \ {r}
    /\ UNCHANGED <<storeVars, server, linked, watcher>>

Unlink == linked' = FALSE /\ requests' = {} /\ wire' = <<>>

LoseConnection ==
    /\ linked /\ Event
    /\ Unlink
    /\ UNCHANGED <<storeVars, server, watcher>>

GoDown ==
    /\ up /\ Event
    /\ up' = FALSE
    /\ Unlink
    /\ UNCHANGED <<storeVars, place, watcher>>

ComeUp ==
    /\ ~up /\ up' = TRUE
    /\ UNCHANGED <<storeVars, place, link, watcher, events>>
-----------------------------------------------------------------------------
(***************************************************************************)
(* The reader goroutine of the client.                                     *)
(***************************************************************************)
IsAnswer(message) == "id" \in DOMAIN message
Waits(q, id) == calls[q].state = "asked" /\ calls[q].id = id

Settled(call, answer) ==
    [call EXCEPT !.state = IF ~answer.overload THEN "done"
                           ELSE IF call.tries < MaxRetries THEN "backoff" ELSE "failed",
                 !.id = None,
                 !.answer = IF answer.overload THEN None ELSE answer]

\* A mistake: an answer goes to any call that waits for one.
ReadAnyAnswer(q) ==
    /\ wire # <<>> /\ IsAnswer(Head(wire))
    /\ calls[q].state = "asked"
    /\ calls' = [calls EXCEPT ![q] = Settled(@, Head(wire))]
    /\ wire' = Tail(wire)
    /\ UNCHANGED <<storeVars, server, linked, requests, stage, notes, events>>

ReadAnswer(q) ==
    /\ wire # <<>> /\ IsAnswer(Head(wire))
    /\ Waits(q, Head(wire).id)
    /\ calls' = [calls EXCEPT ![q] = Settled(@, Head(wire))]
    /\ wire' = Tail(wire)
    /\ UNCHANGED <<storeVars, server, linked, requests, stage, notes, events>>

ReadLateAnswer ==
    /\ wire # <<>> /\ IsAnswer(Head(wire))
    /\ \A q \in Lists : ~Waits(q, Head(wire).id)
    /\ wire' = Tail(wire)
    /\ UNCHANGED <<storeVars, server, linked, requests, watcher, events>>

\* A mistake: the queue of notifications grows without limit.
QueueAlways(queue, note) == Append(queue, note)

\* A notification that finds the queue full is dropped.
Queue(queue, note) == IF Len(queue) < QueueSize THEN Append(queue, note) ELSE queue

ReadNote ==
    /\ wire # <<>> /\ ~IsAnswer(Head(wire))
    /\ notes' = Queue(notes, Head(wire))
    /\ wire' = Tail(wire)
    /\ UNCHANGED <<storeVars, server, linked, requests, stage, calls, events>>
-----------------------------------------------------------------------------
(***************************************************************************)
(* The goroutine of the profile.  It does nothing else while it publishes. *)
(***************************************************************************)
At(stages) == stage \in stages /\ publish["watcher"] = "idle"

Publish(content) ==
    /\ Becomes(content)
    /\ WantPublish("watcher")

Unavailable ==
    /\ At({"down"})
    /\ IF up THEN Event ELSE UNCHANGED events
    /\ Publish([data EXCEPT !.healthy = FALSE])
    /\ UNCHANGED <<built, shared, store, server, link, watcher>>

Connect ==
    /\ At({"down"}) /\ up
    /\ stage' = "account"
    /\ linked' = TRUE /\ requests' = {} /\ wire' = <<>> /\ notes' = <<>>
    /\ Publish(data)
    /\ UNCHANGED <<built, shared, store, server, calls, events>>

RefreshAccount ==
    /\ At({"account", "select"})
    /\ stage' = IF stage = "account" THEN "list" ELSE stage
    /\ Publish([data EXCEPT !.healthy = TRUE])
    /\ UNCHANGED <<built, shared, store, server, link, calls, notes, events>>

UsedIds ==
    {r.id : r \in requests}
    \cup {wire[i].id : i \in {j \in DOMAIN wire : IsAnswer(wire[j])}}
    \cup {calls[q].id : q \in Lists}
NextId(used) == CHOOSE i \in Ids \ used : \A j \in Ids \ used : i <= j

Asked(id, tries) == [state |-> "asked", id |-> id, tries |-> tries, answer |-> None]
Ask(asked) ==
    requests' = IF linked THEN requests \cup {[id |-> r[1], list |-> r[2], given |-> FALSE] : r \in asked}
                ELSE requests

ListThreads ==
    /\ At({"list", "select"})
    /\ stage' = "wait"
    /\ LET first == NextId(UsedIds)
           second == NextId(UsedIds \cup {first})
       IN /\ calls' = [q \in Lists |-> Asked(IF q = "open" THEN first ELSE second, 0)]
          /\ Ask({<<first, "open">>, <<second, "archived">>})
    /\ UNCHANGED <<storeVars, server, linked, wire, notes, events>>

Repeat(q) ==
    /\ calls[q].state = "backoff" /\ linked
    /\ LET id == NextId(UsedIds)
       IN /\ calls' = [calls EXCEPT ![q] = Asked(id, @.tries + 1)]
          /\ Ask({<<id, q>>})
    /\ UNCHANGED <<storeVars, server, linked, wire, stage, notes, events>>

Unanswered(q) == calls[q].state \in {"asked", "backoff"}
Failed(call) == [call EXCEPT !.state = "failed", !.id = None]

CallFails(q) ==
    /\ Unanswered(q) /\ ~linked
    /\ calls' = [calls EXCEPT ![q] = Failed(@)]
    /\ UNCHANGED <<storeVars, server, link, stage, notes, events>>

GiveUp ==
    /\ Event
    /\ \E q \in Lists : Unanswered(q)
    /\ calls' = [q \in Lists |-> IF Unanswered(q) THEN Failed(calls[q]) ELSE calls[q]]
    /\ requests' = {[r EXCEPT !.given = TRUE] : r \in requests}
    /\ wire' = [i \in DOMAIN wire |->
                  IF IsAnswer(wire[i]) THEN [wire[i] EXCEPT !.given = TRUE] ELSE wire[i]]
    /\ UNCHANGED <<storeVars, server, linked, stage, notes>>

(***************************************************************************)
(* The list replaces what notifications have said: thread/list does not    *)
(* return models.  Archived threads are left out if only their call fails. *)
(***************************************************************************)
\* A mistake: listed threads are not marked as archived.
EntriesUnmarked(q) ==
    IF calls[q].state # "done" THEN <<>>
    ELSE [i \in DOMAIN calls[q].answer.threads |->
            [id |-> calls[q].answer.threads[i], archived |-> FALSE, model |-> FALSE]]

Entries(q) ==
    IF calls[q].state # "done" THEN <<>>
    ELSE [i \in DOMAIN calls[q].answer.threads |->
            [id |-> calls[q].answer.threads[i], archived |-> q = "archived", model |-> FALSE]]

Listed == Entries("open") \o Entries("archived")

ListDone ==
    /\ At({"wait"})
    /\ \A q \in Lists : ~Unanswered(q)
    /\ stage' = "select"
    /\ calls' = [q \in Lists |-> NoCall]
    /\ IF calls["open"].state = "done"
       THEN Publish([data EXCEPT !.threads = Listed]) /\ shared' = {}
       ELSE Publish(data) /\ UNCHANGED shared
    /\ UNCHANGED <<built, store, server, link, notes, events>>

(***************************************************************************)
(* A notification changes the first entry of its thread, in place.         *)
(***************************************************************************)
Without(list, i) == SubSeq(list, 1, i - 1) \o SubSeq(list, i + 1, Len(list))

Applied(list, note) ==
    LET found == {i \in DOMAIN list : list[i].id = note.thread}
        i == CHOOSE j \in found : \A k \in found : j <= k
        new == [id |-> note.thread, archived |-> FALSE, model |-> FALSE]
    IN IF found = {} THEN IF note.kind = "started" THEN Append(list, new) ELSE list
       ELSE CASE note.kind = "started" -> [list EXCEPT ![i] = new]
              [] note.kind = "deleted" -> Without(list, i)
              [] note.kind = "model" -> [list EXCEPT ![i].model = TRUE]
              [] OTHER -> [list EXCEPT ![i].archived = note.kind = "archived"]

(***************************************************************************)
(* A data race: a publisher that is building from the same list reads each *)
(* element before or after the change.                                     *)
(***************************************************************************)
Mixed(old, new, read) == [i \in DOMAIN old |-> IF i \in read \cap DOMAIN new THEN new[i] ELSE old[i]]

ApplyNote ==
    /\ At({"select"}) /\ notes # <<>>
    /\ notes' = Tail(notes)
    /\ LET list == Applied(data.threads, Head(notes)) IN
         /\ Publish([data EXCEPT !.threads = list])
         /\ \E read \in SUBSET DOMAIN list :
              built' = [p \in Publishers |->
                          IF p \notin shared THEN built[p]
                          ELSE [built[p] EXCEPT !.data.threads = Mixed(@, list, read)]]
    /\ UNCHANGED <<shared, store, server, link, stage, calls, events>>

Disconnect ==
    /\ At({"select"})
    /\ stage' = "down" /\ notes' = <<>>
    /\ Unlink

Leave ==
    /\ ~linked /\ Disconnect
    /\ UNCHANGED <<storeVars, server, calls, events>>

ProbeFails ==
    /\ Event /\ Disconnect
    /\ Publish(data)
    /\ UNCHANGED <<built, shared, store, server, calls>>
-----------------------------------------------------------------------------
(***************************************************************************)
(* The ticker of Run publishes too, as the goroutines of other profiles    *)
(* do.                                                                     *)
(***************************************************************************)
Tick ==
    /\ \E p \in Publishers \ {"watcher"} : WantPublish(p)
    /\ UNCHANGED <<data, version, built, shared, store, server, link, watcher, events>>

Outside(A) == A /\ UNCHANGED <<server, link, watcher, events>>

Environment ==
    \/ \E t \in Threads : ReportModel(t) \/ \E to \in {"none"} \cup Lists : ChangeThread(t, to)
    \/ LoseConnection \/ GoDown \/ ComeUp

Read == (\E q \in Lists : ReadAnswer(q)) \/ ReadLateAnswer \/ ReadNote

Proceed ==
    \/ (~up /\ Unavailable) \/ Connect \/ (stage = "account" /\ RefreshAccount)
    \/ (stage = "list" /\ ListThreads) \/ ListDone
    \/ \E q \in Lists : Repeat(q) \/ CallFails(q)

Next ==
    \/ Environment \/ \E r \in requests : Serve(r)
    \/ Read \/ Proceed \/ GiveUp
    \/ Unavailable \/ RefreshAccount \/ ListThreads \/ ApplyNote \/ Leave \/ ProbeFails
    \/ Tick \/ (\E p \in Publishers : Outside(PublishCopy(p)) \/ Outside(PublishStore(p)))
    \/ Outside(Receive)

(***************************************************************************)
(* The app-server answers, goroutines run, timers fire, and a select that  *)
(* finds the same case ready again and again takes it some time.           *)
(***************************************************************************)
Fairness ==
    /\ WF_vars(\E r \in requests : Serve(r))
    /\ WF_vars(Read) /\ WF_vars(Proceed)
    /\ SF_vars(stage = "select" /\ ListThreads)
    /\ SF_vars(ApplyNote)
    /\ SF_vars(Leave)
    /\ WF_vars(Tick) /\ WF_vars(Outside(Receive))
    /\ \A p \in Publishers : SF_vars(Outside(PublishCopy(p))) /\ WF_vars(Outside(PublishStore(p)))

Spec == Init /\ [][Next]_vars
FairSpec == Spec /\ Fairness
-----------------------------------------------------------------------------
(***************************************************************************)
(* client.go:149: whatever times out, is repeated or is answered out of    *)
(* order, a call gets the answer to its own request.                       *)
(***************************************************************************)
AnswersMatch ==
    \A q \in Lists : calls[q].state = "done" => calls[q].answer.list = q /\ ~calls[q].answer.given

(***************************************************************************)
(* README.md:302 and client.go:236: overloads, lost connections, dropped   *)
(* and late notifications are repaired.  When nothing changes any more, a  *)
(* viewer shows each thread once and where the app-server has it, or that  *)
(* the profile has failed.                                                 *)
(***************************************************************************)
Shown ==
    LET shown == view.data IN
    /\ shown # <<>> /\ shown.healthy = up
    /\ up => /\ {<<e.id, e.archived>> : e \in {shown.threads[i] : i \in DOMAIN shown.threads}}
                  = {<<t, place[t] = "archived">> : t \in {u \in Threads : place[u] # "none"}}
             /\ Len(shown.threads) = Cardinality({t \in Threads : place[t] # "none"})

MonitorConverges == <>[]Shown
=============================================================================
