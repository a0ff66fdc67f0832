------------------------ MODULE MonitorServiceProofs ------------------------
(***************************************************************************)
(* What holds for any number of publishers, threads, requests and faults:  *)
(* a call gets the answer to its own request, and what a viewer of the     *)
(* monitor sees never goes back in time.                                   *)
(*                                                                         *)
(* What speaks of requests assumes that their ids never run out: the       *)
(* client counts them in 64 bits (client.go:150).  The others need no      *)
(* assumption.                                                             *)
(***************************************************************************)
EXTENDS MonitorService, FiniteSetTheorems, SequenceTheorems, WellFoundedInduction, TLAPS

(***************************************************************************)
(* The least of some numbers exists.                                       *)
(***************************************************************************)
LEMMA Least ==
    ASSUME NEW S \in SUBSET Nat, S # {}
    PROVE  \E i \in S : \A j \in S : i <= j
<1> DEFINE Less == {pair \in Nat \X Nat : pair[1] < pair[2]}
<1>1. IsWellFoundedOn(Less, Nat)
  BY NatLessThanWellFounded DEF OpToRel
<1>2. PICK i \in S : \A j \in S : ~(<<j, i>> \in Less)
  BY <1>1, WFMin
<1>3. \A j \in S : i <= j
  <2> TAKE j \in S
  <2>1. i \in Nat /\ j \in Nat /\ ~(<<j, i>> \in Less)
    BY <1>2
  <2>2. j < i => <<j, i>> \in Less
    BY <2>1
  <2> QED
    BY <2>1, <2>2
<1> QED
  BY <1>2, <1>3

\* What the data of the service is.
Content == [threads : Seq(Entry), healthy : BOOLEAN]

(***************************************************************************)
(* What notifications and lists make of the threads.                       *)
(***************************************************************************)
LEMMA AppliedType ==
    ASSUME NEW list \in Seq(Entry), NEW note \in Note
    PROVE  Applied(list, note) \in Seq(Entry)
<1> DEFINE found == {i \in DOMAIN list : list[i].id = note.thread}
           i == CHOOSE j \in found : \A k \in found : j <= k
           new == [id |-> note.thread, archived |-> FALSE, model |-> FALSE]
<1>1. new \in Entry
  BY DEF Entry, Note
<1>2. CASE found = {}
  <2>1. Applied(list, note) = IF note.kind = "started" THEN Append(list, new) ELSE list
    BY <1>2 DEF Applied
  <2> HIDE DEF new, found
  <2> QED
    BY <1>1, <2>1
<1>3. CASE found # {}
  <2>1. i \in found
    <3>1. found \in SUBSET Nat
      OBVIOUS
    <3> HIDE DEF found
    <3>2. \E j \in found : \A k \in found : j <= k
      BY <1>3, <3>1, Least
    <3> QED
      BY <3>2
  <2>2. Applied(list, note) =
          CASE note.kind = "started" -> [list EXCEPT ![i] = new]
            [] note.kind = "deleted" -> Without(list, i)
            [] note.kind = "model" -> [list EXCEPT ![i].model = TRUE]
            [] note.kind \notin {"started", "deleted", "model"}
                 -> [list EXCEPT ![i].archived = note.kind = "archived"]
    BY <1>3 DEF Applied
  <2>3. i \in 1..Len(list) /\ list[i] \in Entry
    BY <2>1
  <2> HIDE DEF i, found, new
  <2>4. [list EXCEPT ![i] = new] \in Seq(Entry)
    BY <1>1, <2>3
  <2>5. Without(list, i) \in Seq(Entry)
    <3>1. SubSeq(list, 1, i - 1) \in Seq(Entry) /\ SubSeq(list, i + 1, Len(list)) \in Seq(Entry)
      BY <2>3, SubSeqProperties
    <3> QED
      BY <3>1, ConcatProperties DEF Without
  <2>6. [list EXCEPT ![i].model = TRUE] \in Seq(Entry)
    <3>1. [list[i] EXCEPT !.model = TRUE] \in Entry
      BY <2>3 DEF Entry
    <3> QED
      BY <2>3, <3>1
  <2>7. [list EXCEPT ![i].archived = note.kind = "archived"] \in Seq(Entry)
    <3>1. [list[i] EXCEPT !.archived = note.kind = "archived"] \in Entry
      BY <2>3 DEF Entry
    <3> QED
      BY <2>3, <3>1
  <2> QED
    BY <2>2, <2>4, <2>5, <2>6, <2>7
<1> QED
  BY <1>2, <1>3

LEMMA MixedType ==
    ASSUME NEW old \in Seq(Entry), NEW new \in Seq(Entry), NEW read \in SUBSET DOMAIN new
    PROVE  Mixed(old, new, read) \in Seq(Entry)
BY DEF Mixed

LEMMA EntriesType ==
    ASSUME NEW q \in Lists, calls[q].state = "done" => calls[q].answer \in Answer
    PROVE  Entries(q) \in Seq(Entry)
<1>1. CASE calls[q].state # "done"
  BY <1>1 DEF Entries
<1>2. CASE calls[q].state = "done"
  <2> DEFINE threads == calls[q].answer.threads
  <2>1. threads \in Seq(Threads)
    BY <1>2 DEF Answer
  <2>2. Entries(q) = [i \in DOMAIN threads |-> [id |-> threads[i], archived |-> q = "archived", model |-> FALSE]]
    BY <1>2 DEF Entries
  <2> HIDE DEF threads
  <2>3. \A i \in DOMAIN threads : [id |-> threads[i], archived |-> q = "archived", model |-> FALSE] \in Entry
    BY <2>1 DEF Entry
  <2> QED
    BY <2>1, <2>2, <2>3
<1> QED
  BY <1>1, <1>2
-----------------------------------------------------------------------------
(***************************************************************************)
(* The store.  A snapshot that is being built is one of the data.          *)
(***************************************************************************)
StoreInv ==
    /\ StoreTypeOK(Content)
    /\ \A p \in Publishers : publish[p] = "building" => built[p].data \in Content

LEMMA SnapshotsGrow ==
    ASSUME version \in Nat, version' \in Nat, version <= version'
    PROVE  /\ Snapshots(Content) \subseteq Snapshots(Content)'
           /\ \A c \in Content : [data |-> c, version |-> version] \in Snapshots(Content)'
BY DEF Snapshots

LEMMA ZeroIsSnapshot ==
    ASSUME version \in Nat
    PROVE  Zero \in Snapshots(Content)
BY DEF Snapshots, Zero

(***************************************************************************)
(* A publisher asks for publishMu, the data having changed or not.         *)
(***************************************************************************)
LEMMA WantStore ==
    ASSUME StoreInv, NEW p, WantPublish(p), UNCHANGED store,
           data' \in Content, version' \in {version, version + 1}, version' <= MaxVersion,
           built' \in [Publishers -> Snapshots(Content)], shared' \subseteq shared,
           \A q \in Publishers : publish[q] = "building" => built'[q].data \in Content
    PROVE  StoreInv'
<1>1. version \in 1..MaxVersion /\ version' \in 1..MaxVersion /\ version \in Nat /\ version' \in Nat
      /\ version <= version'
  BY VersionAssumption DEF StoreInv, StoreTypeOK
<1>2. Snapshots(Content) \subseteq Snapshots(Content)'
  BY <1>1, SnapshotsGrow
<1>3. publish' \in [Publishers -> {"idle", "waiting", "building"}]
      /\ \A q \in Publishers : publish'[q] = "building" <=> publish[q] = "building"
  BY DEF WantPublish, StoreInv, StoreTypeOK
<1>4. built' \in [Publishers -> Snapshots(Content)']
  BY <1>2
<1>5. shared' \subseteq {q \in Publishers : publish'[q] = "building"}
  BY <1>3 DEF StoreInv, StoreTypeOK
<1>6. current' \in Snapshots(Content)' /\ view' \in Snapshots(Content)'
  BY <1>2 DEF store, StoreInv, StoreTypeOK
<1>7. channel' \in Seq(Snapshots(Content)') /\ Len(channel') <= 1
  BY <1>2, SeqMonotonic DEF store, StoreInv, StoreTypeOK
<1>8. Content' = Content
  BY DEF Content
<1>9. StoreTypeOK(Content)'
  BY <1>1, <1>3, <1>4, <1>5, <1>6, <1>7, <1>8 DEF StoreTypeOK
<1> QED
  BY <1>3, <1>8, <1>9 DEF StoreInv

LEMMA PublishStores ==
    ASSUME StoreInv, NEW content \in Content, Publish(content), UNCHANGED <<built, store>>,
           shared' \subseteq shared
    PROVE  StoreInv'
<1>1. data' \in Content /\ version' \in {version, version + 1} /\ version' <= MaxVersion
  BY VersionAssumption DEF Publish, Becomes, StoreInv, StoreTypeOK
<1>2. built' \in [Publishers -> Snapshots(Content)]
      /\ \A q \in Publishers : publish[q] = "building" => built'[q].data \in Content
  BY DEF StoreInv, StoreTypeOK
<1> QED
  BY <1>1, <1>2, WantStore DEF Publish

LEMMA CopyTypes ==
    ASSUME StoreInv, NEW p \in Publishers, PublishCopy(p)
    PROVE  StoreInv'
<1> USE DEF StoreInv, StoreTypeOK, PublishCopy, store
<1>1. version \in Nat /\ version' = version
  BY VersionAssumption
<1>2. Snapshots(Content)' = Snapshots(Content) /\ Content' = Content
  BY <1>1 DEF Snapshots, Content
<1>3. [data |-> data, version |-> version] \in Snapshots(Content)
  BY <1>1 DEF Snapshots
<1>4. built' \in [Publishers -> Snapshots(Content)]
  BY <1>3
<1>5. \A q \in Publishers : publish'[q] = "building" => q = p
  OBVIOUS
<1>6. built'[p].data \in Content
  OBVIOUS
<1>7. publish' \in [Publishers -> {"idle", "waiting", "building"}] /\ publish'[p] = "building"
  OBVIOUS
<1>8. shared' \subseteq {q \in Publishers : publish'[q] = "building"}
  BY <1>7
<1> QED
  BY <1>1, <1>2, <1>4, <1>5, <1>6, <1>7, <1>8

LEMMA StoreTypes ==
    ASSUME StoreInv, NEW p \in Publishers, PublishStore(p)
    PROVE  StoreInv'
<1> USE DEF StoreInv, StoreTypeOK, PublishStore
<1>1. version \in Nat /\ version' = version
  BY VersionAssumption
<1>2. Snapshots(Content)' = Snapshots(Content) /\ Content' = Content
  BY <1>1 DEF Snapshots, Content
<1>3. built[p] \in Snapshots(Content) /\ Zero \in Snapshots(Content)
  BY <1>1, ZeroIsSnapshot
<1>4. built' \in [Publishers -> Snapshots(Content)]
  BY <1>3
<1>5. channel' \in Seq(Snapshots(Content)) /\ Len(channel') <= 1
  BY <1>3
<1>6. publish' \in [Publishers -> {"idle", "waiting", "building"}]
  OBVIOUS
<1>7. \A q \in Publishers : publish'[q] = "building" => q # p /\ publish[q] = "building"
  OBVIOUS
<1>8. shared' \subseteq {q \in Publishers : publish'[q] = "building"}
  OBVIOUS
<1>9. \A q \in Publishers : publish'[q] = "building" => built'[q].data \in Content
  BY <1>7
<1> QED
  BY <1>1, <1>2, <1>3, <1>4, <1>5, <1>6, <1>8, <1>9

LEMMA ReceiveTypes ==
    ASSUME StoreInv, Receive
    PROVE  StoreInv'
<1> USE DEF StoreInv, StoreTypeOK, Receive, publisher
<1>1. version \in Nat /\ version' = version
  BY VersionAssumption
<1>2. Snapshots(Content)' = Snapshots(Content) /\ Content' = Content
  BY <1>1 DEF Snapshots, Content
<1>3. Head(channel) \in Snapshots(Content) /\ Tail(channel) \in Seq(Snapshots(Content))
      /\ Len(Tail(channel)) <= 1
  BY HeadTailProperties
<1> QED
  BY <1>1, <1>2, <1>3

LEMMA UnchangedStore ==
    ASSUME StoreInv, UNCHANGED storeVars
    PROVE  StoreInv'
BY DEF StoreInv, StoreTypeOK, storeVars, publisher, store, Snapshots, Content
-----------------------------------------------------------------------------
(***************************************************************************)
(* Request ids come from a counter that never ends (client.go:150): what   *)
(* is in use is finite, so there is a next one.                            *)
(***************************************************************************)
LEMMA ImageOfRequests ==
    ASSUME IsFiniteSet(requests)
    PROVE  IsFiniteSet({r.id : r \in requests})
<1> DEFINE f == [r \in requests |-> r.id]
           T == {r.id : r \in requests}
<1>1. f \in Surjection(requests, T)
  BY DEF Surjection
<1> QED
  BY <1>1, FS_Surjection

LEMMA ImageOfWire ==
    ASSUME NEW n \in Nat, NEW P \in SUBSET (1..n)
    PROVE  IsFiniteSet({wire[i].id : i \in P})
<1> DEFINE f == [i \in P |-> wire[i].id]
           T == {wire[i].id : i \in P}
<1>1. IsFiniteSet(P)
  <2>1. 1 \in Int /\ n \in Int
    OBVIOUS
  <2>2. IsFiniteSet(1..n)
    BY <2>1, FS_Interval
  <2> QED
    BY <2>2, FS_Subset
<1>2. f \in Surjection(P, T)
  BY DEF Surjection
<1> QED
  BY <1>1, <1>2, FS_Surjection

LEMMA UsedIdsFinite ==
    ASSUME IsFiniteSet(requests), NEW S, wire \in Seq(S)
    PROVE  IsFiniteSet(UsedIds)
<1> DEFINE P == {j \in DOMAIN wire : IsAnswer(wire[j])}
           A == {r.id : r \in requests}
           B == {wire[i].id : i \in P}
           C == {calls[q].id : q \in Lists}
<1>1. IsFiniteSet(A)
  BY ImageOfRequests
<1>2. IsFiniteSet(B)
  <2>1. Len(wire) \in Nat /\ P \in SUBSET (1..Len(wire))
    OBVIOUS
  <2> QED
    BY <2>1, ImageOfWire, Zenon
<1>3. IsFiniteSet(C)
  <2> DEFINE C1 == {calls["open"].id}
             C2 == {calls["archived"].id}
  <2>1. C = C1 \cup C2
    BY DEF Lists
  <2>2. IsFiniteSet(C1) /\ IsFiniteSet(C2)
    BY FS_Singleton
  <2> HIDE DEF C, C1, C2
  <2> QED
    BY <2>1, <2>2, FS_Union
<1>4. UsedIds = (A \cup B) \cup C
  BY DEF UsedIds
<1> HIDE DEF A, B, C
<1>5. IsFiniteSet(A \cup B)
  BY <1>1, <1>2, FS_Union
<1>6. IsFiniteSet((A \cup B) \cup C)
  BY <1>3, <1>5, FS_Union
<1> QED
  BY <1>4, <1>6

LEMMA NextIdIsNew ==
    ASSUME ~IsFiniteSet(Ids), NEW used, IsFiniteSet(used)
    PROVE  NextId(used) \in Ids /\ NextId(used) \notin used
<1> DEFINE free == Ids \ used
<1>2. free \subseteq Nat
  BY QueueAssumption
<1>3. free # {}
  <2> SUFFICES ASSUME free = {} PROVE FALSE
    OBVIOUS
  <2>1. Ids \in SUBSET used
    OBVIOUS
  <2> QED
    BY <2>1, FS_Subset
<1> HIDE DEF free
<1>4. PICK i \in free : \A j \in free : i <= j
  BY <1>2, <1>3, Least
<1>5. NextId(used) \in free
  BY <1>4 DEF NextId, free
<1> QED
  BY <1>5 DEF free
-----------------------------------------------------------------------------
(***************************************************************************)
(* The connection and the calls.  A call is only repeated as long as it    *)
(* has tries left, and one that is done has its answer.                    *)
(***************************************************************************)
LinkInv ==
    /\ place \in [Threads -> {"none"} \cup Lists]
    /\ up \in BOOLEAN /\ linked \in BOOLEAN
    /\ requests \subseteq Request /\ IsFiniteSet(requests)
    /\ wire \in Seq(Answer \cup Note)
    /\ notes \in Seq(Note) /\ Len(notes) <= QueueSize
    /\ stage \in {"down", "account", "list", "wait", "select"}
    /\ events \in 0..MaxEvents

CallInv ==
    /\ calls \in [Lists -> Call]
    /\ \A q \in Lists :
         /\ calls[q].state = "backoff" => calls[q].tries < MaxRetries
         /\ calls[q].state = "done" => calls[q].answer \in Answer

TypeInv == StoreInv /\ LinkInv /\ CallInv

LEMMA AnswersAreAnswers ==
    ASSUME NEW message \in Answer \cup Note
    PROVE  message \in (IF IsAnswer(message) THEN Answer ELSE Note)
BY DEF IsAnswer, Answer, Note

LEMMA EventCounts ==
    ASSUME LinkInv, Event
    PROVE  events' \in 0..MaxEvents
BY BoundAssumption DEF LinkInv, Event

LEMMA SendTypes ==
    ASSUME LinkInv, NEW message \in Answer \cup Note, Send(message)
    PROVE  wire' \in Seq(Answer \cup Note)
BY DEF LinkInv, Send

LEMMA ListingsType ==
    ASSUME LinkInv, NEW q \in Lists, NEW s \in Listings(q)
    PROVE  s \in Seq(Threads)
<1> DEFINE S == {t \in Threads : place[t] = q}
<1>1. IsFiniteSet(S) /\ Cardinality(S) \in Nat
  BY BoundAssumption, FS_Subset, FS_CardinalityType
<1>2. s \in [1..Cardinality(S) -> S]
  BY DEF Listings, SetToSeqs
<1>3. s \in [1..Cardinality(S) -> Threads]
  BY <1>2
<1> HIDE DEF S
<1> QED
  BY <1>1, <1>3

LEMMA NothingLeft ==
    IsFiniteSet({}) /\ <<>> \in Seq(Answer \cup Note) /\ <<>> \in Seq(Note) /\ Len(<<>>) <= QueueSize
BY FS_EmptySet, QueueAssumption

LEMMA ServerLink ==
    ASSUME LinkInv, Environment \/ \E r \in requests : Serve(r)
    PROVE  LinkInv'
<1>1. ASSUME NEW t \in Threads, NEW to \in {"none"} \cup Lists, ChangeThread(t, to)
      PROVE  LinkInv'
  <2> DEFINE message == [thread |-> t, kind |-> IF place[t] = "none" THEN "started"
                                    ELSE IF to = "none" THEN "deleted" ELSE to]
  <2>1. message \in Note
    BY <1>1 DEF Note, Lists, ChangeThread
  <2>2. wire' \in Seq(Answer \cup Note)
    BY <1>1, <2>1, SendTypes DEF ChangeThread
  <2>3. place' \in [Threads -> {"none"} \cup Lists]
    BY <1>1 DEF ChangeThread, LinkInv
  <2>4. events' \in 0..MaxEvents
    BY <1>1, EventCounts DEF ChangeThread
  <2> QED
    BY <1>1, <2>2, <2>3, <2>4 DEF ChangeThread, LinkInv, watcher
<1>2. ASSUME NEW t \in Threads, ReportModel(t)
      PROVE  LinkInv'
  <2>1. [thread |-> t, kind |-> "model"] \in Note
    BY DEF Note
  <2>2. wire' \in Seq(Answer \cup Note)
    BY <1>2, <2>1, SendTypes DEF ReportModel
  <2>3. events' \in 0..MaxEvents
    BY <1>2, EventCounts DEF ReportModel
  <2> QED
    BY <1>2, <2>2, <2>3 DEF ReportModel, LinkInv, watcher, server
<1>3. CASE LoseConnection \/ GoDown
  <2>1. events' \in 0..MaxEvents
    BY <1>3, EventCounts DEF LoseConnection, GoDown
  <2>2. requests' = {} /\ wire' = <<>> /\ linked' = FALSE
    BY <1>3 DEF LoseConnection, GoDown, Unlink
  <2> QED
    BY <1>3, <2>1, <2>2, NothingLeft DEF LoseConnection, GoDown, LinkInv, server, watcher
<1>4. CASE ComeUp
  BY <1>4 DEF ComeUp, LinkInv, link, watcher
<1>5. ASSUME NEW r \in requests, Serve(r)
      PROVE  LinkInv'
  <2>1. PICK overload \in BOOLEAN : \E threads \in IF overload THEN {<<>>} ELSE Listings(r.list) :
          /\ IF overload THEN Event ELSE UNCHANGED events
          /\ Send([id |-> r.id, list |-> r.list, overload |-> overload, given |-> r.given,
                    threads |-> threads])
    BY <1>5 DEF Serve
  <2>2. PICK threads \in IF overload THEN {<<>>} ELSE Listings(r.list) :
          Send([id |-> r.id, list |-> r.list, overload |-> overload, given |-> r.given,
                threads |-> threads])
    BY <2>1
  <2>3. r \in Request
    BY DEF LinkInv
  <2>4. threads \in Seq(Threads)
    <3>1. CASE overload
      BY <3>1, EmptySeq
    <3>2. CASE ~overload
      BY <2>3, <3>2, ListingsType DEF Request
    <3> QED
      BY <3>1, <3>2
  <2>5. [id |-> r.id, list |-> r.list, overload |-> overload, given |-> r.given, threads |-> threads]
          \in Answer
    BY <2>3, <2>4 DEF Request, Answer
  <2>6. wire' \in Seq(Answer \cup Note)
    BY <2>2, <2>5, SendTypes
  <2>7. events' \in 0..MaxEvents
    BY <2>1, EventCounts DEF LinkInv
  <2>8. requests' \subseteq Request /\ IsFiniteSet(requests')
    BY <1>5, FS_Subset DEF Serve, LinkInv
  <2> QED
    BY <1>5, <2>6, <2>7, <2>8 DEF Serve, LinkInv, server, watcher
<1> QED
  BY <1>1, <1>2, <1>3, <1>4, <1>5 DEF Environment

LEMMA ReadLink ==
    ASSUME LinkInv, Read
    PROVE  LinkInv'
<1>1. wire # <<>> /\ wire' = Tail(wire)
  BY DEF Read, ReadAnswer, ReadLateAnswer, ReadNote
<1>2. Head(wire) \in Answer \cup Note /\ wire' \in Seq(Answer \cup Note)
  BY <1>1, HeadTailProperties DEF LinkInv
<1>3. CASE ReadNote
  <2>1. Head(wire) \in Note
    BY <1>2, <1>3, AnswersAreAnswers DEF ReadNote
  <2>2. notes' \in Seq(Note) /\ Len(notes') <= QueueSize
    BY <1>3, <2>1, QueueAssumption DEF ReadNote, Queue, LinkInv
  <2> QED
    BY <1>2, <1>3, <2>2 DEF ReadNote, LinkInv, server
<1>4. CASE ReadLateAnswer \/ \E q \in Lists : ReadAnswer(q)
  BY <1>2, <1>4 DEF ReadLateAnswer, ReadAnswer, LinkInv, server, watcher
<1> QED
  BY <1>3, <1>4 DEF Read

LEMMA UsedIdsAreFinite ==
    ASSUME LinkInv
    PROVE  IsFiniteSet(UsedIds) /\ \A id : IsFiniteSet(UsedIds \cup {id})
<1>1. IsFiniteSet(UsedIds)
  BY UsedIdsFinite DEF LinkInv
<1> QED
  BY <1>1, FS_AddElement

(***************************************************************************)
(* A request that is made takes an id nobody uses.                         *)
(***************************************************************************)
LEMMA TwoRequests ==
    ASSUME NEW a, NEW b, NEW p, NEW q
    PROVE  {[id |-> r[1], list |-> r[2], given |-> FALSE] : r \in {<<a, p>>, <<b, q>>}}
             = {[id |-> a, list |-> p, given |-> FALSE], [id |-> b, list |-> q, given |-> FALSE]}
<1> DEFINE e(r) == [id |-> r[1], list |-> r[2], given |-> FALSE]
<1>1. /\ e(<<a, p>>) = [id |-> a, list |-> p, given |-> FALSE]
      /\ e(<<b, q>>) = [id |-> b, list |-> q, given |-> FALSE]
  OBVIOUS
<1> HIDE DEF e
<1>2. {e(r) : r \in {<<a, p>>, <<b, q>>}} = {e(<<a, p>>), e(<<b, q>>)}
  OBVIOUS
<1> QED
  BY <1>1, <1>2 DEF e

LEMMA AskTwo ==
    ASSUME NEW a, NEW b, NEW p, NEW q, Ask({<<a, p>>, <<b, q>>})
    PROVE  requests' = IF linked
                       THEN requests \cup {[id |-> a, list |-> p, given |-> FALSE],
                                           [id |-> b, list |-> q, given |-> FALSE]}
                       ELSE requests
<1> DEFINE asked == {<<a, p>>, <<b, q>>}
           new == {[id |-> r[1], list |-> r[2], given |-> FALSE] : r \in asked}
<1>1. new = {[id |-> a, list |-> p, given |-> FALSE], [id |-> b, list |-> q, given |-> FALSE]}
  BY TwoRequests
<1>2. requests' = IF linked THEN requests \cup new ELSE requests
  BY DEF Ask
<1> HIDE DEF new
<1> QED
  BY <1>1, <1>2

LEMMA ListThreadsAsks ==
    ASSUME ~IsFiniteSet(Ids), LinkInv, ListThreads
    PROVE  \E first, second \in Ids \ UsedIds :
             /\ first # second
             /\ calls' = [q \in Lists |-> Asked(IF q = "open" THEN first ELSE second, 0)]
             /\ requests' = IF linked
                            THEN requests \cup {[id |-> first, list |-> "open", given |-> FALSE],
                                                [id |-> second, list |-> "archived", given |-> FALSE]}
                            ELSE requests
<1> DEFINE first == NextId(UsedIds)
           second == NextId(UsedIds \cup {first})
<1>1. first \in Ids \ UsedIds
  BY UsedIdsAreFinite, NextIdIsNew
<1>2. second \in Ids \ UsedIds /\ first # second
  <2> HIDE DEF first
  <2>1. IsFiniteSet(UsedIds \cup {first})
    BY UsedIdsAreFinite
  <2> QED
    BY <2>1, NextIdIsNew
<1>3. /\ calls' = [q \in Lists |-> Asked(IF q = "open" THEN first ELSE second, 0)]
      /\ Ask({<<first, "open">>, <<second, "archived">>})
  BY DEF ListThreads
<1> HIDE DEF first, second
<1>4. requests' = IF linked
                  THEN requests \cup {[id |-> first, list |-> "open", given |-> FALSE],
                                      [id |-> second, list |-> "archived", given |-> FALSE]}
                  ELSE requests
  BY <1>3, AskTwo
<1> QED
  BY <1>1, <1>2, <1>3, <1>4

LEMMA RepeatAsks ==
    ASSUME ~IsFiniteSet(Ids), LinkInv, NEW q \in Lists, Repeat(q)
    PROVE  \E id \in Ids \ UsedIds :
             /\ calls' = [calls EXCEPT ![q] = Asked(id, calls[q].tries + 1)]
             /\ requests' = requests \cup {[id |-> id, list |-> q, given |-> FALSE]}
<1> DEFINE id == NextId(UsedIds)
<1>1. id \in Ids \ UsedIds
  BY UsedIdsAreFinite, NextIdIsNew
<1>2. calls' = [calls EXCEPT ![q] = Asked(id, calls[q].tries + 1)] /\ Ask({<<id, q>>}) /\ linked
  BY DEF Repeat
<1> HIDE DEF id
<1>3. {<<id, q>>} = {<<id, q>>, <<id, q>>}
  OBVIOUS
<1>4. Ask({<<id, q>>, <<id, q>>})
  BY <1>2, <1>3
<1>5. requests' = requests \cup {[id |-> id, list |-> q, given |-> FALSE],
                                  [id |-> id, list |-> q, given |-> FALSE]}
  BY <1>2, <1>4, AskTwo
<1> QED
  BY <1>1, <1>2, <1>5

LEMMA GiveUpLink ==
    ASSUME LinkInv, GiveUp
    PROVE  LinkInv'
<1> DEFINE f == [r \in requests |-> [r EXCEPT !.given = TRUE]]
           R == {[r EXCEPT !.given = TRUE] : r \in requests}
<1>1. IsFiniteSet(R)
  <2>1. f \in Surjection(requests, R)
    BY DEF Surjection
  <2> QED
    BY <2>1, FS_Surjection DEF LinkInv
<1>2. R \subseteq Request
  BY DEF LinkInv, Request
<1>3. wire' \in Seq(Answer \cup Note)
  <2>1. \A i \in DOMAIN wire : (IF IsAnswer(wire[i]) THEN [wire[i] EXCEPT !.given = TRUE] ELSE wire[i])
                                 \in Answer \cup Note
    <3> TAKE i \in DOMAIN wire
    <3>1. wire[i] \in Answer \cup Note
      BY DEF LinkInv
    <3>2. IsAnswer(wire[i]) => [wire[i] EXCEPT !.given = TRUE] \in Answer
      <4> HAVE IsAnswer(wire[i])
      <4>1. wire[i] \in Answer
        BY <3>1, AnswersAreAnswers
      <4> QED
        BY <4>1 DEF Answer
    <3> QED
      BY <3>1, <3>2
  <2>2. wire' = [i \in DOMAIN wire |->
                  IF IsAnswer(wire[i]) THEN [wire[i] EXCEPT !.given = TRUE] ELSE wire[i]]
    BY DEF GiveUp
  <2> QED
    BY <2>1, <2>2 DEF LinkInv
<1>4. events' \in 0..MaxEvents
  BY EventCounts DEF GiveUp
<1> HIDE DEF R
<1>5. requests' = R
  BY DEF GiveUp, R
<1> QED
  BY <1>1, <1>2, <1>3, <1>4, <1>5 DEF GiveUp, LinkInv, server

LEMMA WatcherLink ==
    ASSUME ~IsFiniteSet(Ids), LinkInv,
           \/ Proceed \/ Unavailable \/ RefreshAccount \/ ListThreads
           \/ ApplyNote \/ Leave \/ ProbeFails
    PROVE  LinkInv'
<1>1. CASE Unavailable
  <2>1. events' \in 0..MaxEvents
    BY <1>1, EventCounts DEF Unavailable, LinkInv
  <2> QED
    BY <1>1, <2>1 DEF Unavailable, LinkInv, server, link, watcher
<1>2. CASE Connect
  <2>1. requests' = {} /\ IsFiniteSet({}) /\ wire' \in Seq(Answer \cup Note) /\ notes' \in Seq(Note)
        /\ Len(notes') <= QueueSize
    BY <1>2, FS_EmptySet, QueueAssumption DEF Connect
  <2> QED
    BY <1>2, <2>1 DEF Connect, LinkInv, server
<1>3. CASE RefreshAccount
  BY <1>3 DEF RefreshAccount, LinkInv, server, link
<1>4. CASE ListThreads
  <2>1. PICK first, second \in Ids \ UsedIds :
          requests' = IF linked
                      THEN requests \cup {[id |-> first, list |-> "open", given |-> FALSE],
                                          [id |-> second, list |-> "archived", given |-> FALSE]}
                      ELSE requests
    BY <1>4, ListThreadsAsks
  <2> DEFINE r1 == [id |-> first, list |-> "open", given |-> FALSE]
             r2 == [id |-> second, list |-> "archived", given |-> FALSE]
  <2>2. r1 \in Request /\ r2 \in Request
    BY DEF Request, Lists
  <2> HIDE DEF r1, r2
  <2>3. IsFiniteSet(requests \cup {r1}) /\ IsFiniteSet((requests \cup {r1}) \cup {r2})
    BY FS_AddElement DEF LinkInv
  <2>4. requests \cup {r1, r2} = (requests \cup {r1}) \cup {r2}
    OBVIOUS
  <2>5. requests' = IF linked THEN requests \cup {r1, r2} ELSE requests
    BY <2>1 DEF r1, r2
  <2>6. requests' \subseteq Request /\ IsFiniteSet(requests')
    BY <2>2, <2>3, <2>4, <2>5 DEF LinkInv
  <2> QED
    BY <1>4, <2>6 DEF ListThreads, LinkInv, server
<1>5. ASSUME NEW q \in Lists, Repeat(q)
      PROVE  LinkInv'
  <2>1. PICK id \in Ids \ UsedIds : requests' = requests \cup {[id |-> id, list |-> q, given |-> FALSE]}
    BY <1>5, RepeatAsks
  <2>2. [id |-> id, list |-> q, given |-> FALSE] \in Request
    BY DEF Request
  <2>3. requests' \subseteq Request /\ IsFiniteSet(requests')
    BY <2>1, <2>2, FS_AddElement DEF LinkInv
  <2> QED
    BY <1>5, <2>3 DEF Repeat, LinkInv, server
<1>6. ASSUME NEW q \in Lists, CallFails(q)
      PROVE  LinkInv'
  BY <1>6 DEF CallFails, LinkInv, server, link
<1>7. CASE ListDone
  BY <1>7 DEF ListDone, LinkInv, server, link
<1>8. CASE ApplyNote
  <2>1. notes' \in Seq(Note) /\ Len(notes') <= QueueSize
    BY <1>8, QueueAssumption, HeadTailProperties DEF ApplyNote, LinkInv
  <2> QED
    BY <1>8, <2>1 DEF ApplyNote, LinkInv, server, link
<1>9. CASE Leave \/ ProbeFails
  <2>1. events' \in 0..MaxEvents
    BY <1>9, EventCounts DEF Leave, ProbeFails, LinkInv
  <2>2. requests' = {} /\ wire' = <<>> /\ notes' = <<>> /\ stage' = "down" /\ linked' = FALSE
    BY <1>9 DEF Leave, ProbeFails, Disconnect, Unlink
  <2> QED
    BY <1>9, <2>1, <2>2, NothingLeft DEF Leave, ProbeFails, LinkInv, server
<1> QED
  BY <1>1, <1>2, <1>3, <1>4, <1>5, <1>6, <1>7, <1>8, <1>9 DEF Proceed

LEMMA LinkTypes ==
    ASSUME ~IsFiniteSet(Ids), LinkInv, [Next]_vars
    PROVE  LinkInv'
<1>1. CASE Tick \/ (\E p \in Publishers : Outside(PublishCopy(p)) \/ Outside(PublishStore(p)))
           \/ Outside(Receive) \/ UNCHANGED vars
  BY <1>1 DEF Tick, Outside, vars, LinkInv, server, link, watcher
<1> QED
  BY <1>1, ServerLink, ReadLink, GiveUpLink, WatcherLink DEF Next

LEMMA SettledType ==
    ASSUME NEW call \in Call, NEW answer \in Answer
    PROVE  /\ Settled(call, answer) \in Call
           /\ Settled(call, answer).state = "backoff" => Settled(call, answer).tries < MaxRetries
           /\ Settled(call, answer).state = "done" => Settled(call, answer).answer = answer
           /\ Settled(call, answer).state # "asked"
<1> DEFINE s == IF ~answer.overload THEN "done"
                ELSE IF call.tries < MaxRetries THEN "backoff" ELSE "failed"
           a == IF answer.overload THEN None ELSE answer
<1>1. Settled(call, answer) = [state |-> s, id |-> None, tries |-> call.tries, answer |-> a]
  <2> DEFINE f == {"state", "id", "tries", "answer"}
  <2>1. call = [i \in f |-> call[i]]
    BY DEF Call
  <2>2. Settled(call, answer) = [call EXCEPT !.state = s, !.id = None, !.answer = a]
    BY DEF Settled
  <2> HIDE DEF s, a
  <2>3. [call EXCEPT !.state = s, !.id = None, !.answer = a]
          = [i \in f |-> IF i = "answer" THEN a ELSE IF i = "id" THEN None
                         ELSE IF i = "state" THEN s ELSE call[i]]
    BY <2>1
  <2> QED
    BY <2>2, <2>3
<1>2. s \in {"none", "asked", "backoff", "done", "failed"} /\ a \in Answer \cup {None}
      /\ call.tries \in 0..MaxRetries
  BY DEF Call
<1>3. (s = "backoff" => call.tries < MaxRetries) /\ (s = "done" => a = answer) /\ s # "asked"
  BY DEF Answer
<1> HIDE DEF s, a
<1> QED
  BY <1>1, <1>2, <1>3 DEF Call

LEMMA CallTypes ==
    ASSUME ~IsFiniteSet(Ids), LinkInv, CallInv, [Next]_vars
    PROVE  CallInv'
<1>1. ASSUME NEW q \in Lists, ReadAnswer(q)
      PROVE  CallInv'
  <2>1. Head(wire) \in Answer
    BY <1>1, HeadTailProperties, AnswersAreAnswers DEF ReadAnswer, LinkInv
  <2>2. calls' = [calls EXCEPT ![q] = Settled(calls[q], Head(wire))]
    BY <1>1 DEF ReadAnswer
  <2>3. calls[q] \in Call
    BY DEF CallInv
  <2>4. /\ Settled(calls[q], Head(wire)) \in Call
        /\ Settled(calls[q], Head(wire)).state = "backoff" => Settled(calls[q], Head(wire)).tries < MaxRetries
        /\ Settled(calls[q], Head(wire)).state = "done" => Settled(calls[q], Head(wire)).answer = Head(wire)
    BY <2>1, <2>3, SettledType
  <2> QED
    BY <2>1, <2>2, <2>4 DEF CallInv
<1>2. CASE ListThreads
  <2>1. PICK first, second \in Ids :
          calls' = [q \in Lists |-> Asked(IF q = "open" THEN first ELSE second, 0)]
    BY <1>2, ListThreadsAsks
  <2>2. \A id \in Ids : Asked(id, 0) \in Call /\ Asked(id, 0).state = "asked"
    BY BoundAssumption DEF Asked, Call
  <2> QED
    BY <2>1, <2>2 DEF CallInv
<1>3. ASSUME NEW q \in Lists, Repeat(q)
      PROVE  CallInv'
  <2>1. PICK id \in Ids : calls' = [calls EXCEPT ![q] = Asked(id, calls[q].tries + 1)]
    BY <1>3, RepeatAsks
  <2>2. calls[q].tries + 1 \in 0..MaxRetries
    BY <1>3, BoundAssumption DEF Repeat, CallInv, Call
  <2>3. Asked(id, calls[q].tries + 1) \in Call /\ Asked(id, calls[q].tries + 1).state = "asked"
    BY <2>2 DEF Asked, Call
  <2> QED
    BY <2>1, <2>3 DEF CallInv
<1>4. \A q \in Lists : Failed(calls[q]) \in Call /\ Failed(calls[q]).state = "failed"
  BY DEF CallInv, Call, Failed
<1>5. ASSUME NEW q \in Lists, CallFails(q)
      PROVE  CallInv'
  BY <1>4, <1>5 DEF CallInv, CallFails
<1>6. CASE GiveUp
  BY <1>4, <1>6 DEF CallInv, GiveUp
<1>7. CASE ListDone
  <2>1. NoCall \in Call /\ NoCall.state = "none"
    BY BoundAssumption DEF NoCall, Call
  <2> QED
    BY <1>7, <2>1 DEF CallInv, ListDone
<1>8. CASE UNCHANGED calls
  BY <1>8 DEF CallInv
<1>9. \/ UNCHANGED calls \/ ListThreads \/ GiveUp \/ ListDone
      \/ \E q \in Lists : ReadAnswer(q) \/ Repeat(q) \/ CallFails(q)
  BY DEF Next, vars, Environment, Read, Proceed, watcher, ChangeThread, ReportModel, LoseConnection, GoDown,
         ComeUp, Serve, ReadLateAnswer, ReadNote, Unavailable, Connect, RefreshAccount, ApplyNote, Leave,
         ProbeFails, Tick, Outside
<1> QED
  BY <1>1, <1>2, <1>3, <1>5, <1>6, <1>7, <1>8, <1>9

LEMMA ListedType ==
    ASSUME CallInv
    PROVE  Listed \in Seq(Entry)
<1>1. Entries("open") \in Seq(Entry) /\ Entries("archived") \in Seq(Entry)
  BY EntriesType DEF CallInv, Lists
<1> QED
  BY <1>1, ConcatProperties DEF Listed

(***************************************************************************)
(* A notification changes the threads of the snapshots that share them.    *)
(***************************************************************************)
LEMMA MixedSnapshot ==
    ASSUME NEW old, NEW mix, NEW h, NEW v,
           NEW s, s = [data |-> [threads |-> old, healthy |-> h], version |-> v]
    PROVE  [s EXCEPT !.data.threads = mix] = [data |-> [threads |-> mix, healthy |-> h], version |-> v]
OBVIOUS

LEMMA ApplyNoteTypes ==
    ASSUME StoreInv, LinkInv, ApplyNote
    PROVE  StoreInv'
<1> DEFINE list == Applied(data.threads, Head(notes))
<1>1. data \in Content /\ Head(notes) \in Note
  BY HeadTailProperties DEF StoreInv, StoreTypeOK, LinkInv, ApplyNote
<1>2. list \in Seq(Entry)
  BY <1>1, AppliedType DEF Content
<1>3. PICK read \in SUBSET DOMAIN list :
        built' = [p \in Publishers |->
                    IF p \notin shared THEN built[p]
                    ELSE [built[p] EXCEPT !.data.threads = Mixed(built[p].data.threads, list, read)]]
  BY DEF ApplyNote
<1>4. Publish([data EXCEPT !.threads = list])
  BY DEF ApplyNote
<1>5. UNCHANGED store /\ shared' = shared
  BY DEF ApplyNote
<1> HIDE DEF list
<1>6. [data EXCEPT !.threads = list] \in Content
  BY <1>1, <1>2 DEF Content
<1>7. data' \in Content /\ version' \in {version, version + 1} /\ version' <= MaxVersion
  BY <1>4, <1>6, VersionAssumption DEF Publish, Becomes, StoreInv, StoreTypeOK
<1>8. \A p \in Publishers : built'[p] \in Snapshots(Content)
                            /\ (publish[p] = "building" => built'[p].data \in Content)
  <2> TAKE p \in Publishers
  <2>1. built[p] \in Snapshots(Content) /\ (publish[p] = "building" => built[p].data \in Content)
    BY DEF StoreInv, StoreTypeOK
  <2>2. CASE p \notin shared
    BY <1>3, <2>1, <2>2
  <2>3. CASE p \in shared
    <3> DEFINE old == built[p].data.threads
               mix == Mixed(old, list, read)
               h == built[p].data.healthy
               v == built[p].version
    <3>1. built[p].data \in Content
      BY <2>1, <2>3 DEF StoreInv, StoreTypeOK
    <3>2. old \in Seq(Entry) /\ h \in BOOLEAN /\ v \in 0..version
      BY <2>1, <3>1 DEF Content, Snapshots
    <3>3. mix \in Seq(Entry)
      BY <1>2, <3>2, MixedType
    <3>4. built[p] = [data |-> [threads |-> old, healthy |-> h], version |-> v]
      BY <2>1, <3>1 DEF Content, Snapshots
    <3>5. built'[p] = [built[p] EXCEPT !.data.threads = mix]
      BY <1>3, <2>3
    <3> HIDE DEF old, mix, h, v
    <3>6. built'[p] = [data |-> [threads |-> mix, healthy |-> h], version |-> v]
      BY <3>4, <3>5, MixedSnapshot
    <3>7. [threads |-> mix, healthy |-> h] \in Content
      BY <3>2, <3>3 DEF Content
    <3> QED
      BY <3>2, <3>6, <3>7 DEF Snapshots
  <2> QED
    BY <2>2, <2>3
<1>9. built' \in [Publishers -> Snapshots(Content)]
  BY <1>3, <1>8
<1> QED
  BY <1>4, <1>5, <1>7, <1>8, <1>9, WantStore DEF Publish

LEMMA StepStore ==
    ASSUME TypeInv, [Next]_vars
    PROVE  StoreInv'
<1> USE DEF TypeInv
<1>0. data \in Content
  BY DEF StoreInv, StoreTypeOK
<1>1. ASSUME NEW content \in Content, Publish(content), UNCHANGED <<built, store>>, shared' \subseteq shared
      PROVE  StoreInv'
  BY <1>1, PublishStores
<1>2. CASE Unavailable
  <2>1. [data EXCEPT !.healthy = FALSE] \in Content
    BY <1>0 DEF Content
  <2> QED
    BY <1>1, <1>2, <2>1 DEF Unavailable
<1>3. CASE RefreshAccount
  <2>1. [data EXCEPT !.healthy = TRUE] \in Content
    BY <1>0 DEF Content
  <2> QED
    BY <1>1, <1>3, <2>1 DEF RefreshAccount
<1>4. CASE ListDone
  <2>1. [data EXCEPT !.threads = Listed] \in Content
    BY <1>0, ListedType DEF Content
  <2> QED
    BY <1>0, <1>1, <1>4, <2>1 DEF ListDone
<1>5. CASE Connect \/ ProbeFails
  BY <1>0, <1>1, <1>5 DEF Connect, ProbeFails
<1>6. CASE ApplyNote
  BY <1>6, ApplyNoteTypes
<1>7. CASE Tick
  <2>1. PICK p \in Publishers : WantPublish(p)
    BY <1>7 DEF Tick
  <2>2. UNCHANGED <<data, version, built, shared, store>>
    BY <1>7 DEF Tick
  <2>3. data' \in Content /\ version' \in {version, version + 1} /\ version' <= MaxVersion
        /\ built' \in [Publishers -> Snapshots(Content)]
        /\ \A q \in Publishers : publish[q] = "building" => built'[q].data \in Content
    BY <2>2, VersionAssumption DEF StoreInv, StoreTypeOK
  <2> QED
    BY <2>1, <2>2, <2>3, WantStore
<1>8. CASE (\E p \in Publishers : Outside(PublishCopy(p)) \/ Outside(PublishStore(p))) \/ Outside(Receive)
  BY <1>8, CopyTypes, StoreTypes, ReceiveTypes DEF Outside
<1>9. CASE UNCHANGED storeVars
  BY <1>9, UnchangedStore
<1>10. \/ Unavailable \/ RefreshAccount \/ ListDone \/ Connect \/ ProbeFails \/ ApplyNote \/ Tick
       \/ (\E p \in Publishers : Outside(PublishCopy(p)) \/ Outside(PublishStore(p))) \/ Outside(Receive)
       \/ UNCHANGED storeVars
  BY DEF Next, vars, Environment, Read, Proceed, ChangeThread, ReportModel, LoseConnection, GoDown,
         ComeUp, Serve, ReadAnswer, ReadLateAnswer, ReadNote, ListThreads, Repeat, CallFails, GiveUp, Leave
<1> QED
  BY <1>2, <1>3, <1>4, <1>5, <1>6, <1>7, <1>8, <1>9, <1>10

LEMMA InitTypes == Init => TypeInv
<1> SUFFICES ASSUME Init PROVE TypeInv
  OBVIOUS
<1>1. StoreInv
  <2>1. data \in Content /\ version = 1 /\ version \in 1..MaxVersion /\ version \in Nat
    BY VersionAssumption DEF Init, StoreInit, Content
  <2>2. Zero \in Snapshots(Content)
    BY <2>1, ZeroIsSnapshot
  <2> QED
    BY <2>1, <2>2 DEF Init, StoreInit, StoreInv, StoreTypeOK
<1>2. LinkInv
  <2>1. requests \subseteq Request /\ IsFiniteSet(requests) /\ wire \in Seq(Answer \cup Note)
        /\ notes \in Seq(Note) /\ Len(notes) <= QueueSize
    <3>1. requests = {} /\ wire = <<>> /\ notes = <<>>
      BY DEF Init
    <3> QED
      BY <3>1, NothingLeft
  <2>2. events \in 0..MaxEvents
    BY BoundAssumption DEF Init
  <2> QED
    BY <2>1, <2>2 DEF Init, LinkInv
<1>3. CallInv
  <2>1. NoCall \in Call /\ NoCall.state = "none"
    BY BoundAssumption DEF NoCall, Call
  <2> QED
    BY <2>1 DEF Init, CallInv
<1> QED
  BY <1>1, <1>2, <1>3 DEF TypeInv

LEMMA StepTypes ==
    ASSUME ~IsFiniteSet(Ids), TypeInv, [Next]_vars
    PROVE  TypeInv'
<1>1. StoreInv' /\ LinkInv' /\ CallInv'
  BY StepStore, LinkTypes, CallTypes DEF TypeInv
<1> QED
  BY <1>1 DEF TypeInv

(***************************************************************************)
(* The strengthened types are inductive.                                   *)
(***************************************************************************)
THEOREM TypeInvariant ==
    ASSUME ~IsFiniteSet(Ids)
    PROVE  Spec => []TypeInv
<1>1. TypeInv /\ [Next]_vars => TypeInv'
  BY StepTypes
<1> QED
  BY InitTypes, <1>1, PTL DEF Spec

(***************************************************************************)
(* Every variable keeps its type, however many threads, publishers and     *)
(* faults there are, if request ids never run out.                         *)
(***************************************************************************)
THEOREM MonitorTypes ==
    ASSUME ~IsFiniteSet(Ids)
    PROVE  Spec => []TypeOK
<1>1. TypeInv => TypeOK
  BY DEF TypeInv, StoreInv, LinkInv, CallInv, TypeOK, Content
<1> QED
  BY TypeInvariant, <1>1, PTL

-----------------------------------------------------------------------------
(***************************************************************************)
(* Whoever waits for an answer that is asked for or under way waits for    *)
(* its own: the request is of its list and has not been given up.          *)
(***************************************************************************)
OwnAnswers ==
    /\ \A r \in requests, q \in Lists : Waits(q, r.id) => r.list = q /\ ~r.given
    /\ \A i \in DOMAIN wire, q \in Lists :
         IsAnswer(wire[i]) /\ Waits(q, wire[i].id) => wire[i].list = q /\ ~wire[i].given

AnswerInv == OwnAnswers /\ AnswersMatch

\* Nobody begins to wait, nothing is asked and the connection only loses messages.
LEMMA NothingAsked ==
    ASSUME AnswerInv, AnswersMatch',
           \A q \in Lists : calls'[q].state = "asked" => calls[q].state = "asked" /\ calls'[q].id = calls[q].id,
           requests' \subseteq requests,
           \A i \in DOMAIN wire' : IsAnswer(wire'[i]) => \E j \in DOMAIN wire : wire'[i] = wire[j]
    PROVE  AnswerInv'
BY DEF AnswerInv, OwnAnswers, Waits

LEMMA SendAnswers ==
    ASSUME LinkInv, NEW message, Send(message)
    PROVE  \A i \in DOMAIN wire' : wire'[i] = message \/ \E j \in DOMAIN wire : wire'[i] = wire[j]
BY DEF LinkInv, Send

LEMMA ReadAnswers ==
    ASSUME LinkInv, wire # <<>>, wire' = Tail(wire)
    PROVE  /\ Head(wire) = wire[1] /\ 1 \in DOMAIN wire
           /\ \A i \in DOMAIN wire' : \E j \in DOMAIN wire : wire'[i] = wire[j]
<1>1. Len(wire) \in Nat /\ Len(wire) >= 1 /\ DOMAIN wire = 1..Len(wire)
  BY DEF LinkInv
<1>2. DOMAIN wire' = 1..(Len(wire) - 1) /\ \A i \in DOMAIN wire' : wire'[i] = wire[i + 1]
  BY <1>1, HeadTailProperties DEF LinkInv
<1> QED
  BY <1>1, <1>2 DEF LinkInv

LEMMA ServerAnswers ==
    ASSUME LinkInv, AnswerInv, Environment \/ \E r \in requests : Serve(r)
    PROVE  AnswerInv'
<1>1. UNCHANGED calls
  BY DEF Environment, ChangeThread, ReportModel, LoseConnection, GoDown, ComeUp, Serve, watcher
<1>2. AnswersMatch'
  BY <1>1 DEF AnswerInv, AnswersMatch
<1>3. ASSUME NEW message, Send(message), ~IsAnswer(message), UNCHANGED requests
      PROVE  AnswerInv'
  BY <1>1, <1>2, <1>3, SendAnswers, NothingAsked
<1>4. CASE \E t \in Threads : ReportModel(t) \/ \E to \in {"none"} \cup Lists : ChangeThread(t, to)
  <2>1. \A t, kind : ~IsAnswer([thread |-> t, kind |-> kind])
    BY DEF IsAnswer
  <2> QED
    BY <1>3, <1>4, <2>1 DEF ReportModel, ChangeThread
<1>5. CASE LoseConnection \/ GoDown
  <2>1. requests' = {} /\ wire' = <<>>
    BY <1>5 DEF LoseConnection, GoDown, Unlink
  <2> QED
    BY <1>1, <1>2, <2>1, NothingAsked
<1>6. CASE ComeUp
  BY <1>1, <1>2, <1>6, NothingAsked DEF ComeUp, link
<1>7. ASSUME NEW r \in requests, Serve(r)
      PROVE  AnswerInv'
  <2>1. PICK overload, threads :
          Send([id |-> r.id, list |-> r.list, overload |-> overload, given |-> r.given,
                threads |-> threads])
    BY <1>7 DEF Serve
  <2> DEFINE message == [id |-> r.id, list |-> r.list, overload |-> overload, given |-> r.given,
                         threads |-> threads]
  <2>2. message.id = r.id /\ message.list = r.list /\ message.given = r.given
    OBVIOUS
  <2>3. \A i \in DOMAIN wire' : wire'[i] = message \/ \E j \in DOMAIN wire : wire'[i] = wire[j]
    BY <2>1, SendAnswers
  <2> HIDE DEF message
  <2>4. requests' \subseteq requests
    BY <1>7 DEF Serve
  <2>5. \A i \in DOMAIN wire', q \in Lists :
          IsAnswer(wire'[i]) /\ Waits(q, wire'[i].id) => wire'[i].list = q /\ ~wire'[i].given
    BY <2>2, <2>3 DEF AnswerInv, OwnAnswers
  <2>6. OwnAnswers'
    BY <1>1, <2>4, <2>5 DEF AnswerInv, OwnAnswers, Waits
  <2> QED
    BY <1>2, <2>6 DEF AnswerInv
<1> QED
  BY <1>4, <1>5, <1>6, <1>7 DEF Environment

LEMMA ReaderAnswers ==
    ASSUME LinkInv, CallInv, AnswerInv, Read
    PROVE  AnswerInv'
<1>1. wire # <<>> /\ wire' = Tail(wire) /\ UNCHANGED requests
  BY DEF Read, ReadAnswer, ReadLateAnswer, ReadNote
<1>2. /\ Head(wire) = wire[1] /\ 1 \in DOMAIN wire
      /\ \A i \in DOMAIN wire' : \E j \in DOMAIN wire : wire'[i] = wire[j]
  BY <1>1, ReadAnswers
<1>3. CASE UNCHANGED calls
  <2>1. AnswersMatch'
    BY <1>3 DEF AnswerInv, AnswersMatch
  <2> QED
    BY <1>1, <1>2, <1>3, <2>1, NothingAsked
<1>4. ASSUME NEW q \in Lists, ReadAnswer(q)
      PROVE  AnswerInv'
  <2>1. Head(wire) \in Answer
    BY <1>1, <1>4, HeadTailProperties, AnswersAreAnswers DEF ReadAnswer, LinkInv
  <2>2. calls' = [calls EXCEPT ![q] = Settled(calls[q], Head(wire))] /\ calls[q] \in Call
    BY <1>4 DEF ReadAnswer, CallInv
  <2>3. Head(wire).list = q /\ ~Head(wire).given
    BY <1>2, <1>4 DEF ReadAnswer, AnswerInv, OwnAnswers
  <2>4. /\ Settled(calls[q], Head(wire)).state = "done" => Settled(calls[q], Head(wire)).answer = Head(wire)
        /\ Settled(calls[q], Head(wire)).state # "asked"
    BY <2>1, <2>2, SettledType
  <2>5. calls'[q] = Settled(calls[q], Head(wire)) /\ \A p \in Lists \ {q} : calls'[p] = calls[p]
    BY <2>2 DEF CallInv
  <2>6. AnswersMatch'
    BY <2>3, <2>4, <2>5 DEF AnswerInv, AnswersMatch
  <2> QED
    BY <1>1, <1>2, <2>4, <2>5, <2>6, NothingAsked
<1> QED
  BY <1>3, <1>4 DEF Read, ReadLateAnswer, ReadNote, watcher

(***************************************************************************)
(* An id that nobody uses is in no request, no answer and no call.         *)
(***************************************************************************)
LEMMA NewIds ==
    ASSUME NEW id, id \notin UsedIds
    PROVE  /\ \A r \in requests : r.id # id
           /\ \A i \in DOMAIN wire : IsAnswer(wire[i]) => wire[i].id # id
           /\ \A q \in Lists : calls[q].id # id
BY DEF UsedIds

LEMMA ListThreadsAnswers ==
    ASSUME ~IsFiniteSet(Ids), LinkInv, CallInv, AnswerInv, ListThreads
    PROVE  AnswerInv'
<1>1. PICK first, second \in Ids \ UsedIds :
        /\ first # second
        /\ calls' = [q \in Lists |-> Asked(IF q = "open" THEN first ELSE second, 0)]
        /\ requests' = IF linked
                       THEN requests \cup {[id |-> first, list |-> "open", given |-> FALSE],
                                           [id |-> second, list |-> "archived", given |-> FALSE]}
                       ELSE requests
  BY ListThreadsAsks
<1>2. wire' = wire
  BY DEF ListThreads
<1>3. \A q \in Lists : calls'[q].state = "asked" /\ calls'[q].id = IF q = "open" THEN first ELSE second
  BY <1>1 DEF Asked
<1>4. \A q \in Lists : \A id : Waits(q, id)' <=> id = IF q = "open" THEN first ELSE second
  BY <1>3 DEF Waits
<1>5. \A r \in requests, q \in Lists : ~Waits(q, r.id)'
  BY <1>1, <1>4, NewIds
<1>6. \A i \in DOMAIN wire, q \in Lists : IsAnswer(wire[i]) => ~Waits(q, wire[i].id)'
  BY <1>1, <1>2, <1>4, NewIds
<1>7. AnswersMatch'
  BY <1>3 DEF AnswersMatch
<1>8. \A r \in requests', q \in Lists : Waits(q, r.id)' => r.list = q /\ ~r.given
  BY <1>1, <1>4, <1>5 DEF Lists
<1> QED
  BY <1>2, <1>6, <1>7, <1>8 DEF AnswerInv, OwnAnswers, Waits

LEMMA RepeatAnswers ==
    ASSUME ~IsFiniteSet(Ids), LinkInv, CallInv, AnswerInv, NEW q \in Lists, Repeat(q)
    PROVE  AnswerInv'
<1>1. PICK new \in Ids \ UsedIds :
        /\ calls' = [calls EXCEPT ![q] = Asked(new, calls[q].tries + 1)]
        /\ requests' = requests \cup {[id |-> new, list |-> q, given |-> FALSE]}
  BY RepeatAsks
<1>2. wire' = wire
  BY DEF Repeat
<1>3. calls'[q].state = "asked" /\ calls'[q].id = new /\ \A p \in Lists \ {q} : calls'[p] = calls[p]
  BY <1>1 DEF Asked, CallInv
<1>4. \A p \in Lists : \A id : Waits(p, id)' => (p = q /\ id = new) \/ (p # q /\ Waits(p, id) /\ id # new)
  BY <1>1, <1>3, NewIds DEF Waits
<1>5. AnswersMatch'
  BY <1>3 DEF AnswerInv, AnswersMatch
<1>6. \A r \in requests', p \in Lists : Waits(p, r.id)' => r.list = p /\ ~r.given
  BY <1>1, <1>4, NewIds DEF AnswerInv, OwnAnswers
<1>7. \A i \in DOMAIN wire, p \in Lists :
        IsAnswer(wire[i]) /\ Waits(p, wire[i].id)' => wire[i].list = p /\ ~wire[i].given
  BY <1>1, <1>2, <1>4, NewIds DEF AnswerInv, OwnAnswers
<1> QED
  BY <1>2, <1>5, <1>6, <1>7 DEF AnswerInv, OwnAnswers, Waits

LEMMA NobodyWaits ==
    ASSUME AnswersMatch', \A q \in Lists : calls'[q].state # "asked"
    PROVE  AnswerInv'
BY DEF AnswerInv, OwnAnswers, Waits

LEMMA WatcherAnswers ==
    ASSUME ~IsFiniteSet(Ids), LinkInv, CallInv, AnswerInv,
           \/ Proceed \/ GiveUp \/ Unavailable \/ RefreshAccount \/ ListThreads
           \/ ApplyNote \/ Leave \/ ProbeFails
    PROVE  AnswerInv'
<1>1. ASSUME UNCHANGED calls, requests' \subseteq requests, wire' = wire \/ wire' = <<>>
      PROVE  AnswerInv'
  <2>1. AnswersMatch'
    BY <1>1 DEF AnswerInv, AnswersMatch
  <2> QED
    BY <1>1, <2>1, NothingAsked
<1>2. CASE Unavailable \/ Connect \/ RefreshAccount \/ ApplyNote \/ Leave \/ ProbeFails
  BY <1>1, <1>2 DEF Unavailable, Connect, RefreshAccount, ApplyNote, Leave, ProbeFails, Disconnect, Unlink,
                    link, watcher
<1>3. \A q \in Lists : Failed(calls[q]).state = "failed"
  BY DEF CallInv, Call, Failed
<1>4. ASSUME NEW q \in Lists, CallFails(q)
      PROVE  AnswerInv'
  <2>1. calls'[q].state = "failed" /\ (\A p \in Lists \ {q} : calls'[p] = calls[p])
        /\ UNCHANGED <<requests, wire>>
    BY <1>3, <1>4 DEF CallFails, CallInv, link
  <2>2. AnswersMatch'
    BY <2>1 DEF AnswerInv, AnswersMatch
  <2> QED
    BY <2>1, <2>2, NothingAsked
<1>5. CASE GiveUp
  <2>1. \A q \in Lists : calls'[q] = IF Unanswered(q) THEN Failed(calls[q]) ELSE calls[q]
    BY <1>5 DEF GiveUp
  <2>2. \A q \in Lists : calls'[q].state # "asked"
    BY <1>3, <2>1 DEF Unanswered
  <2>3. AnswersMatch'
    BY <1>3, <2>1 DEF AnswerInv, AnswersMatch
  <2> QED
    BY <2>2, <2>3, NobodyWaits
<1>6. CASE ListDone
  <2>1. \A q \in Lists : calls'[q].state = "none"
    BY <1>6 DEF ListDone, NoCall
  <2>2. AnswersMatch'
    BY <2>1 DEF AnswersMatch
  <2> QED
    BY <2>1, <2>2, NobodyWaits
<1> QED
  BY <1>2, <1>4, <1>5, <1>6, ListThreadsAnswers, RepeatAnswers DEF Proceed

LEMMA StepAnswers ==
    ASSUME ~IsFiniteSet(Ids), TypeInv, AnswerInv, [Next]_vars
    PROVE  AnswerInv'
<1> USE DEF TypeInv
<1>1. CASE Tick \/ (\E p \in Publishers : Outside(PublishCopy(p)) \/ Outside(PublishStore(p)))
           \/ Outside(Receive) \/ UNCHANGED vars
  <2>1. UNCHANGED <<calls, requests, wire>>
    BY <1>1 DEF Tick, Outside, vars, link, watcher
  <2> QED
    BY <2>1 DEF AnswerInv, AnswersMatch, OwnAnswers, Waits
<1> QED
  BY <1>1, ServerAnswers, ReaderAnswers, WatcherAnswers DEF Next

(***************************************************************************)
(* client.go:149: whatever times out, is repeated, comes late or is        *)
(* answered out of order, a call of thread/list only ever gets the answer  *)
(* to its own request, if request ids never run out.                       *)
(***************************************************************************)
THEOREM AnswersReachTheirCalls ==
    ASSUME ~IsFiniteSet(Ids)
    PROVE  Spec => []AnswersMatch
<1>1. Init => AnswerInv
  BY DEF Init, AnswerInv, OwnAnswers, AnswersMatch, NoCall, Waits
<1>2. TypeInv /\ AnswerInv /\ [Next]_vars => AnswerInv'
  BY StepAnswers
<1>3. AnswerInv => AnswersMatch
  BY DEF AnswerInv
<1> QED
  BY <1>1, <1>2, <1>3, TypeInvariant, PTL DEF Spec
-----------------------------------------------------------------------------
(***************************************************************************)
(* Snapshots.  publishMu keeps them in order.                              *)
(***************************************************************************)
IsSnapshot(s) == s = [data |-> s.data, version |-> s.version] /\ s.version \in Nat

(***************************************************************************)
(* The one publisher that holds publishMu builds from a copy that is not   *)
(* older than what the store has, and not newer than the data.             *)
(***************************************************************************)
BuildInv ==
    /\ publish \in [Publishers -> {"idle", "waiting", "building"}]
    /\ built = [p \in Publishers |-> built[p]]
    /\ \A p \in Publishers : IsSnapshot(built[p])
    /\ \A p, q \in Publishers : publish[p] = "building" /\ publish[q] = "building" => p = q
    /\ \A p \in Publishers : publish[p] = "building" =>
         current.version <= built[p].version /\ built[p].version <= version

(***************************************************************************)
(* The snapshot in the channel lies between the viewer's and the store's.  *)
(***************************************************************************)
ChannelInv ==
    /\ version \in Nat /\ current.version \in Nat /\ view.version \in Nat
    /\ current.version <= version /\ view.version <= current.version
    /\ channel = <<>> \/ /\ channel = <<channel[1]>> /\ channel[1].version \in Nat
                         /\ view.version <= channel[1].version
                         /\ channel[1].version <= current.version

OrderInv == BuildInv /\ ChannelInv

LEMMA InitOrder == Init => OrderInv
<1> SUFFICES ASSUME Init PROVE OrderInv
  OBVIOUS
<1>1. BuildInv
  BY DEF Init, StoreInit, BuildInv, IsSnapshot, Zero
<1>2. ChannelInv
  BY DEF Init, StoreInit, ChannelInv, Zero
<1> QED
  BY <1>1, <1>2 DEF OrderInv

(***************************************************************************)
(* A step that starts no building, gives nothing to the store and leaves   *)
(* the versions of the snapshots alone.                                    *)
(***************************************************************************)
Quiet ==
    /\ UNCHANGED store
    /\ version' \in Nat /\ version <= version'
    /\ publish' \in [Publishers -> {"idle", "waiting", "building"}]
    /\ \A p \in Publishers : publish'[p] = "building" => publish[p] = "building"
    /\ built' = [p \in Publishers |-> built'[p]]
    /\ \A p \in Publishers : IsSnapshot(built'[p]) /\ built'[p].version = built[p].version

LEMMA QuietKeepsOrder ==
    ASSUME OrderInv, Quiet
    PROVE  OrderInv'
<1>1. BuildInv'
  <2>1. \A p \in Publishers : publish'[p] = "building" =>
          current'.version <= built'[p].version /\ built'[p].version <= version'
    <3> TAKE p \in Publishers
    <3> HAVE publish'[p] = "building"
    <3>1. current.version <= built[p].version /\ built[p].version <= version
      BY DEF OrderInv, BuildInv, Quiet
    <3>2. built[p].version \in Nat /\ version \in Nat
      BY DEF OrderInv, BuildInv, ChannelInv, IsSnapshot
    <3>3. built'[p].version = built[p].version /\ current' = current
      BY DEF Quiet, store
    <3> QED
      BY <3>1, <3>2, <3>3 DEF Quiet
  <2> QED
    BY <2>1 DEF OrderInv, BuildInv, Quiet
<1>2. ChannelInv'
  BY DEF OrderInv, ChannelInv, Quiet, store
<1> QED
  BY <1>1, <1>2 DEF OrderInv

LEMMA UnchangedIsQuiet ==
    ASSUME OrderInv, UNCHANGED <<version, publish, built, store>>
    PROVE  Quiet
BY DEF OrderInv, BuildInv, ChannelInv, Quiet

(***************************************************************************)
(* The data changes and a publisher asks for publishMu.                    *)
(***************************************************************************)
LEMMA WantIsQuiet ==
    ASSUME OrderInv, NEW p, WantPublish(p), UNCHANGED <<built, store>>,
           version' = version \/ version' = version + 1
    PROVE  Quiet
<1>1. version' \in Nat /\ version <= version'
  BY DEF OrderInv, ChannelInv
<1>2. publish' \in [Publishers -> {"idle", "waiting", "building"}]
  BY DEF OrderInv, BuildInv, WantPublish
<1>3. \A q \in Publishers : publish'[q] = "building" => publish[q] = "building"
  BY DEF OrderInv, BuildInv, WantPublish
<1> QED
  BY <1>1, <1>2, <1>3 DEF OrderInv, BuildInv, Quiet

LEMMA PublishWants ==
    ASSUME NEW content, Publish(content)
    PROVE  WantPublish("watcher") /\ (version' = version \/ version' = version + 1)
BY DEF Publish, Becomes

(***************************************************************************)
(* A notification can reach into a snapshot that is being built, but only  *)
(* into its threads.                                                       *)
(***************************************************************************)
LEMMA MixingKeepsVersions ==
    ASSUME NEW s, IsSnapshot(s), NEW threads
    PROVE  /\ IsSnapshot([s EXCEPT !.data.threads = threads])
           /\ [s EXCEPT !.data.threads = threads].version = s.version
BY DEF IsSnapshot

LEMMA ApplyNoteIsQuiet ==
    ASSUME OrderInv, ApplyNote
    PROVE  Quiet
<1> DEFINE list == Applied(data.threads, Head(notes))
<1>1. WantPublish("watcher") /\ (version' = version \/ version' = version + 1)
  BY PublishWants DEF ApplyNote
<1>2. PICK read \in SUBSET DOMAIN list :
        built' = [p \in Publishers |->
                    IF p \notin shared THEN built[p]
                    ELSE [built[p] EXCEPT !.data.threads = Mixed(@, list, read)]]
  BY DEF ApplyNote
<1>3. built' = [p \in Publishers |-> built'[p]]
  BY <1>2
<1>4. \A p \in Publishers : IsSnapshot(built'[p]) /\ built'[p].version = built[p].version
  <2> TAKE p \in Publishers
  <2>1. IsSnapshot(built[p])
    BY DEF OrderInv, BuildInv
  <2>2. built'[p] = built[p]
        \/ built'[p] = [built[p] EXCEPT !.data.threads = Mixed(built[p].data.threads, list, read)]
    BY <1>2
  <2>3. CASE built'[p] = built[p]
    BY <2>1, <2>3
  <2>4. CASE built'[p] = [built[p] EXCEPT !.data.threads = Mixed(built[p].data.threads, list, read)]
    BY <2>1, <2>4, MixingKeepsVersions
  <2> QED
    BY <2>2, <2>3, <2>4
<1>5. UNCHANGED store
  BY DEF ApplyNote
<1>6. version' \in Nat /\ version <= version'
  BY <1>1 DEF OrderInv, ChannelInv
<1>7. /\ publish' \in [Publishers -> {"idle", "waiting", "building"}]
      /\ \A p \in Publishers : publish'[p] = "building" => publish[p] = "building"
  BY <1>1 DEF OrderInv, BuildInv, WantPublish
<1> QED
  BY <1>3, <1>4, <1>5, <1>6, <1>7 DEF Quiet

LEMMA CopyOrder ==
    ASSUME OrderInv, NEW p \in Publishers, PublishCopy(p)
    PROVE  OrderInv' /\ UNCHANGED store
<1> USE DEF OrderInv
<1>1. UNCHANGED <<version, store>>
  BY DEF PublishCopy
<1>2. ChannelInv'
  BY <1>1 DEF ChannelInv, store
<1>3. built'[p] = [data |-> data, version |-> version] /\ built' = [q \in Publishers |-> built'[q]]
  BY DEF PublishCopy, BuildInv
<1>4. \A q \in Publishers \ {p} : built'[q] = built[q] /\ publish'[q] = publish[q] /\ publish[q] # "building"
  BY DEF PublishCopy, BuildInv
<1>5. publish' \in [Publishers -> {"idle", "waiting", "building"}]
  BY DEF PublishCopy, BuildInv
<1>6. \A q \in Publishers : IsSnapshot(built'[q])
  BY <1>3, <1>4 DEF BuildInv, ChannelInv, IsSnapshot
<1>7. \A q, r \in Publishers : publish'[q] = "building" /\ publish'[r] = "building" => q = r
  BY <1>4
<1>8. \A q \in Publishers : publish'[q] = "building" =>
        current'.version <= built'[q].version /\ built'[q].version <= version'
  BY <1>1, <1>3, <1>4 DEF ChannelInv, store
<1> QED
  BY <1>1, <1>2, <1>3, <1>5, <1>6, <1>7, <1>8 DEF BuildInv

LEMMA StoreOrder ==
    ASSUME OrderInv, NEW p \in Publishers, PublishStore(p)
    PROVE  OrderInv' /\ current'.version >= current.version /\ view' = view
<1> USE DEF OrderInv
<1>1. /\ current' = built[p] /\ view' = view /\ version' = version
      /\ channel' = IF channel = <<>> THEN <<built[p]>> ELSE channel
  BY DEF PublishStore
<1>2. built[p].version \in Nat /\ current.version <= built[p].version /\ built[p].version <= version
  BY DEF PublishStore, BuildInv, IsSnapshot
<1>3. ChannelInv'
  BY <1>1, <1>2 DEF ChannelInv
<1>4. \A q \in Publishers : publish'[q] # "building"
  BY DEF PublishStore, BuildInv
<1>5. /\ publish' \in [Publishers -> {"idle", "waiting", "building"}]
      /\ built' = [q \in Publishers |-> built'[q]]
  BY DEF PublishStore, BuildInv
<1>6. \A q \in Publishers : IsSnapshot(built'[q])
  BY DEF PublishStore, BuildInv, IsSnapshot, Zero
<1>7. BuildInv'
  BY <1>4, <1>5, <1>6 DEF BuildInv
<1> QED
  BY <1>1, <1>2, <1>3, <1>7 DEF ChannelInv

LEMMA OneElement ==
    ASSUME NEW c, NEW x, c = <<x>>
    PROVE  Head(c) = x /\ Tail(c) = <<>>
OBVIOUS

LEMMA ReceiveOrder ==
    ASSUME OrderInv, Receive
    PROVE  OrderInv' /\ current' = current /\ view'.version >= view.version
<1> USE DEF OrderInv
<1>1. /\ channel = <<channel[1]>> /\ view' = channel[1] /\ channel' = <<>>
      /\ UNCHANGED <<version, publish, built, current>>
  <2>1. channel # <<>> /\ view' = Head(channel) /\ channel' = Tail(channel)
    BY DEF Receive
  <2>2. channel = <<channel[1]>>
    BY <2>1 DEF ChannelInv
  <2>3. Head(channel) = channel[1] /\ Tail(channel) = <<>>
    BY <2>2, OneElement
  <2> QED
    BY <2>1, <2>2, <2>3 DEF Receive, publisher
<1>2. /\ channel[1].version \in Nat
      /\ view.version <= channel[1].version /\ channel[1].version <= current.version
  BY DEF Receive, ChannelInv
<1>3. ChannelInv'
  BY <1>1, <1>2 DEF ChannelInv
<1>4. BuildInv'
  BY <1>1 DEF BuildInv
<1> QED
  BY <1>1, <1>2, <1>3, <1>4 DEF ChannelInv

(***************************************************************************)
(* Everything else is quiet.                                               *)
(***************************************************************************)
StoreStep ==
    \/ \E p \in Publishers : PublishCopy(p) \/ PublishStore(p)
    \/ Receive

LEMMA OtherStepsAreQuiet ==
    ASSUME OrderInv, [Next]_vars, ~StoreStep
    PROVE  Quiet
<1>1. CASE Environment
  BY <1>1, UnchangedIsQuiet
     DEF Environment, ReportModel, ChangeThread, LoseConnection, GoDown, ComeUp, storeVars, publisher
<1>2. CASE \E r \in requests : Serve(r)
  BY <1>2, UnchangedIsQuiet DEF Serve, storeVars, publisher
<1>3. CASE Read
  BY <1>3, UnchangedIsQuiet DEF Read, ReadAnswer, ReadLateAnswer, ReadNote, storeVars, publisher
<1>4. CASE ListThreads \/ GiveUp \/ Leave \/ \E q \in Lists : Repeat(q) \/ CallFails(q)
  BY <1>4, UnchangedIsQuiet DEF ListThreads, GiveUp, Leave, Repeat, CallFails, storeVars, publisher
<1>5. CASE Unavailable \/ Connect \/ RefreshAccount \/ ListDone \/ ProbeFails
  <2>1. WantPublish("watcher") /\ (version' = version \/ version' = version + 1)
    BY <1>5, PublishWants DEF Unavailable, Connect, RefreshAccount, ListDone, ProbeFails
  <2>2. UNCHANGED <<built, store>>
    BY <1>5 DEF Unavailable, Connect, RefreshAccount, ListDone, ProbeFails
  <2> QED
    BY <2>1, <2>2, WantIsQuiet
<1>6. CASE ApplyNote
  BY <1>6, ApplyNoteIsQuiet
<1>7. CASE Tick
  <2>1. PICK p \in Publishers : WantPublish(p)
    BY <1>7 DEF Tick
  <2> QED
    BY <1>7, <2>1, WantIsQuiet DEF Tick
<1>8. CASE UNCHANGED vars
  BY <1>8, UnchangedIsQuiet DEF vars, storeVars, publisher
<1> QED
  BY <1>1, <1>2, <1>3, <1>4, <1>5, <1>6, <1>7, <1>8 DEF Next, Proceed, StoreStep, Outside

LEMMA StepOrder ==
    ASSUME OrderInv, [Next]_vars
    PROVE  OrderInv' /\ current'.version >= current.version /\ view'.version >= view.version
<1>1. CASE ~StoreStep
  <2>1. Quiet
    BY <1>1, OtherStepsAreQuiet
  <2>2. UNCHANGED <<current, view>>
    BY <2>1 DEF Quiet, store
  <2> QED
    BY <2>1, <2>2, QuietKeepsOrder DEF OrderInv, ChannelInv
<1>2. CASE \E p \in Publishers : PublishCopy(p)
  BY <1>2, CopyOrder DEF store, OrderInv, ChannelInv
<1>3. CASE \E p \in Publishers : PublishStore(p)
  BY <1>3, StoreOrder DEF OrderInv, ChannelInv
<1>4. CASE Receive
  BY <1>4, ReceiveOrder DEF OrderInv, ChannelInv
<1> QED
  BY <1>1, <1>2, <1>3, <1>4 DEF StoreStep

(***************************************************************************)
(* A snapshot being built is not older than the store's, and one in the    *)
(* channel lies between the viewer's and the store's.                      *)
(***************************************************************************)
THEOREM OrderInvariant == Spec => []OrderInv
<1>1. OrderInv /\ [Next]_vars => OrderInv'
  BY StepOrder
<1> QED
  BY InitOrder, <1>1, PTL DEF Spec

(***************************************************************************)
(* publishMu keeps snapshots in order: no publisher, however late, takes   *)
(* the store or the viewer back to an older state of the data.             *)
(***************************************************************************)
THEOREM ViewsNeverGoBack == Spec => SnapshotsInOrder
<1>1. OrderInv /\ [Next]_vars =>
        [current'.version >= current.version /\ view'.version >= view.version]_store
  BY StepOrder
<1> QED
  BY OrderInvariant, <1>1, PTL DEF Spec, SnapshotsInOrder
=============================================================================
