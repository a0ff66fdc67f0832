--------------------------- MODULE SnapshotStore ---------------------------
(***************************************************************************)
(* How the monitor's data reaches a viewer (internal/monitor, types.go and *)
(* publish in service.go).  Several goroutines publish: each copies the    *)
(* data and hands a snapshot built from the copy to the store, with        *)
(* publishMu held all the while.  The store keeps the last snapshot and    *)
(* offers it to a subscriber, whose channel has room for one.              *)
(***************************************************************************)
EXTENDS Naturals, Sequences

CONSTANTS
    Publishers, \* goroutines that call publish
    MaxVersion  \* changes are counted up to this one

ASSUME VersionAssumption == MaxVersion \in Nat \ {0}

VARIABLES
    data,    \* the data of the service
    version, \* history: counts its changes
    publish, \* what each publisher is doing
    built,   \* the snapshot it builds
    shared,  \* publishers whose copy shares its lists with the data
    current, \* the snapshot of the store
    channel, \* the one waiting for the subscriber
    view     \* the one the subscriber shows

publisher == <<publish, built, shared>>
store == <<current, channel, view>>
storeVars == <<data, version, publisher, store>>

Zero == [data |-> <<>>, version |-> 0]
Snapshots(Contents) == [data : Contents \cup {<<>>}, version : 0..version]

StoreTypeOK(Contents) ==
    /\ data \in Contents /\ version \in 1..MaxVersion
    /\ publish \in [Publishers -> {"idle", "waiting", "building"}]
    /\ built \in [Publishers -> Snapshots(Contents)]
    /\ shared \subseteq {p \in Publishers : publish[p] = "building"}
    /\ current \in Snapshots(Contents) /\ view \in Snapshots(Contents)
    /\ channel \in Seq(Snapshots(Contents)) /\ Len(channel) <= 1

StoreInit(content) ==
    /\ data = content /\ version = 1
    /\ publish = [p \in Publishers |-> "idle"]
    /\ built = [p \in Publishers |-> Zero]
    /\ shared = {}
    /\ current = Zero /\ channel = <<>> /\ view = Zero

Becomes(content) ==
    /\ data' = content
    /\ version' = IF content = data \/ version = MaxVersion THEN version ELSE version + 1

WantPublish(p) ==
    /\ publish[p] = "idle"
    /\ publish' = [publish EXCEPT ![p] = "waiting"]

\* A mistake: the data is copied without publishMu.
CopyUnlocked(p) ==
    /\ publish[p] = "waiting"
    /\ publish' = [publish EXCEPT ![p] = "building"]
    /\ built' = [built EXCEPT ![p] = [data |-> data, version |-> version]]
    /\ shared' = shared \cup {p}
    /\ UNCHANGED <<data, version, store>>

PublishCopy(p) ==
    /\ publish[p] = "waiting"
    /\ \A q \in Publishers : publish[q] # "building"
    /\ publish' = [publish EXCEPT ![p] = "building"]
    /\ built' = [built EXCEPT ![p] = [data |-> data, version |-> version]]
    /\ shared' = shared \cup {p}
    /\ UNCHANGED <<data, version, store>>

(***************************************************************************)
(* A subscriber that has not taken the previous snapshot keeps that one.   *)
(***************************************************************************)
PublishStore(p) ==
    /\ publish[p] = "building"
    /\ current' = built[p]
    /\ channel' = IF channel = <<>> THEN <<built[p]>> ELSE channel
    /\ publish' = [publish EXCEPT ![p] = "idle"]
    /\ built' = [built EXCEPT ![p] = Zero]
    /\ shared' = shared \ {p}
    /\ UNCHANGED <<data, version, view>>

Receive ==
    /\ channel # <<>>
    /\ view' = Head(channel) /\ channel' = Tail(channel)
    /\ UNCHANGED <<data, version, publisher, current>>
-----------------------------------------------------------------------------
(***************************************************************************)
(* publishMu (service.go:556): whoever publishes, neither the store nor    *)
(* the subscriber ever goes back to an older state of the data.            *)
(***************************************************************************)
SnapshotsInOrder ==
    [][current'.version >= current.version /\ view'.version >= view.version]_store
=============================================================================
