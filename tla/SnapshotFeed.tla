---------------------------- MODULE SnapshotFeed ----------------------------
(***************************************************************************)
(* monitor.Store and one subscription to it (internal/monitor/types.go).   *)
(* Publish sets the current snapshot and offers it to the channel of the   *)
(* subscriber, which has room for one; what the channel has no room for is *)
(* dropped.  Whoever subscribes is given the current snapshot.  Both hold  *)
(* the lock of the store from beginning to end.                            *)
(*                                                                         *)
(* What there is to show changes from one element of feed to the next; a   *)
(* snapshot is known by the index of its element, 0 before the first.      *)
(***************************************************************************)
EXTENDS SnapshotViews

CONSTANTS
    Feeds,   \* for each command, sequences of what app-servers report
    WireSize \* snapshots on the way from the channel to the viewer

ASSUME FeedsAssumption ==
    /\ DOMAIN Feeds = {"ui", "dashboard"}
    /\ \A c \in DOMAIN Feeds : \A f \in Feeds[c] : f \in Seq(Seq(Thread))
ASSUME WireAssumption == WireSize \in Nat \ {0}

VARIABLES
    command,    \* what the user has started
    feed,       \* what the service has to publish; never changes
    current,    \* the snapshot of the store
    subscribed, \* whether there is a channel
    channel,    \* what is in it
    wire        \* what a connection or a message holds

feedVars == <<command, feed, current, subscribed, channel, wire>>

Snapshot == 0..Len(feed)
Threads(v) == IF v = 0 THEN <<>> ELSE feed[v]

FeedTypeOK ==
    /\ command \in DOMAIN Feeds /\ feed \in Feeds[command]
    /\ current \in Snapshot
    /\ subscribed \in BOOLEAN
    /\ channel \in Seq(Snapshot) /\ Len(channel) <= 1
    /\ wire \in Seq(Snapshot) /\ Len(wire) <= WireSize

FeedInit ==
    /\ command \in DOMAIN Feeds /\ feed \in Feeds[command]
    /\ current = 0
    /\ subscribed = FALSE /\ channel = <<>> /\ wire = <<>>

\* A mistake: what the store has already is not offered once more.
OfferChanges(v) ==
    channel' = IF subscribed /\ channel = <<>> /\ v # current THEN <<v>> ELSE channel

\* A mistake: every snapshot waits in the channel for a slow viewer.
OfferAll(v) ==
    channel' = IF subscribed THEN Append(channel, v) ELSE channel

Offer(v) ==
    channel' = IF subscribed /\ channel = <<>> THEN <<v>> ELSE channel

(***************************************************************************)
(* The service publishes what is new, and every five seconds what it has.  *)
(***************************************************************************)
Publish ==
    /\ \E v \in {current, current + 1} \cap 1..Len(feed) :
         /\ Offer(v)
         /\ current' = v
    /\ UNCHANGED <<command, feed, subscribed, wire>>

Subscribe ==
    /\ subscribed' = TRUE
    /\ channel' = IF current = 0 THEN <<>> ELSE <<current>>
    /\ wire' = <<>>
    /\ UNCHANGED <<command, feed, current>>

Unsubscribe ==
    /\ subscribed' = FALSE
    /\ channel' = <<>> /\ wire' = <<>>
    /\ UNCHANGED <<command, feed, current>>

(***************************************************************************)
(* The subscriber takes a snapshot out of the channel: waitSnapshot, or    *)
(* the loop of events.  The viewer shows it later.                         *)
(***************************************************************************)
Forward ==
    /\ channel # <<>> /\ Len(wire) < WireSize
    /\ wire' = Append(wire, Head(channel))
    /\ channel' = Tail(channel)
    /\ UNCHANGED <<command, feed, current, subscribed>>

Delivered == wire' = Tail(wire) /\ UNCHANGED <<command, feed, current, subscribed, channel>>
=============================================================================
