----------------------------- MODULE DepthFeed -----------------------------
(***************************************************************************)
(* The depth feed (internal/market/orderbook_feed.go) over the order book: *)
(* one goroutine polls the book's snapshot, skips it when the version is   *)
(* the one it sent last, and hands it to the hub, which shows it to the    *)
(* subscribers.  The book moves on between poll and broadcast.             *)
(***************************************************************************)
EXTENDS OrderBook

VARIABLES
    lastVersion,  \* version of the snapshot sent last, or NoVersion
    outgoing,     \* the snapshot on its way to the hub, or NoDepth
    shown         \* what subscribers saw last, or NoDepth

feedVars == <<lastVersion, outgoing, shown>>

NoVersion == 0 - 1
NoDepth == [version |-> NoVersion, levels |-> <<>>]

\* Snapshot: the volume of every level, per side, at the current version.
Snapshot ==
    [version |-> version,
     levels |-> [s \in Sides |-> [p \in tree[s] |-> volume[s][p]]]]

FeedInit ==
    /\ Init
    /\ lastVersion = NoVersion
    /\ outgoing = NoDepth
    /\ shown = NoDepth

\* publish takes a snapshot under the book's mutex and marks it as sent.
Poll ==
    /\ taker = NoOrder
    /\ outgoing = NoDepth
    /\ lastVersion # Snapshot.version
    /\ lastVersion' = Snapshot.version
    /\ outgoing' = Snapshot
    /\ UNCHANGED <<vars, shown>>

\* The hub takes it over the unbuffered Broadcast channel.
Broadcast ==
    /\ outgoing # NoDepth
    /\ shown' = outgoing
    /\ outgoing' = NoDepth
    /\ UNCHANGED <<vars, lastVersion>>

-----------------------------------------------------------------------------
\* The version stands for the depth: while the book has the version a
\* subscriber saw, it has the depth the subscriber saw (the reason publish may
\* skip an unchanged version).
VersionTellsDepth ==
    (taker = NoOrder /\ shown.version = version) => shown = Snapshot

\* Subscribers never see a crossed book or an empty level, though the snapshot
\* is old by the time it is shown.
ShownIsABook ==
    shown # NoDepth =>
        /\ \A b \in DOMAIN shown.levels["buy"], a \in DOMAIN shown.levels["sell"] :
              b < a
        /\ \A s \in Sides : \A p \in DOMAIN shown.levels[s] :
              shown.levels[s][p] > 0

\* What the feed shows can be relied on: it is a depth the book had, and has
\* as long as it keeps its version, though publish skips unchanged versions and
\* the hub takes a depth over after the book has moved on.
FeedIsFaithful == VersionTellsDepth /\ ShownIsABook
=============================================================================
