-------------------------- MODULE MarketHubProofs --------------------------
(***************************************************************************)
(* Proofs about the depth feed and the hub, for every book, every set of   *)
(* clients and every size of their buffers: what the feed shows is a depth *)
(* the book had, a Send channel is closed once, and no client of the hub   *)
(* misses a depth.                                                         *)
(***************************************************************************)
EXTENDS MarketHub, OrderBookProofs

-----------------------------------------------------------------------------
\* The depth feed.

Depths == [version : Nat,
           levels : [Sides -> UNION {[T -> Int] : T \in SUBSET Prices}]]

\* A depth that was polled: the book had it, has not gone back behind it, and
\* still has it as long as the version is the same and nobody is matching.
Sound(d) ==
    /\ d.version <= version
    /\ taker = NoOrder /\ d.version = version => d = Snapshot
    /\ \A b \in DOMAIN d.levels["buy"], a \in DOMAIN d.levels["sell"] : b < a
    /\ \A s \in Sides : \A p \in DOMAIN d.levels[s] : d.levels[s][p] > 0

FeedInv ==
    /\ QuantityInv
    /\ shown \in Depths \cup {NoDepth}
    /\ outgoing \in Depths \cup {NoDepth}
    /\ shown # NoDepth => Sound(shown)
    /\ outgoing # NoDepth => Sound(outgoing)

LEMMA NoSuchDepth == NoDepth \notin Depths /\ NoDepth # Ticker /\ Ticker \notin Depths
<1>1. NoDepth.version = 0 - 1 /\ Ticker.version = 0 - 1
  BY DEF NoDepth, NoVersion, Ticker
<1>2. \A d \in Depths : d.version \in Nat
  BY DEF Depths
<1>3. NoDepth.levels # Ticker.levels
  BY DEF NoDepth, Ticker
<1> QED BY <1>1, <1>2, <1>3

\* A level of the book has lots to trade.
LEMMA LevelsHaveLots ==
  ASSUME QuantityInv, NEW s \in Sides, NEW p \in tree[s]
  PROVE  volume[s][p] > 0
<1> USE DEF QuantityInv, Inv
<1> DEFINE level == Ids(queue[s][p])
<1>1. p \in Prices /\ queue[s][p] # <<>>
  BY DEF TypeOK, IndexesAgree
<1>2. /\ IsFiniteSet(level) /\ level \subseteq byId
      /\ \A k \in level : Left[k] = Remaining(orders[k]) /\ Left[k] \in Int
  BY <1>1, LevelIds
<1>3. \A k \in level : Left[k] \in Nat /\ Left[k] > 0
  BY <1>2 DEF IndexesAgree
<1>4. PICK k : k \in level
  <2> DEFINE q == queue[s][p]
  <2>1. q \in Seq(1..Len(orders)) /\ q # <<>>
    BY <1>1 DEF TypeOK
  <2>2. 1 \in DOMAIN q
    BY <2>1, EmptySeq, LenProperties
  <2> QED BY <2>2 DEF Ids
<1>5. volume[s][p] = SumOver(Left, level)
  BY DEF LevelsSum
<1> HIDE DEF level
<1> QED BY <1>2, <1>3, <1>4, <1>5, SumNat

\* What a poll takes is a sound depth.
LEMMA SnapshotIsSound ==
  ASSUME QuantityInv
  PROVE  Snapshot \in Depths /\ Sound(Snapshot)
<1> USE DEF QuantityInv, Inv
<1>1. /\ Snapshot.version = version
      /\ Snapshot.levels = [s \in Sides |-> [p \in tree[s] |-> volume[s][p]]]
  BY DEF Snapshot
<1>2. \A s \in Sides : [p \in tree[s] |-> volume[s][p]] \in [tree[s] -> Int] /\ tree[s] \subseteq Prices
  BY DEF TypeOK
<1>3. Snapshot \in Depths
  BY <1>2 DEF Depths, Snapshot, TypeOK
<1>4. \A s \in Sides : \A p \in tree[s] : volume[s][p] > 0
  BY LevelsHaveLots
<1> QED BY <1>1, <1>3, <1>4 DEF Sound, TypeOK, NotCrossed, Sides

\* The book takes a step while a depth is on its way or shown.
LEMMA BookStepFeedInv ==
  ASSUME FeedInv, [Next]_vars, UNCHANGED <<shown, outgoing>>
  PROVE  FeedInv'
<1> USE DEF FeedInv
<1>1. QuantityInv'
  BY NextQuantities
<1>2. version \in Nat
  BY DEF QuantityInv, Inv, TypeOK
<1>3. \/ UNCHANGED version /\ taker' # NoOrder
      \/ version' = version + 1
      \/ UNCHANGED vars
  <2>1. ASSUME NEW o \in Inputs, Place(o) PROVE UNCHANGED version /\ taker' # NoOrder
    BY <2>1, LenProperties DEF Place, NoOrder, QuantityInv, Inv, TypeOK
  <2>2. CASE PreventSelfTrade \/ Fill
    BY <2>2 DEF PreventSelfTrade, Fill, Matching
  <2> QED BY <2>1, <2>2 DEF Next, Finish, Cancel
<1>4. ASSUME NEW d \in Depths, Sound(d)
      PROVE  /\ d.version <= version'
             /\ taker' = NoOrder /\ d.version = version' => d = Snapshot'
  <2>1. d.version \in Nat
    BY DEF Depths
  <2>2. UNCHANGED vars => Snapshot' = Snapshot
    BY DEF vars, bookVars, Snapshot
  <2> QED BY <1>2, <1>3, <1>4, <2>1, <2>2 DEF Sound, vars
<1>5. shown # NoDepth => Sound(shown)'
  BY <1>4 DEF Sound
<1>6. outgoing # NoDepth => Sound(outgoing)'
  BY <1>4 DEF Sound
<1> QED BY <1>1, <1>5, <1>6

LEMMA PollFeedInv ==
  ASSUME FeedInv, Poll
  PROVE  FeedInv'
<1> USE DEF FeedInv
<1>1. UNCHANGED vars /\ shown' = shown /\ outgoing' = Snapshot
  BY DEF Poll
<1>2. Snapshot' = Snapshot /\ QuantityInv'
  BY <1>1, NextQuantities DEF vars, bookVars, Snapshot
<1>3. Snapshot \in Depths /\ Sound(Snapshot)
  BY SnapshotIsSound
<1>4. UNCHANGED <<version, taker>>
  BY <1>1 DEF vars
<1> QED BY <1>1, <1>2, <1>3, <1>4 DEF Sound

LEMMA BroadcastFeedInv ==
  ASSUME FeedInv, Broadcast
  PROVE  FeedInv'
<1> USE DEF FeedInv
<1>1. UNCHANGED vars /\ shown' = outgoing /\ outgoing' = NoDepth /\ outgoing # NoDepth
  BY DEF Broadcast
<1>2. Snapshot' = Snapshot /\ QuantityInv'
  BY <1>1, NextQuantities DEF vars, bookVars, Snapshot
<1>4. UNCHANGED <<version, taker>>
  BY <1>1 DEF vars
<1> QED BY <1>1, <1>2, <1>4 DEF Sound

LEMMA FeedInvInit == FeedInit => FeedInv
BY InitQuantities DEF FeedInit, FeedInv

-----------------------------------------------------------------------------
\* The hub and its clients.

Messages == Depths \cup {Ticker}

HubTypeOK ==
    /\ clients \subseteq Clients
    /\ send \in [Clients -> Seq(Messages)]
    /\ closings \in [Clients -> Nat]
    /\ conn \in [Clients -> {"none", "open", "gone"}]
    /\ writer \in [Clients -> BOOLEAN]
    /\ reader \in [Clients -> {"off", "on", "leaving"}]
    /\ seen \in [Clients -> Depths \cup {NoDepth}]

\* Who has not connected has left nothing at the hub.
NewcomersAreNew ==
    \A c \in Clients : conn[c] = "none" =>
        c \notin clients /\ send[c] = <<>> /\ closings[c] = 0 /\ seen[c] = NoDepth

HubInv == FeedInv /\ HubTypeOK /\ NewcomersAreNew /\ ClosedOnce /\ NoGaps

\* The depths in a buffer, and that client c has got what was shown last: the
\* part of NoGaps that speaks of one client.
DepthsIn(q) == {i \in DOMAIN q : q[i] # Ticker}
UpToDate(q, s, d) ==
    IF DepthsIn(q) = {} THEN s \in {NoDepth, d}
    ELSE \E i \in DepthsIn(q) : q[i] = d /\ \A j \in DepthsIn(q) : j <= i

LEMMA NoGapsIs ==
  /\ NoGaps <=> \A c \in clients : conn[c] = "open" => UpToDate(send[c], seen[c], shown)
  /\ NoGaps' <=> \A c \in clients' : conn'[c] = "open" => UpToDate(send'[c], seen'[c], shown')
BY DEF NoGaps, UpToDate, DepthsIn

\* A depth put into a buffer is its last; a price behind it changes nothing.
LEMMA AppendUpToDate ==
  ASSUME NEW q \in Seq(Messages), NEW s, NEW d, NEW m \in Messages
  PROVE  /\ Append(q, m) \in Seq(Messages)
         /\ m # Ticker => UpToDate(Append(q, m), s, m)
         /\ m = Ticker /\ UpToDate(q, s, d) => UpToDate(Append(q, m), s, d)
<1> DEFINE n == Len(q)
           t == Append(q, m)
<1>1. /\ n \in Nat /\ DOMAIN q = 1..n /\ t \in Seq(Messages) /\ DOMAIN t = 1..(n + 1)
      /\ \A i \in 1..n : t[i] = q[i]
      /\ t[n + 1] = m
  BY AppendProperties, LenProperties
<1> HIDE DEF n, t
<1>2. ASSUME m # Ticker PROVE UpToDate(t, s, m)
  <2>1. n + 1 \in DepthsIn(t) /\ \A j \in DepthsIn(t) : j <= n + 1
    BY <1>1, <1>2 DEF DepthsIn
  <2> QED BY <1>1, <2>1 DEF UpToDate
<1>3. ASSUME m = Ticker PROVE DepthsIn(t) = DepthsIn(q)
  <2>1. 1..(n + 1) = (1..n) \cup {n + 1} /\ n + 1 \notin 1..n
    BY <1>1
  <2> QED BY <1>1, <1>3, <2>1 DEF DepthsIn
<1>4. ASSUME m = Ticker, UpToDate(q, s, d) PROVE UpToDate(t, s, d)
  <2>1. \A i \in DepthsIn(q) : t[i] = q[i]
    BY <1>1 DEF DepthsIn
  <2> QED BY <1>3, <1>4, <2>1 DEF UpToDate
<1> QED BY <1>1, <1>2, <1>4 DEF t

\* The oldest message of a buffer reaches the client.
LEMMA TailUpToDate ==
  ASSUME NEW q \in Seq(Messages), q # <<>>, NEW s, NEW d
  PROVE  /\ Tail(q) \in Seq(Messages) /\ Head(q) \in Messages
         /\ UpToDate(q, s, d) =>
              UpToDate(Tail(q), IF Head(q) = Ticker THEN s ELSE Head(q), d)
<1> DEFINE n == Len(q)
           t == Tail(q)
<1>1. /\ n \in Nat \ {0} /\ DOMAIN q = 1..n /\ t \in Seq(Messages) /\ DOMAIN t = 1..(n - 1)
      /\ \A i \in 1..(n - 1) : t[i] = q[i + 1]
      /\ Head(q) = q[1] /\ q[1] \in Messages
  BY EmptySeq, LenProperties, HeadTailProperties, ElementOfSeq
<1> HIDE DEF n, t
<1>2. \A i \in 1..(n - 1) : i \in DepthsIn(t) <=> i + 1 \in DepthsIn(q)
  BY <1>1 DEF DepthsIn
<1>3. \A i \in DepthsIn(q) : i \in 1..n /\ (i = 1 \/ i - 1 \in DepthsIn(t))
  <2> TAKE i \in DepthsIn(q)
  <2>1. i \in 1..n
    BY <1>1 DEF DepthsIn
  <2>2. i # 1 => i - 1 \in 1..(n - 1) /\ (i - 1) + 1 = i
    BY <1>1, <2>1
  <2> QED BY <1>2, <2>1, <2>2
<1>4. DepthsIn(t) \subseteq 1..(n - 1)
  BY <1>1 DEF DepthsIn
<1>5. ASSUME UpToDate(q, s, d)
      PROVE  UpToDate(t, IF Head(q) = Ticker THEN s ELSE Head(q), d)
  <2>1. CASE DepthsIn(t) # {}
    <3>1. PICK k \in DepthsIn(t) : TRUE
      BY <2>1
    <3>2. k + 1 \in DepthsIn(q) /\ k >= 1
      BY <1>1, <1>2, <1>4, <3>1
    <3>3. PICK i \in DepthsIn(q) : q[i] = d /\ \A j \in DepthsIn(q) : j <= i
      BY <1>5, <3>2 DEF UpToDate
    <3>4. i # 1 /\ i \in 1..n
      BY <1>1, <1>3, <1>4, <3>1, <3>2, <3>3
    <3>5. i - 1 \in DepthsIn(t) /\ t[i - 1] = d
      <4>1. i - 1 \in 1..(n - 1) /\ (i - 1) + 1 = i
        BY <1>1, <3>4
      <4> QED BY <1>1, <1>3, <3>3, <3>4, <4>1
    <3>6. \A j \in DepthsIn(t) : j <= i - 1
      <4> TAKE j \in DepthsIn(t)
      <4>1. j \in 1..(n - 1) /\ j + 1 \in DepthsIn(q)
        BY <1>2, <1>4
      <4>2. j + 1 <= i
        BY <3>3, <4>1
      <4> QED BY <1>1, <3>4, <4>1, <4>2
    <3> QED BY <3>5, <3>6 DEF UpToDate
  <2>2. CASE DepthsIn(t) = {}
    <3>1. CASE q[1] = Ticker
      <4>1. DepthsIn(q) = {}
        BY <1>3, <2>2, <3>1 DEF DepthsIn
      <4> QED BY <1>1, <1>5, <2>2, <3>1, <4>1 DEF UpToDate
    <3>2. CASE q[1] # Ticker
      <4>1. 1 \in DepthsIn(q)
        BY <1>1, <3>2 DEF DepthsIn
      <4>2. PICK i \in DepthsIn(q) : q[i] = d
        BY <1>5, <4>1 DEF UpToDate
      <4>3. i = 1
        BY <1>3, <2>2
      <4> QED BY <1>1, <2>2, <3>2, <4>2, <4>3 DEF UpToDate
    <3> QED BY <3>1, <3>2
  <2> QED BY <2>1, <2>2
<1> QED BY <1>1, <1>5 DEF t

-----------------------------------------------------------------------------
\* The steps of the hub's goroutine.

\* A broadcast: each client gets the message or is dropped.
LEMMA DeliverInv ==
  ASSUME HubInv, NEW message \in Messages, Deliver(message), FeedInv',
         IF message = Ticker THEN shown' = shown ELSE shown' = message
  PROVE  HubInv'
<1> USE DEF HubInv, HubTypeOK
<1> DEFINE full == {c \in clients : Len(send[c]) = Buffer}
<1>1. /\ send' = [c \in Clients |-> IF c \in clients \ full
                                    THEN Append(send[c], message) ELSE send[c]]
      /\ clients' = clients \ full
      /\ closings' = [c \in Clients |-> closings[c] + (IF c \in full THEN 1 ELSE 0)]
      /\ UNCHANGED <<conn, writer, reader, seen>>
  BY DEF Deliver, Close, pumps
<1>2. full \subseteq clients
  OBVIOUS
<1> HIDE DEF full
<1>3. \A c \in Clients : Append(send[c], message) \in Seq(Messages)
  BY AppendUpToDate
<1>4. send' \in [Clients -> Seq(Messages)] /\ closings' \in [Clients -> Nat]
  BY <1>1, <1>3
<1>5. NewcomersAreNew'
  BY <1>1, <1>2 DEF NewcomersAreNew
<1>6. ClosedOnce'
  BY <1>1, <1>2 DEF ClosedOnce
<1>7. ASSUME NEW c \in clients', conn'[c] = "open"
      PROVE  UpToDate(send'[c], seen'[c], shown')
  <2>1. c \in Clients /\ c \in clients /\ send'[c] = Append(send[c], message)
    BY <1>1
  <2>2. UpToDate(send[c], seen[c], shown)
    BY <1>1, <1>7, <2>1, NoGapsIs
  <2>3. send[c] \in Seq(Messages) /\ seen'[c] = seen[c]
    BY <1>1, <2>1
  <2> QED BY <2>1, <2>2, <2>3, AppendUpToDate
<1> QED BY <1>1, <1>4, <1>5, <1>6, <1>7, NoGapsIs

LEMMA BroadcastsInv ==
  ASSUME HubInv, BroadcastDepth \/ BroadcastTicker
  PROVE  HubInv'
<1>1. CASE BroadcastDepth
  <2>1. Broadcast /\ Deliver(outgoing) /\ outgoing \in Depths /\ shown' = outgoing
    BY <1>1 DEF BroadcastDepth, Broadcast, HubInv, FeedInv
  <2>2. outgoing \in Messages /\ outgoing # Ticker
    BY <2>1, NoSuchDepth DEF Messages
  <2>3. FeedInv'
    BY <2>1, BroadcastFeedInv DEF HubInv
  <2> QED BY <2>1, <2>2, <2>3, DeliverInv
<1>2. CASE BroadcastTicker
  <2>1. Deliver(Ticker) /\ UNCHANGED vars /\ UNCHANGED <<shown, outgoing>>
    BY <1>2 DEF BroadcastTicker, feedVars
  <2>2. FeedInv'
    BY <2>1, BookStepFeedInv DEF HubInv
  <2>3. Ticker \in Messages
    BY DEF Messages
  <2> QED BY <2>1, <2>2, <2>3, DeliverInv
<1> QED BY <1>1, <1>2

LEMMA ClientsInv ==
  ASSUME HubInv, NEW c \in Clients, ClientStep(c), FeedInv', UNCHANGED shown
  PROVE  HubInv'
<1> USE DEF HubInv, HubTypeOK
<1>1. CASE Register(c)
  <2>1. DepthsIn(<<>>) = {}
    BY DEF DepthsIn
  <2>2. HubTypeOK' /\ NewcomersAreNew' /\ ClosedOnce'
    BY <1>1 DEF Register, NewcomersAreNew, ClosedOnce
  <2>3. \A x \in clients' : conn'[x] = "open" => UpToDate(send'[x], seen'[x], shown')
    BY <1>1, <2>1, NoGapsIs DEF Register, NewcomersAreNew, UpToDate
  <2> QED BY <2>2, <2>3, NoGapsIs
<1>2. CASE Unregister(c)
  <2>1. /\ clients' = clients \ {c} /\ reader' = [reader EXCEPT ![c] = "off"]
        /\ closings' = [x \in Clients |-> closings[x] + (IF x \in {c} \cap clients THEN 1 ELSE 0)]
        /\ UNCHANGED <<send, conn, writer, seen>>
    BY <1>2 DEF Unregister, Close
  <2>2. HubTypeOK' /\ NewcomersAreNew' /\ ClosedOnce'
    <3>1. \A x \in Clients :
            closings'[x] = IF x = c /\ c \in clients THEN closings[x] + 1 ELSE closings[x]
      BY <2>1
    <3>2. HubTypeOK'
      BY <2>1, <3>1
    <3>3. NewcomersAreNew'
      BY <2>1, <3>1 DEF NewcomersAreNew
    <3>4. ClosedOnce'
      BY <2>1, <3>1 DEF ClosedOnce
    <3> QED BY <3>2, <3>3, <3>4
  <2>3. NoGaps'
    BY <2>1, NoGapsIs
  <2> QED BY <2>2, <2>3
<1>3. CASE Write(c)
  <2>1. /\ send[c] # <<>> /\ conn[c] = "open" /\ send' = [send EXCEPT ![c] = Tail(@)]
        /\ seen' = [seen EXCEPT ![c] = IF Head(send[c]) = Ticker THEN @ ELSE Head(send[c])]
        /\ UNCHANGED <<clients, closings, conn, writer, reader>>
    BY <1>3 DEF Write
  <2>2. Tail(send[c]) \in Seq(Messages) /\ Head(send[c]) \in Messages
    BY <2>1, TailUpToDate
  <2>3. HubTypeOK' /\ NewcomersAreNew' /\ ClosedOnce'
    BY <2>1, <2>2 DEF NewcomersAreNew, ClosedOnce, Messages
  <2>4. ASSUME NEW x \in clients', conn'[x] = "open"
        PROVE  UpToDate(send'[x], seen'[x], shown')
    <3>1. x \in clients /\ x \in Clients /\ UpToDate(send[x], seen[x], shown)
      BY <2>1, <2>4, NoGapsIs
    <3>2. CASE x = c
      <4>1. /\ send'[c] = Tail(send[c])
            /\ seen'[c] = IF Head(send[c]) = Ticker THEN seen[c] ELSE Head(send[c])
        BY <2>1
      <4> QED BY <2>1, <3>1, <3>2, <4>1, TailUpToDate
    <3>3. CASE x # c
      BY <2>1, <3>1, <3>3
    <3> QED BY <3>2, <3>3
  <2> QED BY <2>3, <2>4, NoGapsIs
<1>4. CASE WriterEnds(c) \/ ReaderEnds(c) \/ Disconnect(c)
  <2>1. /\ conn' \in [Clients -> {"none", "open", "gone"}]
        /\ \A x \in Clients : conn'[x] = conn[x] \/ conn'[x] = "gone"
        /\ writer' \in [Clients -> BOOLEAN]
        /\ reader' \in [Clients -> {"off", "on", "leaving"}]
        /\ UNCHANGED <<clients, send, closings, seen>>
    BY <1>4 DEF WriterEnds, ReaderEnds, Disconnect
  <2>2. HubTypeOK' /\ ClosedOnce'
    <3>1. ClosedOnce'
      BY <2>1 DEF ClosedOnce
    <3> QED BY <2>1, <3>1
  <2>3. NewcomersAreNew'
    <3>1. \A x \in Clients : conn'[x] = "none" => conn[x] = "none"
      BY <2>1
    <3> QED BY <2>1, <3>1 DEF NewcomersAreNew
  <2>4. NoGaps'
    BY <2>1, NoGapsIs
  <2> QED BY <2>2, <2>3, <2>4
<1> QED BY <1>1, <1>2, <1>3, <1>4 DEF ClientStep

LEMMA HubInitInv == HubInit => HubInv
<1> SUFFICES ASSUME HubInit PROVE HubInv
  OBVIOUS
<1>1. HubTypeOK /\ NewcomersAreNew /\ ClosedOnce /\ NoGaps
  BY EmptySeq DEF HubInit, HubTypeOK, NewcomersAreNew, ClosedOnce, NoGaps
<1> QED BY <1>1, FeedInvInit DEF HubInit, HubInv

LEMMA HubNextInv == HubInv /\ [HubNext]_allVars => HubInv'
<1> SUFFICES ASSUME HubInv, [HubNext]_allVars PROVE HubInv'
  OBVIOUS
<1>1. ASSUME FeedInv', UNCHANGED <<hubVars, shown>> PROVE HubInv'
  BY <1>1 DEF HubInv, HubTypeOK, NewcomersAreNew, ClosedOnce, NoGaps, hubVars, pumps
<1>2. CASE Next /\ UNCHANGED <<feedVars, hubVars>>
  BY <1>1, <1>2, BookStepFeedInv DEF HubInv, feedVars
<1>3. CASE Poll /\ UNCHANGED hubVars
  BY <1>1, <1>3, PollFeedInv DEF HubInv, Poll
<1>4. CASE BroadcastDepth \/ BroadcastTicker
  BY <1>4, BroadcastsInv
<1>5. ASSUME NEW c \in Clients, ClientStep(c), UNCHANGED <<vars, feedVars>> PROVE HubInv'
  BY <1>5, BookStepFeedInv, ClientsInv DEF HubInv, feedVars
<1>6. CASE UNCHANGED allVars
  BY <1>1, <1>6, BookStepFeedInv DEF HubInv, allVars, feedVars
<1> QED BY <1>2, <1>3, <1>4, <1>5, <1>6 DEF HubNext

LEMMA HubInvHolds == HubSpec => []HubInv
BY HubInitInv, HubNextInv, PTL DEF HubSpec

-----------------------------------------------------------------------------
\* What subscribers see is a depth the book had, never crossed and without
\* empty levels, and it still has that depth while its version is the same.
THEOREM FeedAlwaysFaithful == HubSpec => []FeedIsFaithful
<1>1. FeedInv => FeedIsFaithful
  <2> SUFFICES ASSUME FeedInv PROVE FeedIsFaithful
    OBVIOUS
  <2>1. shown = NoDepth => shown.version # version
    BY DEF FeedInv, QuantityInv, Inv, TypeOK, NoDepth, NoVersion
  <2> QED BY <2>1 DEF FeedInv, Sound, FeedIsFaithful, VersionTellsDepth, ShownIsABook
<1> QED BY <1>1, HubInvHolds, PTL DEF HubInv

\* The hub never closes a Send channel twice, and never sends on a closed one.
THEOREM ChannelsClosedOnce == HubSpec => []ClosedOnce
BY HubInvHolds, PTL DEF HubInv

\* No client of the hub misses a depth, however slow it is.
THEOREM ClientsMissNothing == HubSpec => []NoGaps
BY HubInvHolds, PTL DEF HubInv

=============================================================================
