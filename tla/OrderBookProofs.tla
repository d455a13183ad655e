-------------------------- MODULE OrderBookProofs --------------------------
(***************************************************************************)
(* Proofs about OrderBook, for every set of users, every finite set of     *)
(* prices, every set of quantities and every number of orders: the book's  *)
(* type, the agreement of tree, queues, index and back-pointers, the order *)
(* of the queues, that the book is never crossed, that its quantities add  *)
(* up, that an order which left never comes back, and that all of it       *)
(* implements the price-time priority of PriceTimeBook.                    *)
(***************************************************************************)
EXTENDS OrderBook, SequenceTheorems, Sums

-----------------------------------------------------------------------------
\* Lemmas about prices.

\* Prices are natural numbers, with or without the price of a market order.
LEMMA PricesAreNat == Prices \cup {NoPrice} \subseteq Nat
BY PricesAssumption DEF NoPrice

\* A finite set of prices that is not empty has a best one on either side.
LEMMA BestOfFinite ==
  ASSUME NEW T \in SUBSET Nat, IsFiniteSet(T), T # {}, NEW side \in Sides
  PROVE  \E p \in T : \A q \in T : ~ Better(side, q, p)
<1> DEFINE Beat(p) == {q \in T : Better(side, q, p)}
           Beats == {Beat(p) : p \in T}
           R == StrictSubsetOrdering(T)
<1>1. IsWellFoundedOn(R, SUBSET T)
  BY FS_StrictSubsetOrderingWellFounded, FS_FiniteSubsetsOfFinite
<1>2. Beats \subseteq SUBSET T /\ Beats # {}
  OBVIOUS
<1>3. PICK B \in Beats : \A C \in Beats : <<C, B>> \notin R
  BY <1>1, <1>2, WFMin
<1>4. PICK p \in T : B = Beat(p)
  BY <1>3
<1>5. ASSUME NEW q \in T, Better(side, q, p) PROVE FALSE
  <2>1. q \in Beat(p) /\ q \notin Beat(q)
    BY <1>5 DEF Better
  <2>2. ASSUME NEW r \in T, Better(side, r, q) PROVE Better(side, r, p)
    <3>1. p \in Nat /\ q \in Nat /\ r \in Nat
      OBVIOUS
    <3> QED BY <3>1, <2>2, <1>5 DEF Better
  <2>3. <<Beat(q), Beat(p)>> \in R
    <3>1. Beat(q) \subseteq Beat(p)
      BY <2>2
    <3> QED BY <3>1, <2>1 DEF StrictSubsetOrdering
  <2> QED BY <2>3, <1>3, <1>4
<1> QED BY <1>5

\* BestPrice names a price of the side that no other price there beats.
LEMMA BestPriceIsBest ==
  ASSUME tree \in [Sides -> SUBSET Prices], NEW side \in Sides, tree[side] # {}
  PROVE  /\ BestPrice(side) \in tree[side]
         /\ \A q \in tree[side] : ~ Better(side, q, BestPrice(side))
<1>1. tree[side] \in SUBSET Nat /\ IsFiniteSet(tree[side])
  BY PricesAssumption, FS_Subset
<1>2. \E p \in tree[side] : \A q \in tree[side] : ~ Better(side, q, p)
  BY <1>1, BestOfFinite
<1> QED BY <1>2 DEF BestPrice

-----------------------------------------------------------------------------
\* Lemmas about queues.

Ascending(q) == \A i, j \in DOMAIN q : i < j => q[i] < q[j]

\* Removing one element of an ascending queue removes it for good and keeps
\* the others, in order (price_level.go remove).
LEMMA RemoveFromQueue ==
  ASSUME NEW S \in SUBSET Nat, NEW q \in Seq(S), Ascending(q), NEW i \in DOMAIN q
  PROVE  /\ RemoveAt(q, i) \in Seq(S)
         /\ Ascending(RemoveAt(q, i))
         /\ Ids(RemoveAt(q, i)) = Ids(q) \ {q[i]}
<1> DEFINE n == Len(q)
           t == RemoveAt(q, i)
           a == SubSeq(q, 1, i - 1)
           b == SubSeq(q, i + 1, n)
<1>1. n \in Nat /\ DOMAIN q = 1..n /\ \A k \in 1..n : q[k] \in S
  BY LenProperties
<1> HIDE DEF n, a, b, t
<1>2. /\ a \in Seq(S) /\ Len(a) = i - 1
      /\ \A k \in 1..(i - 1) : a[k] = q[k]
  <2>1. /\ a \in Seq(S)
        /\ Len(a) = IF 1 <= i - 1 THEN i - 1 - 1 + 1 ELSE 0
        /\ \A k \in 1..(i - 1 - 1 + 1) : a[k] = q[1 + k - 1]
    BY <1>1, SubSeqProperties DEF a
  <2> QED BY <2>1, <1>1
<1>3. /\ b \in Seq(S) /\ Len(b) = n - i
      /\ \A k \in 1..(n - i) : b[k] = q[k + i]
  <2>1. /\ b \in Seq(S)
        /\ Len(b) = IF i + 1 <= n THEN n - (i + 1) + 1 ELSE 0
        /\ \A k \in 1..(n - (i + 1) + 1) : b[k] = q[(i + 1) + k - 1]
    BY <1>1, SubSeqProperties DEF b
  <2>2. Len(b) = n - i
    BY <2>1, <1>1
  <2>3. ASSUME NEW k \in 1..(n - i) PROVE b[k] = q[k + i]
    <3>1. k \in 1..(n - (i + 1) + 1) /\ (i + 1) + k - 1 = k + i
      BY <1>1
    <3> QED BY <3>1, <2>1
  <2> QED BY <2>1, <2>2, <2>3
<1>4. /\ t \in Seq(S) /\ Len(t) = n - 1
      /\ \A k \in 1..(n - 1) : t[k] = IF k < i THEN q[k] ELSE q[k + 1]
  <2>1. t = a \o b
    BY DEF RemoveAt, t, a, b, n
  <2>2. /\ t \in Seq(S)
        /\ Len(t) = Len(a) + Len(b)
        /\ \A k \in 1..Len(a) + Len(b) : t[k] =
              IF k <= Len(a) THEN a[k] ELSE b[k - Len(a)]
    BY <2>1, <1>2, <1>3, ConcatProperties
  <2>3. ASSUME NEW k \in 1..(n - 1)
        PROVE  t[k] = IF k < i THEN q[k] ELSE q[k + 1]
    <3>1. t[k] = IF k <= i - 1 THEN a[k] ELSE b[k - (i - 1)]
      BY SMTT(30), <2>2, <1>1, <1>2, <1>3
    <3>2. CASE k < i
      <4>1. k <= i - 1 /\ k \in 1..(i - 1)
        BY <3>2, <1>1
      <4>2. a[k] = q[k]
        BY <4>1, <1>2
      <4> QED BY <3>1, <3>2, <4>1, <4>2
    <3>3. CASE ~ k < i
      <4>1. ~ k <= i - 1 /\ k - (i - 1) \in 1..(n - i) /\ k - (i - 1) + i = k + 1
        BY <3>3, <1>1
      <4>2. b[k - (i - 1)] = q[k - (i - 1) + i]
        BY <4>1, <1>3
      <4> QED BY <3>1, <3>3, <4>1, <4>2
    <3> QED BY <3>2, <3>3
  <2>4. Len(t) = n - 1
    BY <2>2, <1>1, <1>2, <1>3
  <2> QED BY <2>2, <2>3, <2>4
<1>5. DOMAIN t = 1..(n - 1)
  BY <1>4, LenProperties
<1>6. ASSUME NEW j \in 1..n, NEW k \in 1..n, j < k PROVE q[j] < q[k]
  BY <1>1, <1>6 DEF Ascending
<1>7. Ascending(t)
  <2>1. ASSUME NEW j \in 1..(n - 1), NEW k \in 1..(n - 1), j < k
        PROVE  t[j] < t[k]
    <3>1. /\ t[j] = IF j < i THEN q[j] ELSE q[j + 1]
          /\ t[k] = IF k < i THEN q[k] ELSE q[k + 1]
      BY <1>4
    <3>2. j \in 1..n /\ k \in 1..n /\ j + 1 \in 1..n /\ k + 1 \in 1..n
      BY <1>1
    <3>3. j < k /\ j < k + 1 /\ j + 1 < k + 1 /\ ~ (k < i /\ ~ j < i)
      BY <2>1, <1>1
    <3> QED BY <3>1, <3>2, <3>3, <1>6
  <2> QED BY <2>1, <1>5 DEF Ascending
<1>8. Ids(t) = Ids(q) \ {q[i]}
  <2>1. ASSUME NEW k \in DOMAIN t PROVE t[k] \in Ids(q) \ {q[i]}
    <3>1. PICK j \in 1..n : j # i /\ t[k] = q[j]
      BY <1>1, <1>4, <1>5
    <3>2. q[j] # q[i]
      <4>1. q[j] \in Nat /\ q[i] \in Nat
        BY <1>1
      <4>2. i \in 1..n /\ (j < i \/ i < j)
        BY <3>1, <1>1
      <4> QED BY <4>1, <4>2, <1>6
    <3> QED BY <3>1, <3>2, <1>1 DEF Ids
  <2>2. ASSUME NEW k \in DOMAIN q, q[k] # q[i] PROVE q[k] \in Ids(t)
    <3>1. CASE k < i
      BY <3>1, <1>1, <1>4, <1>5 DEF Ids
    <3>2. CASE k > i
      <4>1. k - 1 \in DOMAIN t /\ t[k - 1] = q[k]
        BY <3>2, <1>1, <1>4, <1>5
      <4> QED BY <4>1 DEF Ids
    <3> QED BY <3>1, <3>2, <2>2, <1>1
  <2> QED BY <2>1, <2>2 DEF Ids
<1> QED BY <1>4, <1>7, <1>8 DEF t

\* A later arrival goes to the back of an ascending queue (push).
LEMMA AppendToQueue ==
  ASSUME NEW S \in SUBSET Nat, NEW q \in Seq(S), Ascending(q), NEW id \in S,
         \A k \in Ids(q) : k < id
  PROVE  /\ Append(q, id) \in Seq(S)
         /\ Append(q, id) # <<>>
         /\ Ascending(Append(q, id))
         /\ Ids(Append(q, id)) = Ids(q) \cup {id}
<1> DEFINE n == Len(q)
           t == Append(q, id)
<1> HIDE DEF n, t
<1>1. /\ n \in Nat /\ DOMAIN q = 1..n
      /\ t \in Seq(S) /\ t # <<>> /\ Len(t) = n + 1
      /\ \A k \in 1..n : t[k] = q[k]
      /\ t[n + 1] = id
  BY LenProperties, AppendProperties DEF n, t
<1>2. DOMAIN t = 1..(n + 1)
  BY <1>1, LenProperties
<1>3. Ascending(t)
  <2>1. \A k \in 1..n : q[k] < id
    BY <1>1 DEF Ids
  <2> QED BY <2>1, <1>1, <1>2 DEF Ascending
<1>4. Ids(t) = Ids(q) \cup {id}
  BY <1>1, <1>2 DEF Ids
<1> QED BY <1>1, <1>3, <1>4 DEF t

-----------------------------------------------------------------------------
\* The inductive invariant.  Beside the properties it says that no order is
\* filled beyond its size, that market orders are those without a price, and
\* that the order being placed is the newest and not yet in the book.

OrdersSound ==
    \A id \in 1..Len(orders) :
        /\ orders[id].filled <= orders[id].qty
        /\ orders[id].type = "market" <=> orders[id].price = NoPrice

TakerOffBook == taker # NoOrder => taker = Len(orders) /\ taker \notin byId

Inv ==
    /\ TypeOK
    /\ OrdersSound
    /\ TakerOffBook
    /\ NotCrossed
    /\ IndexesAgree
    /\ QueuesInArrivalOrder

\* The parts of Inv that speak of tree, queues, index and back-pointers.
BookInv ==
    /\ tree \in [Sides -> SUBSET Prices]
    /\ queue \in [Sides -> [Prices -> Seq(1..Len(orders))]]
    /\ volume \in [Sides -> [Prices -> Int]]
    /\ byId \subseteq 1..Len(orders)
    /\ home \in [1..Len(orders) -> Prices \cup {NoPrice}]
    /\ NotCrossed
    /\ IndexesAgree
    /\ QueuesInArrivalOrder

\* The types of an order's fields.
LEMMA OrderFields ==
  ASSUME TypeOK, NEW k \in 1..Len(orders)
  PROVE  /\ orders[k] \in Orders
         /\ orders[k].side \in Sides
         /\ orders[k].type \in Types
         /\ orders[k].price \in Prices \cup {NoPrice}
         /\ orders[k].filled \in Nat
         /\ orders[k].qty \in Nat \ {0}
         /\ Remaining(orders[k]) \in Int
<1>1. orders[k] \in Orders
  BY ElementOfSeq DEF TypeOK
<1>2. /\ orders[k].side \in Sides
      /\ orders[k].type \in Types
      /\ orders[k].price \in Prices \cup {NoPrice}
      /\ orders[k].filled \in Nat
      /\ orders[k].qty \in Quantities
  BY <1>1 DEF Orders
<1>3. orders[k].qty \in Nat \ {0}
  BY <1>2, QuantitiesAssumption
<1>4. Remaining(orders[k]) \in Int
  BY <1>2, <1>3 DEF Remaining
<1> QED BY <1>1, <1>2, <1>3, <1>4

\* Only the filled field of an order changes when it trades.
LEMMA FilledFields ==
  ASSUME NEW o \in Orders, NEW x
  PROVE  /\ [o EXCEPT !.filled = x].side = o.side
         /\ [o EXCEPT !.filled = x].type = o.type
         /\ [o EXCEPT !.filled = x].price = o.price
         /\ [o EXCEPT !.filled = x].qty = o.qty
         /\ [o EXCEPT !.filled = x].filled = x
BY DEF Orders

\* An order in the index is in the queue its back-pointer names, once, and in
\* no other.
LEMMA WhereItRests ==
  ASSUME TypeOK, IndexesAgree, NEW id \in byId
  PROVE  /\ id \in 1..Len(orders)
         /\ orders[id] \in Orders
         /\ orders[id].side \in Sides
         /\ home[id] \in Prices
         /\ \A s \in Sides, p \in Prices :
               id \in Ids(queue[s][p]) <=> s = orders[id].side /\ p = home[id]
<1>1. id \in 1..Len(orders) /\ orders[id] \in Orders
  BY LenProperties DEF TypeOK
<1>2. home[id] \in Prices
  BY <1>1 DEF TypeOK, IndexesAgree
<1> QED BY <1>1, <1>2 DEF IndexesAgree, Orders

\* What RemoveOrder does to the book, when all orders but the one removed
\* still have something left (orderbook.go removeOrder).
LEMMA RemovalKeeps ==
  ASSUME TypeOK, NotCrossed, IndexesAgree, QueuesInArrivalOrder,
         NEW id \in byId, NEW lots \in Int, RemoveOrder(id, lots),
         Len(orders') = Len(orders),
         \A k \in 1..Len(orders) : /\ orders'[k].side = orders[k].side
                                   /\ orders'[k].price = orders[k].price
                                   /\ orders'[k].type = orders[k].type,
         \A k \in byId \ {id} : Remaining(orders'[k]) > 0
  PROVE  BookInv' /\ byId' = byId \ {id}
<1> DEFINE S == 1..Len(orders)
           side == orders[id].side
           at == home[id]
           old == queue[side][at]
           i == CHOOSE k \in DOMAIN old : old[k] = id
           new == RemoveAt(old, i)
<1>1. /\ id \in S /\ side \in Sides /\ at \in Prices
      /\ \A s \in Sides, p \in Prices :
            id \in Ids(queue[s][p]) <=> s = side /\ p = at
  BY WhereItRests
<1>2. old \in Seq(S) /\ S \in SUBSET Nat /\ id \in Ids(old) /\ Ascending(old)
  BY SMTT(30), <1>1 DEF TypeOK, QueuesInArrivalOrder, Ascending
<1>3. i \in DOMAIN old /\ old[i] = id
  BY <1>2 DEF Ids
<1>4. new \in Seq(S) /\ Ascending(new) /\ Ids(new) = Ids(old) \ {id}
  <2> HIDE DEF old, i, S
  <2> QED BY <1>2, <1>3, RemoveFromQueue
<1>5. /\ queue' = [queue EXCEPT ![side][at] = new]
      /\ volume' = [volume EXCEPT ![side][at] = @ - lots]
      /\ tree' = [tree EXCEPT ![side] = IF new = <<>> THEN @ \ {at} ELSE @]
      /\ byId' = byId \ {id}
      /\ home' = [home EXCEPT ![id] = NoPrice]
  BY DEF RemoveOrder
<1> HIDE DEF new, i, old, side, at
<1>6. /\ queue' \in [Sides -> [Prices -> Seq(S)]]
      /\ volume' \in [Sides -> [Prices -> Int]]
      /\ tree' \in [Sides -> SUBSET Prices]
      /\ byId' \subseteq S
      /\ home' \in [S -> Prices \cup {NoPrice}]
  <2>1. queue \in [Sides -> [Prices -> Seq(S)]]
    BY DEF TypeOK
  <2>2. queue' \in [Sides -> [Prices -> Seq(S)]]
    <3> HIDE DEF S
    <3> QED BY <2>1, <1>1, <1>4, <1>5
  <2>3. volume' \in [Sides -> [Prices -> Int]]
    BY <1>1, <1>5 DEF TypeOK
  <2>4. tree' \in [Sides -> SUBSET Prices]
    BY <1>1, <1>5 DEF TypeOK
  <2>5. byId' \subseteq S
    BY <1>5 DEF TypeOK
  <2>6. home' \in [S -> Prices \cup {NoPrice}]
    BY <1>1, <1>5 DEF TypeOK
  <2> QED BY <2>2, <2>3, <2>4, <2>5, <2>6
<1>7. \A s \in Sides, p \in Prices :
         queue'[s][p] = IF s = side /\ p = at THEN new ELSE queue[s][p]
  BY <1>1, <1>5 DEF TypeOK
<1>8. \A s \in Sides, p \in Prices : Ids(queue'[s][p]) = Ids(queue[s][p]) \ {id}
  BY <1>1, <1>4, <1>7 DEF old
<1>9. \A s \in Sides, p \in Prices : p \in tree'[s] <=> queue'[s][p] # <<>>
  <2>1. \A s \in Sides : tree'[s] = IF s = side /\ new = <<>>
                                    THEN tree[s] \ {at} ELSE tree[s]
    BY <1>1, <1>5 DEF TypeOK
  <2>2. old # <<>>
    BY <1>2, <1>3, EmptySeq, LenProperties
  <2>3. at \in tree[side]
    BY <1>1, <2>2 DEF IndexesAgree, old
  <2>4. ASSUME NEW s \in Sides, NEW p \in Prices
        PROVE  p \in tree'[s] <=> queue'[s][p] # <<>>
    <3>1. p \in tree[s] <=> queue[s][p] # <<>>
      BY DEF IndexesAgree
    <3>2. queue'[s][p] = IF s = side /\ p = at THEN new ELSE queue[s][p]
      BY <1>7
    <3>3. tree'[s] = IF s = side /\ new = <<>> THEN tree[s] \ {at} ELSE tree[s]
      BY <2>1
    <3> QED BY <2>3, <3>1, <3>2, <3>3
  <2> QED BY <2>4
<1>10. NotCrossed'
  <2>1. \A s \in Sides : tree'[s] \subseteq tree[s]
    BY <1>1, <1>5 DEF TypeOK
  <2> QED BY <2>1 DEF NotCrossed, Sides
<1>11. IndexesAgree'
  <2>1. \A k \in S : home'[k] = IF k = id THEN NoPrice ELSE home[k]
    BY <1>1, <1>5 DEF TypeOK
  <2>2. \A k \in S, s \in Sides, p \in Prices :
          k \in Ids(queue'[s][p]) <=>
            k \in byId' /\ home'[k] = p /\ orders'[k].side = s
    <3>1. \A k \in S, s \in Sides, p \in Prices :
            k \in Ids(queue[s][p]) <=>
              k \in byId /\ home[k] = p /\ orders[k].side = s
      BY DEF IndexesAgree
    <3>2. ASSUME NEW k \in S, NEW s \in Sides, NEW p \in Prices
          PROVE  k \in Ids(queue'[s][p]) <=>
                   k \in byId' /\ home'[k] = p /\ orders'[k].side = s
      <4>1. k \in Ids(queue'[s][p]) <=> k \in Ids(queue[s][p]) /\ k # id
        BY <1>8
      <4>2. k # id => home'[k] = home[k] /\ (k \in byId' <=> k \in byId)
        BY <1>5, <2>1
      <4>3. id \notin byId'
        BY <1>5
      <4> QED BY <4>1, <4>2, <4>3, <3>1
    <3> QED BY <3>2
  <2>3. \A k \in S : k \in byId' <=> home'[k] # NoPrice
    BY <1>5, <2>1 DEF IndexesAgree
  <2>4. \A k \in byId' : /\ home'[k] = orders'[k].price
                          /\ orders'[k].type = "limit"
                          /\ Remaining(orders'[k]) > 0
    <3>1. ASSUME NEW k \in byId'
          PROVE  /\ home'[k] = orders'[k].price
                 /\ orders'[k].type = "limit"
                 /\ Remaining(orders'[k]) > 0
      <4>1. k \in byId /\ k # id /\ k \in S
        BY <1>5 DEF TypeOK
      <4> QED BY <4>1, <2>1 DEF IndexesAgree
    <3> QED BY <3>1
  <2> QED BY <1>9, <2>2, <2>3, <2>4 DEF IndexesAgree, Remaining
<1>12. QueuesInArrivalOrder'
  BY <1>4, <1>7 DEF QueuesInArrivalOrder, Ascending
<1> QED BY <1>5, <1>6, <1>10, <1>11, <1>12 DEF BookInv

\* What resting the newest order does to the book, when it crosses no price of
\* the other side (orderbook.go rest).
LEMMA RestKeeps ==
  ASSUME TypeOK, OrdersSound, NotCrossed, IndexesAgree, QueuesInArrivalOrder,
         NEW id, id = Len(orders), id \in 1..Len(orders), id \notin byId,
         orders[id].type = "limit", Remaining(orders[id]) > 0,
         \A q \in tree[Opposite(orders[id].side)] : ~ Crosses(orders[id], q),
         Rest(id, orders[id].side, orders[id].price), orders' = orders
  PROVE  BookInv'
<1> DEFINE S == 1..Len(orders)
           side == orders[id].side
           at == orders[id].price
           old == queue[side][at]
           new == IF at \in tree[side] THEN Append(old, id) ELSE <<id>>
           lots == Remaining(orders[id])
<1>1. orders[id] \in Orders /\ side \in Sides /\ at \in Prices /\ lots \in Int
  BY OrderFields, PricesAssumption DEF OrdersSound
<1>2. old \in Seq(S) /\ S \in SUBSET Nat /\ Ascending(old)
  BY <1>1 DEF TypeOK, QueuesInArrivalOrder, Ascending
<1>3. \A k \in Ids(old) : k \in S /\ k \in byId /\ k < id
  <2>1. \A k \in Ids(old) : k \in S
    BY <1>2, LenProperties DEF Ids
  <2>2. \A k \in Ids(old) : k \in byId
    BY SMTT(30), <1>1, <2>1 DEF IndexesAgree
  <2> QED BY <2>1, <2>2
<1>4. /\ new \in Seq(S) /\ new # <<>> /\ Ascending(new)
      /\ Ids(new) = Ids(old) \cup {id}
  <2>1. CASE at \in tree[side]
    <3> HIDE DEF old, S
    <3> QED BY <1>2, <1>3, <2>1, AppendToQueue DEF S
  <2>2. CASE at \notin tree[side]
    <3>1. old = <<>> /\ Ids(old) = {}
      BY <1>1, <2>2 DEF IndexesAgree, Ids
    <3>2. new = Append(<<>>, id)
      BY <2>2
    <3>3. <<>> \in Seq(S) /\ Ascending(<<>>) /\ Ids(<<>>) = {}
      BY DEF Ascending, Ids
    <3> HIDE DEF new, S
    <3> QED BY ZenonT(40), <1>2, <3>1, <3>2, <3>3, AppendToQueue DEF S
  <2> QED BY <2>1, <2>2
<1>5. /\ queue' = [queue EXCEPT ![side][at] = new]
      /\ volume' = [volume EXCEPT ![side][at] =
                      IF at \in tree[side] THEN @ + lots ELSE lots]
      /\ tree' = [tree EXCEPT ![side] = @ \cup {at}]
      /\ byId' = byId \cup {id}
      /\ home' = [home EXCEPT ![id] = at]
  BY <1>1 DEF Rest, TypeOK
<1> HIDE DEF new, old, side, at
<1>6. /\ queue' \in [Sides -> [Prices -> Seq(S)]]
      /\ volume' \in [Sides -> [Prices -> Int]]
      /\ tree' \in [Sides -> SUBSET Prices]
      /\ byId' \subseteq S
      /\ home' \in [S -> Prices \cup {NoPrice}]
  <2>1. queue \in [Sides -> [Prices -> Seq(S)]]
    BY DEF TypeOK
  <2>2. queue' \in [Sides -> [Prices -> Seq(S)]]
    <3> HIDE DEF S
    <3> QED BY <2>1, <1>1, <1>4, <1>5
  <2>3. volume' \in [Sides -> [Prices -> Int]]
    BY <1>1, <1>5 DEF TypeOK
  <2>4. tree' \in [Sides -> SUBSET Prices]
    BY <1>1, <1>5 DEF TypeOK
  <2>5. byId' \subseteq S
    BY <1>5 DEF TypeOK
  <2>6. home' \in [S -> Prices \cup {NoPrice}]
    BY <1>1, <1>5 DEF TypeOK
  <2> QED BY <2>2, <2>3, <2>4, <2>5, <2>6
<1>7. \A s \in Sides, p \in Prices :
         queue'[s][p] = IF s = side /\ p = at THEN new ELSE queue[s][p]
  BY <1>1, <1>5 DEF TypeOK
<1>8. \A s \in Sides : tree'[s] = IF s = side THEN tree[s] \cup {at} ELSE tree[s]
  BY <1>1, <1>5 DEF TypeOK
<1>9. \A k \in S : home'[k] = IF k = id THEN at ELSE home[k]
  BY <1>1, <1>5 DEF TypeOK
<1>10. NotCrossed'
  <2>1. CASE side = "buy"
    <3>1. tree'["buy"] = tree["buy"] \cup {at} /\ tree'["sell"] = tree["sell"]
      BY <1>8, <2>1 DEF Sides
    <3>2. \A a \in tree["sell"] : ~ a <= at
      BY <2>1 DEF Crosses, Opposite, side, at
    <3>3. \A a \in tree["sell"] : at < a
      BY <1>1, <3>2, PricesAssumption DEF TypeOK, Sides
    <3> QED BY <3>1, <3>3 DEF NotCrossed
  <2>2. CASE side = "sell"
    <3>1. tree'["sell"] = tree["sell"] \cup {at} /\ tree'["buy"] = tree["buy"]
      BY <1>8, <2>2 DEF Sides
    <3>2. \A b \in tree["buy"] : ~ b >= at
      BY <2>2 DEF Crosses, Opposite, side, at
    <3>3. \A b \in tree["buy"] : b < at
      BY <1>1, <3>2, PricesAssumption DEF TypeOK, Sides
    <3> QED BY <3>1, <3>3 DEF NotCrossed
  <2> QED BY <1>1, <2>1, <2>2 DEF Sides
<1>11. IndexesAgree'
  <2>1. ASSUME NEW s \in Sides, NEW p \in Prices
        PROVE  p \in tree'[s] <=> queue'[s][p] # <<>>
    <3>1. p \in tree[s] <=> queue[s][p] # <<>>
      BY DEF IndexesAgree
    <3> QED BY ZenonT(40), <1>4, <1>7, <1>8, <3>1
  <2>2. ASSUME NEW k \in S, NEW s \in Sides, NEW p \in Prices
        PROVE  k \in Ids(queue'[s][p]) <=>
                 k \in byId' /\ home'[k] = p /\ orders[k].side = s
    <3>1. k \in Ids(queue[s][p]) <=>
            k \in byId /\ home[k] = p /\ orders[k].side = s
      BY DEF IndexesAgree
    <3>2. CASE k = id
      <4>1. k \in Ids(queue'[s][p]) <=> s = side /\ p = at
        BY <1>1, <1>4, <1>7, <3>1, <3>2 DEF old
      <4> QED BY <1>5, <1>9, <3>2, <4>1 DEF side
    <3>3. CASE k # id
      <4>1. k \in Ids(queue'[s][p]) <=> k \in Ids(queue[s][p])
        BY <1>4, <1>7, <3>3 DEF old
      <4> QED BY <1>5, <1>9, <3>1, <3>3, <4>1
    <3> QED BY <3>2, <3>3
  <2>3. \A k \in S : k \in byId' <=> home'[k] # NoPrice
    BY <1>1, <1>5, <1>9, PricesAssumption DEF IndexesAgree, NoPrice
  <2>4. ASSUME NEW k \in byId'
        PROVE  /\ home'[k] = orders[k].price
               /\ orders[k].type = "limit"
               /\ Remaining(orders[k]) > 0
    <3>1. k \in S
      BY <1>6
    <3> QED BY <3>1, <1>5, <1>9 DEF IndexesAgree, at
  <2> QED BY <2>1, <2>2, <2>3, <2>4 DEF IndexesAgree, Remaining
<1>12. QueuesInArrivalOrder'
  BY <1>4, <1>7 DEF QueuesInArrivalOrder, Ascending
<1> QED BY <1>6, <1>10, <1>11, <1>12 DEF BookInv

\* What the match loop looks at: the front of the best level is an order of
\* the index, on the other side, at that price, and not the taker.
LEMMA MatchFacts ==
  ASSUME Inv, Matching
  PROVE  /\ taker \in 1..Len(orders)
         /\ OppositeSide \in Sides
         /\ OppositePrice \in tree[OppositeSide]
         /\ \A q \in tree[OppositeSide] : ~ Better(OppositeSide, q, OppositePrice)
         /\ Maker \in byId /\ Maker # taker
         /\ Maker \in 1..Len(orders)
         /\ orders[Maker].side = OppositeSide
         /\ orders[Maker].price = OppositePrice
         /\ home[Maker] = OppositePrice
         /\ Remaining(orders[Maker]) \in Nat \ {0}
         /\ Remaining(orders[taker]) \in Nat \ {0}
<1> USE DEF Inv
<1>1. taker \in 1..Len(orders) /\ taker \notin byId
  BY DEF Matching, TypeOK, TakerOffBook, NoOrder
<1>2. \A k \in 1..Len(orders) : orders[k] \in Orders /\ Remaining(orders[k]) \in Int
  BY OrderFields
<1>3. OppositeSide \in Sides
  BY DEF OppositeSide, Opposite, Sides
<1>4. /\ OppositePrice \in tree[OppositeSide]
      /\ \A q \in tree[OppositeSide] : ~ Better(OppositeSide, q, OppositePrice)
  BY <1>3, BestPriceIsBest DEF Matching, TypeOK, OppositePrice
<1>5. OppositePrice \in Prices
  BY <1>3, <1>4 DEF TypeOK
<1> DEFINE q == queue[OppositeSide][OppositePrice]
<1>6. q \in Seq(1..Len(orders)) /\ q # <<>>
  BY <1>3, <1>4, <1>5 DEF TypeOK, IndexesAgree
<1>7. Maker \in Ids(q) /\ Maker \in 1..Len(orders)
  <2>1. 1 \in DOMAIN q /\ q[1] \in 1..Len(orders)
    BY <1>6, EmptySeq, LenProperties
  <2>2. Maker = q[1]
    BY DEF Maker
  <2> QED BY <2>1, <2>2 DEF Ids
<1>8. Maker \in byId /\ home[Maker] = OppositePrice
      /\ orders[Maker].side = OppositeSide
  BY <1>3, <1>5, <1>7 DEF IndexesAgree
<1> QED BY <1>1, <1>2, <1>3, <1>4, <1>7, <1>8 DEF IndexesAgree, Matching

-----------------------------------------------------------------------------
\* The invariant holds initially and is kept by every action.

LEMMA InitInv == Init => Inv
<1> SUFFICES ASSUME Init PROVE Inv
  OBVIOUS
<1>1. Len(orders) = 0 /\ 1..Len(orders) = {} /\ orders = <<>>
  BY EmptySeq DEF Init
<1>2. TypeOK
  <2>1. home \in [1..Len(orders) -> Prices \cup {NoPrice}]
    BY <1>1 DEF Init
  <2>2. result \in [trades : Seq(Trades), canceled : Seq(Nat), rested : BOOLEAN]
    BY EmptySeq DEF Init, EmptyResult
  <2>3. queue \in [Sides -> [Prices -> Seq(1..Len(orders))]]
    BY EmptySeq DEF Init
  <2>4. orders \in Seq(Orders) /\ taker \in 0..Len(orders)
    BY <1>1, EmptySeq DEF Init, NoOrder
  <2> QED BY <2>1, <2>2, <2>3, <2>4 DEF Init, TypeOK
<1>3. OrdersSound /\ TakerOffBook
  BY <1>1 DEF Init, OrdersSound, TakerOffBook
<1>4. NotCrossed
  BY DEF Init, NotCrossed, Sides
<1>5. IndexesAgree
  BY <1>1 DEF Init, IndexesAgree
<1>6. QueuesInArrivalOrder
  BY DEF Init, QueuesInArrivalOrder
<1> QED BY <1>2, <1>3, <1>4, <1>5, <1>6 DEF Inv

LEMMA PlaceInv ==
  ASSUME Inv, NEW o \in Inputs, Place(o)
  PROVE  Inv'
<1> USE DEF Inv
<1> DEFINE n == Len(orders)
<1>1. o \in NewOrders /\ o \in Orders
  BY InputsAssumption DEF NewOrders, Orders
<1>2. /\ n \in Nat
      /\ orders' \in Seq(Orders) /\ Len(orders') = n + 1
      /\ \A k \in 1..n : orders'[k] = orders[k]
      /\ orders'[n + 1] = o
  BY <1>1, AppendProperties, LenProperties DEF Place, TypeOK
<1>3. /\ home' \in [1..(n + 1) -> Prices \cup {NoPrice}]
      /\ \A k \in 1..n : home'[k] = home[k]
      /\ home'[n + 1] = NoPrice
  <2> DEFINE P == Prices \cup {NoPrice}
  <2>1. home \in [1..n -> P]
    BY DEF TypeOK
  <2> HIDE DEF P
  <2>2. home \in Seq(P)
    BY <1>2, <2>1, SeqDef
  <2>3. Len(home) = n
    BY <1>2, <2>1, <2>2, LenProperties
  <2>4. NoPrice \in P
    BY DEF P
  <2>5. /\ home' \in Seq(P) /\ Len(home') = n + 1
        /\ \A k \in 1..n : home'[k] = home[k]
        /\ home'[n + 1] = NoPrice
    BY <2>2, <2>3, <2>4, AppendProperties DEF Place
  <2>6. home' \in [1..(n + 1) -> P]
    BY <2>5, LenProperties
  <2> QED BY <2>5, <2>6 DEF P
<1>4. UNCHANGED <<tree, queue, volume, byId, version>> /\ taker' = n + 1
      /\ result' = EmptyResult
  BY DEF Place
<1> HIDE DEF n
<1>5. \A k \in 1..(n + 1) : k \in 1..n \/ k = n + 1
  BY <1>2
<1>6. TypeOK'
  <2>1. ASSUME NEW s \in Sides, NEW p \in Prices
        PROVE  queue[s][p] \in Seq(1..(n + 1))
    <3>1. queue[s][p] \in Seq(1..n)
      BY DEF TypeOK, n
    <3>2. 1..n \subseteq 1..(n + 1)
      BY <1>2
    <3> QED BY <3>1, <3>2, SeqMonotonic
  <2>2. queue' \in [Sides -> [Prices -> Seq(1..(n + 1))]]
    BY <1>4, <2>1 DEF TypeOK
  <2>3. result' \in [trades : Seq(Trades), canceled : Seq(Nat), rested : BOOLEAN]
    BY <1>4, EmptySeq DEF EmptyResult
  <2>4. byId' \subseteq 1..(n + 1) /\ taker' \in 0..(n + 1)
    BY <1>2, <1>4 DEF TypeOK, n
  <2> QED BY <1>2, <1>3, <1>4, <2>2, <2>3, <2>4 DEF TypeOK
<1>7. OrdersSound'
  <2>1. /\ o.filled <= o.qty
        /\ o.type = "market" <=> o.price = NoPrice
    <3>1. /\ o.filled = 0 /\ o.qty \in Quantities
          /\ o.type = "market" <=> o.price = NoPrice
      BY <1>1 DEF NewOrders
    <3>2. o.qty \in Nat
      BY <3>1, QuantitiesAssumption
    <3> QED BY <3>1, <3>2
  <2>2. \A k \in 1..n : /\ orders[k].filled <= orders[k].qty
                        /\ orders[k].type = "market" <=> orders[k].price = NoPrice
    BY DEF OrdersSound, n
  <2>3. \A k \in 1..(n + 1) :
          /\ orders'[k].filled <= orders'[k].qty
          /\ orders'[k].type = "market" <=> orders'[k].price = NoPrice
    BY <1>2, <1>5, <2>1, <2>2
  <2> QED BY <2>3, <1>2 DEF OrdersSound
<1>8. TakerOffBook'
  <2>1. n + 1 \notin byId
    BY <1>2 DEF TypeOK, n
  <2> QED BY <2>1, <1>2, <1>4 DEF TakerOffBook
<1>9. NotCrossed' /\ QueuesInArrivalOrder'
  BY <1>4 DEF NotCrossed, QueuesInArrivalOrder
<1>10. IndexesAgree'
  <2>1. ASSUME NEW k \in 1..(n + 1), NEW s \in Sides, NEW p \in Prices
        PROVE  k \in Ids(queue[s][p]) <=>
                 k \in byId /\ home'[k] = p /\ orders'[k].side = s
    <3>1. CASE k \in 1..n
      BY <3>1, <1>2, <1>3 DEF IndexesAgree, n
    <3>2. CASE k = n + 1
      <4>1. queue[s][p] \in Seq(1..n)
        BY DEF TypeOK, n
      <4>2. \A i \in DOMAIN queue[s][p] : queue[s][p][i] \in 1..n
        BY <4>1, LenProperties
      <4>3. k \notin 1..n
        BY <3>2, <1>2
      <4> QED BY <4>2, <4>3 DEF Ids, TypeOK, n
    <3> QED BY <3>1, <3>2, <1>5
  <2>2. ASSUME NEW k \in 1..(n + 1)
        PROVE  k \in byId <=> home'[k] # NoPrice
    <3>1. CASE k \in 1..n
      BY <3>1, <1>2, <1>3 DEF IndexesAgree, n
    <3>2. CASE k = n + 1
      <4>1. k \notin 1..n
        BY <3>2, <1>2
      <4> QED BY <4>1, <3>2, <1>3 DEF TypeOK, n
    <3> QED BY <3>1, <3>2, <1>5
  <2>3. ASSUME NEW k \in byId
        PROVE  /\ home'[k] = orders'[k].price
               /\ orders'[k].type = "limit"
               /\ Remaining(orders'[k]) > 0
    <3>1. k \in 1..n
      BY DEF TypeOK, n
    <3> QED BY <3>1, <1>2, <1>3 DEF IndexesAgree
  <2>4. \A s \in Sides, p \in Prices : p \in tree[s] <=> queue[s][p] # <<>>
    BY DEF IndexesAgree
  <2> QED BY <1>2, <1>4, <2>1, <2>2, <2>3, <2>4 DEF IndexesAgree, Remaining
<1> QED BY <1>6, <1>7, <1>8, <1>9, <1>10

LEMMA PreventSelfTradeInv ==
  ASSUME Inv, PreventSelfTrade
  PROVE  Inv'
<1> USE DEF Inv
<1>1. Maker \in byId /\ Maker \in 1..Len(orders)
  BY MatchFacts DEF PreventSelfTrade
<1>2. /\ UNCHANGED <<orders, taker, version>>
      /\ RemoveOrder(Maker, Remaining(orders[Maker]))
      /\ result' = [result EXCEPT !.canceled = Append(@, Maker)]
  BY DEF PreventSelfTrade
<1>3. BookInv' /\ byId' = byId \ {Maker}
  <2>1. Remaining(orders[Maker]) \in Int
    BY <1>1, OrderFields
  <2>2. \A k \in byId \ {Maker} : Remaining(orders[k]) > 0
    BY DEF IndexesAgree
  <2> HIDE DEF Maker
  <2> QED BY <1>1, <1>2, <2>1, <2>2, RemovalKeeps
<1>4. result' \in [trades : Seq(Trades), canceled : Seq(Nat), rested : BOOLEAN]
  <2>1. Append(result.canceled, Maker) \in Seq(Nat)
    BY <1>1, AppendProperties DEF TypeOK
  <2> QED BY <1>2, <2>1 DEF TypeOK
<1>5. TypeOK' /\ NotCrossed' /\ IndexesAgree' /\ QueuesInArrivalOrder'
  BY <1>2, <1>3, <1>4 DEF TypeOK, BookInv
<1>6. OrdersSound' /\ TakerOffBook'
  BY <1>2, <1>3 DEF OrdersSound, TakerOffBook
<1> QED BY <1>5, <1>6

LEMMA CancelInv ==
  ASSUME Inv, NEW id \in byId, Cancel(id)
  PROVE  Inv'
<1> USE DEF Inv
<1>1. /\ UNCHANGED <<orders, taker, result>>
      /\ RemoveOrder(id, Remaining(orders[id]))
      /\ version' = version + 1
  BY DEF Cancel
<1>2. BookInv' /\ byId' = byId \ {id}
  <2>1. Remaining(orders[id]) \in Int
    BY OrderFields DEF TypeOK
  <2>2. \A k \in byId \ {id} : Remaining(orders[k]) > 0
    BY DEF IndexesAgree
  <2> QED BY <1>1, <2>1, <2>2, RemovalKeeps
<1>3. TypeOK' /\ NotCrossed' /\ IndexesAgree' /\ QueuesInArrivalOrder'
  BY <1>1, <1>2 DEF TypeOK, BookInv
<1>4. OrdersSound' /\ TakerOffBook'
  BY <1>1, <1>2 DEF OrdersSound, TakerOffBook
<1> QED BY <1>3, <1>4

\* A fill changes nothing but how much of the two orders is filled.
LEMMA FillFields ==
  ASSUME TypeOK, NEW qty,
         \A k \in 1..Len(orders) :
            orders'[k] = [orders[k] EXCEPT !.filled =
                            IF k \in {taker, Maker} THEN @ + qty ELSE @],
         NEW k \in 1..Len(orders)
  PROVE  /\ orders'[k].side = orders[k].side
         /\ orders'[k].price = orders[k].price
         /\ orders'[k].type = orders[k].type
         /\ orders'[k].qty = orders[k].qty
         /\ orders'[k].filled = IF k \in {taker, Maker}
                                THEN orders[k].filled + qty ELSE orders[k].filled
<1> DEFINE f == IF k \in {taker, Maker} THEN orders[k].filled + qty
                                        ELSE orders[k].filled
<1>1. orders'[k] = [orders[k] EXCEPT !.filled = f]
  OBVIOUS
<1>2. orders[k] \in Orders
  BY OrderFields
<1> HIDE DEF f
<1>3. /\ orders'[k].side = orders[k].side
      /\ orders'[k].price = orders[k].price
      /\ orders'[k].type = orders[k].type
      /\ orders'[k].qty = orders[k].qty
      /\ orders'[k].filled = f
  BY <1>1, <1>2, FilledFields
<1> QED BY <1>3 DEF f

\* A fill adds the same quantity, at most what either has left, to two orders.
LEMMA FillFacts ==
  ASSUME Inv, Matching, NEW qty, qty = Least(Remaining(orders[taker]), Remaining(orders[Maker])),
         orders' = [orders EXCEPT ![taker].filled = @ + qty,
                                  ![Maker].filled = @ + qty]
  PROVE  /\ qty \in Nat \ {0}
         /\ orders' \in Seq(Orders) /\ Len(orders') = Len(orders)
         /\ \A k \in 1..Len(orders) :
               orders'[k] = [orders[k] EXCEPT !.filled =
                               IF k \in {taker, Maker} THEN @ + qty ELSE @]
         /\ qty <= Remaining(orders[taker]) /\ qty <= Remaining(orders[Maker])
<1> USE DEF Inv
<1> DEFINE m == Maker
           n == Len(orders)
<1>1. /\ taker \in 1..n /\ m \in 1..n /\ m # taker
      /\ Remaining(orders[taker]) \in Nat \ {0}
      /\ Remaining(orders[m]) \in Nat \ {0}
  BY MatchFacts
<1>2. orders' = [orders EXCEPT ![taker].filled = @ + qty, ![m].filled = @ + qty]
  OBVIOUS
<1>3. qty \in Nat \ {0} /\ qty <= Remaining(orders[taker])
      /\ qty <= Remaining(orders[m])
  <2> HIDE DEF m
  <2> QED BY <1>1 DEF Least, m
<1> HIDE DEF m, n
<1>4. orders \in Seq(Orders) /\ DOMAIN orders = 1..n /\ n \in Nat
  BY LenProperties DEF TypeOK, n
<1>5. \A k \in 1..n : orders[k] \in Orders /\ orders[k].filled \in Nat
  BY OrderFields DEF n
<1> DEFINE Filled(o) == [o EXCEPT !.filled = @ + qty]
<1>6. orders' = [[orders EXCEPT ![taker] = Filled(orders[taker])]
                   EXCEPT ![m] = Filled(orders[m])]
  BY <1>1, <1>2, <1>4
<1>7. Filled(orders[taker]) \in Orders /\ Filled(orders[m]) \in Orders
  BY <1>1, <1>3, <1>5 DEF Orders
<1>8. /\ orders' \in Seq(Orders) /\ Len(orders') = n
      /\ \A k \in 1..n : orders'[k] = IF k = m THEN Filled(orders[m])
                                       ELSE IF k = taker THEN Filled(orders[taker])
                                       ELSE orders[k]
  <2> DEFINE o1 == [orders EXCEPT ![taker] = Filled(orders[taker])]
  <2> HIDE DEF Filled
  <2>1. /\ o1 \in Seq(Orders) /\ Len(o1) = n
        /\ \A k \in 1..n : o1[k] = IF k = taker THEN Filled(orders[taker])
                                                ELSE orders[k]
    BY <1>1, <1>4, <1>7, ExceptSeq DEF n
  <2>2. orders' = [o1 EXCEPT ![m] = Filled(orders[m])]
    BY <1>6
  <2> HIDE DEF o1
  <2>3. /\ orders' \in Seq(Orders) /\ Len(orders') = n
        /\ \A k \in 1..n : orders'[k] = IF k = m THEN Filled(orders[m]) ELSE o1[k]
    <3>1. m \in 1..Len(o1) /\ Filled(orders[m]) \in Orders
      BY <1>1, <1>7, <2>1
    <3> DEFINE e == Filled(orders[m])
    <3> HIDE DEF e
    <3>2. /\ [o1 EXCEPT ![m] = e] \in Seq(Orders)
          /\ Len([o1 EXCEPT ![m] = e]) = Len(o1)
          /\ \A k \in 1..Len(o1) : [o1 EXCEPT ![m] = e][k] = IF k = m THEN e ELSE o1[k]
      BY <2>1, <3>1, ExceptSeq DEF e
    <3> QED BY <2>1, <2>2, <3>2 DEF e
  <2> QED BY <2>1, <2>3
<1>9. \A k \in 1..n :
         orders'[k] = [orders[k] EXCEPT !.filled =
                         IF k \in {taker, m} THEN @ + qty ELSE @]
  <2> TAKE k \in 1..n
  <2>1. CASE k \in {taker, m}
    BY <2>1, <1>8
  <2>2. CASE k \notin {taker, m}
    <3>1. orders'[k] = orders[k]
      BY <2>2, <1>8
    <3>2. orders[k] = [orders[k] EXCEPT !.filled = @]
      BY <1>5 DEF Orders
    <3> QED BY <2>2, <3>1, <3>2
  <2> QED BY <2>1, <2>2
<1> QED BY <1>3, <1>8, <1>9 DEF m, n

LEMMA FillInv ==
  ASSUME Inv, Fill
  PROVE  Inv'
<1> USE DEF Inv
<1> DEFINE n == Len(orders)
           m == Maker
           qty == Least(Remaining(orders[taker]), Remaining(orders[m]))
<1>1. /\ Matching /\ m \in byId /\ m # taker /\ m \in 1..n /\ taker \in 1..n
      /\ OppositeSide \in Sides /\ OppositePrice \in tree[OppositeSide]
      /\ orders[m].price = OppositePrice
  BY MatchFacts DEF Fill
<1>2. /\ orders' = [orders EXCEPT ![taker].filled = @ + qty, ![m].filled = @ + qty]
      /\ result' = [result EXCEPT !.trades =
                       Append(@, Trade(m, taker, orders[m].price, qty))]
      /\ IF IsFilled(orders'[m])
         THEN RemoveOrder(m, qty)
         ELSE /\ volume' = [volume EXCEPT ![OppositeSide][OppositePrice] = @ - qty]
              /\ UNCHANGED <<tree, queue, byId, home>>
      /\ UNCHANGED <<taker, version>>
  BY DEF Fill
<1> HIDE DEF m, qty
<1>3. /\ qty \in Nat \ {0}
      /\ orders' \in Seq(Orders) /\ Len(orders') = n
      /\ \A k \in 1..n :
            orders'[k] = [orders[k] EXCEPT !.filled =
                            IF k \in {taker, m} THEN @ + qty ELSE @]
      /\ qty <= Remaining(orders[taker]) /\ qty <= Remaining(orders[m])
  BY <1>1, <1>2, FillFacts DEF qty, m
<1>4. \A k \in 1..n : /\ orders'[k].side = orders[k].side
                      /\ orders'[k].price = orders[k].price
                      /\ orders'[k].type = orders[k].type
                      /\ orders'[k].qty = orders[k].qty
                      /\ orders'[k].filled = IF k \in {taker, m}
                                             THEN orders[k].filled + qty
                                             ELSE orders[k].filled
  BY <1>3, FillFields DEF m
<1>5. \A k \in byId \ {m} : k \in 1..n /\ Remaining(orders'[k]) > 0
  <2> TAKE k \in byId \ {m}
  <2>1. k \in 1..n /\ k # taker /\ k # m
    BY <1>1 DEF TakerOffBook, TypeOK, Matching
  <2>2. orders'[k] = [orders[k] EXCEPT !.filled = @]
    BY <1>3, <2>1
  <2>3. orders'[k] = orders[k]
    BY <2>1, <2>2, OrderFields DEF Orders
  <2> QED BY <2>1, <2>3 DEF IndexesAgree
<1>6. BookInv' /\ byId' \subseteq byId
  <2>1. CASE IsFilled(orders'[m])
    <3>1. RemoveOrder(m, qty) /\ qty \in Int
      BY <1>2, <1>3, <2>1
    <3> QED BY <1>1, <1>3, <1>4, <1>5, <3>1, RemovalKeeps
  <2>2. CASE ~ IsFilled(orders'[m])
    <3>1. /\ volume' = [volume EXCEPT ![OppositeSide][OppositePrice] = @ - qty]
          /\ UNCHANGED <<tree, queue, byId, home>>
      BY <1>2, <2>2
    <3>2. volume' \in [Sides -> [Prices -> Int]]
      BY <1>1, <1>3, <3>1 DEF TypeOK
    <3>3. Remaining(orders'[m]) > 0
      <4>1. orders'[m] \in Orders
        BY <1>1, <1>3, ElementOfSeq
      <4>2. orders'[m].filled \in Nat /\ orders'[m].qty \in Quantities
        BY <4>1 DEF Orders
      <4>3. orders'[m].qty \in Nat
        BY <4>2, QuantitiesAssumption
      <4> QED BY <4>2, <4>3, <2>2 DEF IsFilled, Remaining
    <3>4. IndexesAgree'
      <4>1. \A k \in byId : k \in 1..n /\ Remaining(orders'[k]) > 0
        BY <1>1, <1>5, <3>3
      <4>2. \A k \in byId : /\ home'[k] = orders'[k].price
                             /\ orders'[k].type = "limit"
        BY <1>4, <3>1, <4>1 DEF IndexesAgree
      <4>3. \A k \in 1..n, s \in Sides, p \in Prices :
              k \in Ids(queue[s][p]) <=>
                k \in byId /\ home[k] = p /\ orders'[k].side = s
        BY <1>4 DEF IndexesAgree
      <4>4. /\ \A s \in Sides, p \in Prices : p \in tree[s] <=> queue[s][p] # <<>>
            /\ \A k \in 1..n : k \in byId <=> home[k] # NoPrice
        BY DEF IndexesAgree
      <4> QED BY <1>3, <3>1, <4>1, <4>2, <4>3, <4>4 DEF IndexesAgree, Remaining
    <3>5. NotCrossed' /\ QueuesInArrivalOrder'
      BY <3>1 DEF NotCrossed, QueuesInArrivalOrder
    <3> QED BY <1>3, <3>1, <3>2, <3>4, <3>5 DEF BookInv, TypeOK
  <2> QED BY <2>1, <2>2
<1>7. result' \in [trades : Seq(Trades), canceled : Seq(Nat), rested : BOOLEAN]
  <2>1. Trade(m, taker, orders[m].price, qty) \in Trades
    BY <1>1, <1>3, OrderFields DEF Trade, Trades
  <2>2. Append(result.trades, Trade(m, taker, orders[m].price, qty)) \in Seq(Trades)
    BY <2>1, AppendProperties DEF TypeOK
  <2> QED BY <1>2, <2>2 DEF TypeOK
<1>8. TypeOK' /\ NotCrossed' /\ IndexesAgree' /\ QueuesInArrivalOrder'
  BY <1>2, <1>3, <1>6, <1>7 DEF TypeOK, BookInv
<1>9. TakerOffBook'
  BY <1>2, <1>3, <1>6 DEF TakerOffBook
<1>10. OrdersSound'
  <2>1. ASSUME NEW k \in 1..n PROVE orders'[k].filled <= orders'[k].qty
    <3>1. /\ orders[k].filled \in Nat /\ orders[k].qty \in Nat
          /\ orders[k].filled <= orders[k].qty
      BY OrderFields DEF OrdersSound
    <3>2. k \in {taker, m} => qty <= orders[k].qty - orders[k].filled
      BY <1>3 DEF Remaining
    <3> QED BY <1>3, <1>4, <3>1, <3>2
  <2>2. \A k \in 1..n : orders'[k].type = "market" <=> orders'[k].price = NoPrice
    BY <1>4 DEF OrdersSound
  <2> QED BY <1>3, <2>1, <2>2 DEF OrdersSound
<1> QED BY <1>8, <1>9, <1>10

LEMMA FinishInv ==
  ASSUME Inv, Finish
  PROVE  Inv'
<1> USE DEF Inv
<1> DEFINE t == orders[taker]
           rests == t.type = "limit" /\ Remaining(t) > 0
<1>1. /\ taker # NoOrder /\ ~ Matching
      /\ IF rests THEN Rest(taker, t.side, t.price) ELSE UNCHANGED bookVars
      /\ result' = [result EXCEPT !.rested = rests]
      /\ version' = version + 1
      /\ taker' = NoOrder
      /\ UNCHANGED orders
  BY DEF Finish
<1>2. taker = Len(orders) /\ taker \in 1..Len(orders) /\ taker \notin byId
  BY <1>1 DEF TakerOffBook, TypeOK, NoOrder
<1>3. BookInv'
  <2>1. CASE rests
    <3>1. \A q \in tree[OppositeSide] : ~ Crosses(t, q)
      <4>1. CASE tree[OppositeSide] = {}
        BY <4>1
      <4>2. CASE tree[OppositeSide] # {}
        <5> DEFINE best == OppositePrice
        <5>1. OppositeSide \in Sides
          BY DEF OppositeSide, Opposite, Sides
        <5>2. /\ best \in tree[OppositeSide]
              /\ \A q \in tree[OppositeSide] : ~ Better(OppositeSide, q, best)
          BY <4>2, <5>1, BestPriceIsBest DEF TypeOK, OppositePrice
        <5>3. ~ Crosses(t, best)
          BY <1>1, <2>1, <4>2 DEF Matching
        <5>4. t.price \in Nat /\ t.side \in Sides
          <6>1. t.price \in Prices \cup {NoPrice} /\ t.side \in Sides
            BY <1>2, OrderFields
          <6> QED BY <6>1, PricesAreNat
        <5>5. tree[OppositeSide] \subseteq Nat
          BY <5>1, PricesAssumption DEF TypeOK
        <5> HIDE DEF best
        <5> QED BY <5>2, <5>3, <5>4, <5>5
                DEF Crosses, Better, OppositeSide, Opposite, Sides
      <4> QED BY <4>1, <4>2
    <3> QED BY <1>1, <1>2, <2>1, <3>1, RestKeeps DEF OppositeSide
  <2>2. CASE ~ rests
    <3>1. UNCHANGED bookVars
      BY <1>1, <2>2
    <3> QED BY <1>1, <3>1 DEF bookVars, BookInv, TypeOK, NotCrossed,
                              IndexesAgree, QueuesInArrivalOrder, Remaining
  <2> QED BY <2>1, <2>2
<1>4. result' \in [trades : Seq(Trades), canceled : Seq(Nat), rested : BOOLEAN]
  BY <1>1 DEF TypeOK
<1>5. TypeOK' /\ NotCrossed' /\ IndexesAgree' /\ QueuesInArrivalOrder'
  BY <1>1, <1>3, <1>4 DEF TypeOK, BookInv, NoOrder
<1>6. OrdersSound' /\ TakerOffBook'
  BY <1>1 DEF OrdersSound, TakerOffBook
<1> QED BY <1>5, <1>6

LEMMA NextInv == Inv /\ [Next]_vars => Inv'
<1> SUFFICES ASSUME Inv, [Next]_vars PROVE Inv'
  OBVIOUS
<1>1. ASSUME NEW o \in Inputs, Place(o) PROVE Inv'
  BY <1>1, PlaceInv
<1>2. CASE PreventSelfTrade
  BY <1>2, PreventSelfTradeInv
<1>3. CASE Fill
  BY <1>3, FillInv
<1>4. CASE Finish
  BY <1>4, FinishInv
<1>5. ASSUME NEW id \in byId, Cancel(id) PROVE Inv'
  BY <1>5, CancelInv
<1>6. CASE UNCHANGED vars
  <2>1. UNCHANGED <<orders, taker, result, tree, queue, volume, byId, home, version>>
    BY <1>6 DEF vars, bookVars
  <2>2. TypeOK' /\ NotCrossed' /\ QueuesInArrivalOrder'
    BY <2>1 DEF Inv, TypeOK, NotCrossed, QueuesInArrivalOrder
  <2>3. OrdersSound' /\ TakerOffBook'
    BY <2>1 DEF Inv, OrdersSound, TakerOffBook
  <2>4. IndexesAgree'
    BY <2>1 DEF Inv, IndexesAgree, Remaining
  <2> QED BY <2>2, <2>3, <2>4 DEF Inv
<1> QED BY <1>1, <1>2, <1>3, <1>4, <1>5, <1>6 DEF Next

LEMMA InvHolds == Spec => []Inv
BY InitInv, NextInv, PTL DEF Spec

-----------------------------------------------------------------------------
\* Every variable of the book keeps its type.
THEOREM BookTypes == Spec => []TypeOK
BY InvHolds, PTL DEF Inv

\* The book is never crossed, whatever is placed, matched and cancelled.
THEOREM NeverCrossed == Spec => []NotCrossed
BY InvHolds, PTL DEF Inv

\* Tree, queues, index and back-pointers always describe the same book.
THEOREM IndexesAlwaysAgree == Spec => []IndexesAgree
BY InvHolds, PTL DEF Inv

\* Every queue is in order of arrival.
THEOREM QueuesAlwaysInOrder == Spec => []QueuesInArrivalOrder
BY InvHolds, PTL DEF Inv

-----------------------------------------------------------------------------
(***************************************************************************)
(* Quantities.  The cached volume of a level and what both sides traded    *)
(* are sums over orders, taken with the lemmas of Sums.                    *)
(***************************************************************************)

\* What orders have left, and have done, as functions of their ids.
Left == [id \in 1..Len(orders) |-> Remaining(orders[id])]
Done == [id \in 1..Len(orders) |-> orders[id].filled]

\* Volumes and balance, as sums of these functions.
LevelsSum ==
    \A s \in Sides : \A p \in tree[s] : volume[s][p] = SumOver(Left, Ids(queue[s][p]))
DoneOn(side) == SumOver(Done, OnSide(side))

LEMMA LotsAreSums ==
  /\ VolumesAgree <=> LevelsSum
  /\ VolumesAgree' <=> LevelsSum'
  /\ LotsDone(OnSide("buy")) = LotsDone(OnSide("sell")) <=> DoneOn("buy") = DoneOn("sell")
  /\ (LotsDone(OnSide("buy")) = LotsDone(OnSide("sell")))' <=> DoneOn("buy")' = DoneOn("sell")'
BY DEF VolumesAgree, LevelsSum, LotsLeft, LotsDone, DoneOn, SumOver, Left, Done

\* The ids of a level, and the lots they have left.
LEMMA LevelIds ==
  ASSUME TypeOK, IndexesAgree, NEW s \in Sides, NEW p \in Prices
  PROVE  LET level == Ids(queue[s][p])
         IN  /\ IsFiniteSet(level) /\ level \subseteq 1..Len(orders) /\ level \subseteq byId
             /\ \A k \in level : Left[k] = Remaining(orders[k]) /\ Left[k] \in Int
<1>1. queue[s][p] \in Seq(1..Len(orders))
  BY DEF TypeOK
<1>2. Ids(queue[s][p]) \subseteq 1..Len(orders)
  BY <1>1, LenProperties DEF Ids
<1>3. Len(orders) \in Int /\ 1 \in Int
  BY LenProperties DEF TypeOK
<1>4. IsFiniteSet(1..Len(orders))
  BY <1>3, FS_Interval
<1>6. IsFiniteSet(Ids(queue[s][p]))
  BY <1>2, <1>4, FS_Subset
<1>5. \A k \in 1..Len(orders) : Left[k] = Remaining(orders[k]) /\ Left[k] \in Int
  BY OrderFields DEF Left
<1> QED BY <1>2, <1>5, <1>6 DEF IndexesAgree

\* What RemoveOrder does to each level: the order leaves its own, which gives
\* up the lots named, and a level that is still in the tree was there before.
LEMMA RemovalEffect ==
  ASSUME TypeOK, IndexesAgree, QueuesInArrivalOrder,
         NEW id \in byId, NEW lots \in Int, RemoveOrder(id, lots),
         NEW s \in Sides, NEW p \in Prices
  PROVE  /\ Ids(queue'[s][p]) = Ids(queue[s][p]) \ {id}
         /\ p \in tree'[s] => p \in tree[s]
         /\ volume'[s][p] = IF id \in Ids(queue[s][p]) THEN volume[s][p] - lots
                                                       ELSE volume[s][p]
<1> DEFINE S == 1..Len(orders)
           side == orders[id].side
           at == home[id]
           old == queue[side][at]
           i == CHOOSE k \in DOMAIN old : old[k] = id
           new == RemoveAt(old, i)
<1>1. /\ id \in S /\ side \in Sides /\ at \in Prices
      /\ id \in Ids(queue[s][p]) <=> s = side /\ p = at
      /\ id \in Ids(old)
  BY WhereItRests
<1>2. old \in Seq(S) /\ S \in SUBSET Nat /\ Ascending(old)
  BY SMTT(30), <1>1 DEF TypeOK, QueuesInArrivalOrder, Ascending
<1>3. i \in DOMAIN old /\ old[i] = id
  BY <1>1 DEF Ids
<1>4. Ids(new) = Ids(old) \ {id}
  <2> HIDE DEF old, i, S
  <2> QED BY <1>2, <1>3, RemoveFromQueue
<1>5. /\ queue' = [queue EXCEPT ![side][at] = new]
      /\ volume' = [volume EXCEPT ![side][at] = @ - lots]
      /\ tree' = [tree EXCEPT ![side] = IF new = <<>> THEN @ \ {at} ELSE @]
  BY DEF RemoveOrder
<1> HIDE DEF new, i, side, at
<1>6. Ids(queue'[s][p]) = Ids(queue[s][p]) \ {id}
  BY <1>1, <1>4, <1>5 DEF TypeOK
<1>7. p \in tree'[s] => p \in tree[s]
  BY <1>1, <1>5 DEF TypeOK
<1>8. volume'[s][p] = IF s = side /\ p = at THEN volume[s][p] - lots ELSE volume[s][p]
  BY <1>1, <1>5 DEF TypeOK
<1> QED BY <1>1, <1>6, <1>7, <1>8

LEMMA RemovalVolumes ==
  ASSUME TypeOK, IndexesAgree, QueuesInArrivalOrder, LevelsSum,
         NEW id \in byId, RemoveOrder(id, Remaining(orders[id])),
         Len(orders') = Len(orders),
         \A k \in byId \ {id} : Remaining(orders'[k]) = Remaining(orders[k])
  PROVE  LevelsSum'
<1> SUFFICES ASSUME NEW s \in Sides, NEW p \in tree'[s], p \in Prices
             PROVE  volume'[s][p] = SumOver(Left', Ids(queue'[s][p]))
  <2>1. ASSUME NEW s \in Sides, NEW p \in tree'[s] PROVE p \in Prices
    <3>1. tree' \in [Sides -> SUBSET Prices]
      <4>1. orders[id].side \in Sides
        BY WhereItRests
      <4> QED BY ZenonT(40), <4>1 DEF RemoveOrder, TypeOK
    <3> QED BY SMTT(30), <3>1
  <2> QED BY <2>1 DEF LevelsSum
<1> DEFINE level == Ids(queue[s][p])
           lots == Remaining(orders[id])
<1>1. lots \in Int /\ id \in 1..Len(orders)
  BY OrderFields, WhereItRests
<1>2. /\ Ids(queue'[s][p]) = level \ {id} /\ p \in tree[s]
      /\ volume'[s][p] = IF id \in level THEN volume[s][p] - lots ELSE volume[s][p]
  BY <1>1, RemovalEffect
<1>3. /\ IsFiniteSet(level) /\ level \subseteq 1..Len(orders) /\ level \subseteq byId
      /\ \A k \in level : Left[k] = Remaining(orders[k]) /\ Left[k] \in Int
  BY LevelIds
<1>4. volume[s][p] = SumOver(Left, level)
  BY <1>2 DEF LevelsSum
<1> HIDE DEF level
<1>5. SumOver(Left', level \ {id}) = SumOver(Left, level \ {id})
  <2>1. IsFiniteSet(level \ {id})
    BY <1>3, FS_RemoveElement
  <2>2. \A k \in level \ {id} : Left'[k] = Left[k]
    BY <1>3 DEF Left
  <2> QED BY <2>1, <2>2, SumSame
<1>6. CASE id \in level
  <2>1. SumOver(Left, level) = Left[id] + SumOver(Left, level \ {id})
    BY <1>3, <1>6, SumTakeOut
  <2>2. SumOver(Left, level \ {id}) \in Int
    BY <1>3, FS_RemoveElement, SumType
  <2>3. Left[id] = lots
    BY <1>3, <1>6
  <2> QED BY <1>1, <1>2, <1>4, <1>5, <1>6, <2>1, <2>2, <2>3
<1>7. CASE id \notin level
  <2>1. level \ {id} = level
    BY <1>7
  <2> QED BY <1>2, <1>4, <1>5, <1>7, <2>1
<1> QED BY <1>6, <1>7

\* Levels whose queues stay, of orders that stay as they are.
LEMMA SameLevels ==
  ASSUME TypeOK, IndexesAgree, LevelsSum, UNCHANGED <<tree, queue, volume>>,
         \A k \in byId : k \in 1..Len(orders') /\ Remaining(orders'[k]) = Remaining(orders[k])
  PROVE  LevelsSum'
<1> SUFFICES ASSUME NEW s \in Sides, NEW p \in tree[s]
             PROVE  volume[s][p] = SumOver(Left', Ids(queue[s][p]))
  BY DEF LevelsSum
<1> DEFINE level == Ids(queue[s][p])
<1>1. p \in Prices
  BY DEF TypeOK
<1>2. /\ IsFiniteSet(level) /\ level \subseteq 1..Len(orders) /\ level \subseteq byId
  BY <1>1, LevelIds
<1>3. volume[s][p] = SumOver(Left, level)
  BY DEF LevelsSum
<1> HIDE DEF level
<1>4. \A k \in level : Left[k] = Left'[k]
  BY <1>2 DEF Left
<1>5. SumOver(Left, level) = SumOver(Left', level)
  BY <1>2, <1>4, SumSame
<1> QED BY <1>3, <1>5 DEF level

-----------------------------------------------------------------------------
\* Every action keeps the volumes.

LEMMA PlaceVolumes ==
  ASSUME Inv, LevelsSum, NEW o \in Inputs, Place(o)
  PROVE  LevelsSum'
<1>1. orders' = Append(orders, o) /\ UNCHANGED <<tree, queue, volume>>
  BY DEF Place
<1>2. orders \in Seq(Orders) /\ o \in Orders
  BY InputsAssumption DEF Inv, TypeOK, NewOrders, Orders
<1>3. /\ Len(orders') = Len(orders) + 1 /\ Len(orders) \in Nat
      /\ \A k \in 1..Len(orders) : orders'[k] = orders[k]
  BY <1>1, <1>2, AppendProperties, LenProperties
<1>4. \A k \in byId : k \in 1..Len(orders') /\ Remaining(orders'[k]) = Remaining(orders[k])
  BY <1>3 DEF Inv, TypeOK, Remaining
<1> QED BY <1>1, <1>4, SameLevels DEF Inv

LEMMA RemovalsKeepVolumes ==
  ASSUME Inv, LevelsSum, NEW id \in byId, RemoveOrder(id, Remaining(orders[id])),
         UNCHANGED orders
  PROVE  LevelsSum'
BY RemovalVolumes DEF Inv

\* The level of a maker that is not used up gives up the lots traded.
LEMMA PartialFillVolumes ==
  ASSUME Inv, LevelsSum, Matching, NEW qty \in Nat, UNCHANGED <<tree, queue>>,
         volume' = [volume EXCEPT ![OppositeSide][OppositePrice] = @ - qty],
         Len(orders') = Len(orders),
         Remaining(orders'[Maker]) = Remaining(orders[Maker]) - qty,
         \A k \in byId \ {Maker} : Remaining(orders'[k]) = Remaining(orders[k])
  PROVE  LevelsSum'
<1> USE DEF Inv
<1> SUFFICES ASSUME NEW s \in Sides, NEW p \in tree[s]
             PROVE  volume'[s][p] = SumOver(Left', Ids(queue[s][p]))
  BY DEF LevelsSum
<1> DEFINE level == Ids(queue[s][p])
<1>1. /\ OppositeSide \in Sides /\ OppositePrice \in Prices /\ p \in Prices
      /\ Maker \in byId /\ Maker \in 1..Len(orders)
      /\ orders[Maker].side = OppositeSide /\ home[Maker] = OppositePrice
      /\ Remaining(orders[Maker]) \in Int
  BY MatchFacts DEF TypeOK
<1>2. /\ IsFiniteSet(level) /\ level \subseteq 1..Len(orders) /\ level \subseteq byId
      /\ \A k \in level : Left[k] = Remaining(orders[k]) /\ Left[k] \in Int
  BY <1>1, LevelIds
<1>3. volume[s][p] = SumOver(Left, level) /\ volume[s][p] \in Int
  BY <1>1 DEF LevelsSum, TypeOK
<1>4. Maker \in level <=> s = OppositeSide /\ p = OppositePrice
  BY <1>1 DEF IndexesAgree
<1>5. volume'[s][p] = IF Maker \in level THEN volume[s][p] - qty ELSE volume[s][p]
  BY <1>1, <1>4 DEF TypeOK
<1> HIDE DEF level
<1>6. \A k \in level \ {Maker} : Left'[k] = Left[k]
  BY <1>2 DEF Left
<1>7. CASE Maker \in level
  <2>1. Left'[Maker] = Left[Maker] - qty /\ Left[Maker] \in Int /\ Left'[Maker] \in Int
    BY <1>1, <1>2, <1>7 DEF Left
  <2>2. \A k \in level : Left[k] \in Int /\ Left'[k] \in Int
    BY <1>2, <1>6, <2>1
  <2>3. SumOver(Left', level) = SumOver(Left, level) + (Left'[Maker] - Left[Maker])
    BY ZenonT(40), <1>2, <1>6, <1>7, <2>2, SumChange
  <2> QED BY <1>3, <1>5, <1>7, <2>1, <2>3 DEF level
<1>8. CASE Maker \notin level
  <2>1. \A k \in level : Left[k] = Left'[k]
    BY <1>6, <1>8
  <2>2. SumOver(Left, level) = SumOver(Left', level)
    BY <1>2, <2>1, SumSame
  <2> QED BY <1>3, <1>5, <1>8, <2>2 DEF level
<1> QED BY <1>7, <1>8

LEMMA FillVolumes ==
  ASSUME Inv, LevelsSum, Fill
  PROVE  LevelsSum'
<1> USE DEF Inv
<1> DEFINE n == Len(orders)
           qty == Least(Remaining(orders[taker]), Remaining(orders[Maker]))
<1>1. /\ Matching /\ Maker \in byId /\ Maker # taker /\ Maker \in 1..n /\ taker \in 1..n
      /\ taker \notin byId
  BY MatchFacts DEF Fill, TakerOffBook, Matching
<1>2. /\ orders' = [orders EXCEPT ![taker].filled = @ + qty, ![Maker].filled = @ + qty]
      /\ IF IsFilled(orders'[Maker])
         THEN RemoveOrder(Maker, qty)
         ELSE /\ volume' = [volume EXCEPT ![OppositeSide][OppositePrice] = @ - qty]
              /\ UNCHANGED <<tree, queue, byId, home>>
  BY DEF Fill
<1>3. /\ qty \in Nat /\ Len(orders') = n
      /\ \A k \in 1..n :
            orders'[k] = [orders[k] EXCEPT !.filled =
                            IF k \in {taker, Maker} THEN @ + qty ELSE @]
      /\ qty <= Remaining(orders[Maker])
  BY <1>1, <1>2, FillFacts
<1> HIDE DEF qty
<1>4. \A k \in 1..n : /\ orders'[k].qty = orders[k].qty
                      /\ orders'[k].filled = IF k \in {taker, Maker}
                                             THEN orders[k].filled + qty
                                             ELSE orders[k].filled
                      /\ orders[k].filled \in Nat /\ orders[k].qty \in Nat
  BY <1>3, FillFields, OrderFields
<1>5. \A k \in byId \ {Maker} : Remaining(orders'[k]) = Remaining(orders[k])
  <2> TAKE k \in byId \ {Maker}
  <2>1. k \in 1..n /\ k # taker
    BY <1>1 DEF TypeOK
  <2> QED BY <1>4, <2>1 DEF Remaining
<1>6. Remaining(orders'[Maker]) = Remaining(orders[Maker]) - qty
  BY <1>1, <1>3, <1>4 DEF Remaining
<1>7. CASE IsFilled(orders'[Maker])
  <2>1. qty = Remaining(orders[Maker])
    BY <1>1, <1>3, <1>4, <1>7 DEF IsFilled, Remaining
  <2>2. RemoveOrder(Maker, Remaining(orders[Maker]))
    BY <1>2, <1>7, <2>1
  <2> QED BY <1>1, <1>3, <1>5, <2>2, RemovalVolumes
<1>8. CASE ~ IsFilled(orders'[Maker])
  BY <1>1, <1>2, <1>3, <1>5, <1>6, <1>8, PartialFillVolumes
<1> QED BY <1>7, <1>8

\* The level a taker comes to rest in gains what is left of it.
LEMMA RestVolumes ==
  ASSUME Inv, LevelsSum, NEW id \in 1..Len(orders), id \notin byId,
         orders[id].price \in Prices,
         Rest(id, orders[id].side, orders[id].price), UNCHANGED orders
  PROVE  LevelsSum'
<1> USE DEF Inv
<1> DEFINE side == orders[id].side
           at == orders[id].price
           old == queue[side][at]
           found == at \in tree[side]
           lots == Remaining(orders[id])
<1>1. side \in Sides /\ at \in Prices /\ lots \in Int
  BY OrderFields
<1>2. /\ tree' = [tree EXCEPT ![side] = @ \cup {at}]
      /\ queue' = [queue EXCEPT ![side][at] = IF found THEN Append(@, id) ELSE <<id>>]
      /\ volume' = [volume EXCEPT ![side][at] = IF found THEN @ + lots ELSE lots]
  BY DEF Rest
<1>3. old \in Seq(1..Len(orders)) /\ (found <=> old # <<>>)
  BY <1>1 DEF TypeOK, IndexesAgree
<1>4. Ids(Append(old, id)) = Ids(old) \cup {id} /\ Ids(<<id>>) = {id}
  <2>1. Ids(<<id>>) = {id}
    BY DEF Ids
  <2>2. /\ Len(Append(old, id)) = Len(old) + 1 /\ Len(old) \in Nat
        /\ \A k \in 1..Len(old) : Append(old, id)[k] = old[k]
        /\ Append(old, id)[Len(old) + 1] = id
        /\ DOMAIN old = 1..Len(old) /\ DOMAIN Append(old, id) = 1..(Len(old) + 1)
    BY <1>3, AppendProperties, LenProperties
  <2> HIDE DEF old
  <2>3. 1..(Len(old) + 1) = (1..Len(old)) \cup {Len(old) + 1}
    BY <2>2
  <2> QED BY <2>1, <2>2, <2>3 DEF Ids
<1> SUFFICES ASSUME NEW s \in Sides, NEW p \in tree'[s], p \in Prices
             PROVE  volume'[s][p] = SumOver(Left, Ids(queue'[s][p]))
  <2>1. \A s \in Sides : tree'[s] \subseteq Prices
    BY <1>1, <1>2 DEF TypeOK
  <2>2. Left' = Left
    BY DEF Left
  <2> QED BY <2>1, <2>2 DEF LevelsSum
<1>5. CASE s = side /\ p = at
  <2>1. Left[id] = lots
    BY DEF Left
  <2>2. /\ queue'[s][p] = IF found THEN Append(old, id) ELSE <<id>>
        /\ volume'[s][p] = IF found THEN volume[s][p] + lots ELSE lots
    BY <1>1, <1>2, <1>5 DEF TypeOK
  <2>3. /\ IsFiniteSet(Ids(old)) /\ Ids(old) \subseteq byId
        /\ \A k \in Ids(old) : Left[k] \in Int
    BY <1>1, LevelIds
  <2>4. found => volume[s][p] = SumOver(Left, Ids(old))
    BY <1>5 DEF LevelsSum
  <2> HIDE DEF old, lots, found
  <2>5. id \notin Ids(old) /\ \A k \in Ids(old) \cup {id} : Left[k] \in Int
    BY <1>1, <2>1, <2>3
  <2>6. SumOver(Left, Ids(old) \cup {id}) = Left[id] + SumOver(Left, Ids(old))
    BY <2>3, <2>5, SumAdd
  <2>7. SumOver(Left, Ids(old)) \in Int
    BY <2>3, SumType
  <2>8. SumOver(Left, {id}) = Left[id]
    <3>1. SumOver(Left, {} \cup {id}) = Left[id] + SumOver(Left, {})
      BY <1>1, <2>1, FS_EmptySet, SumAdd
    <3> QED BY <1>1, <2>1, <3>1, SumOfNone
  <2>9. CASE found
    <3>1. queue'[s][p] = Append(old, id) /\ volume'[s][p] = SumOver(Left, Ids(old)) + lots
      BY <2>2, <2>4, <2>9
    <3>2. Ids(queue'[s][p]) = Ids(old) \cup {id}
      BY <1>4, <3>1 DEF old
    <3> QED BY <1>1, <2>1, <2>6, <2>7, <3>1, <3>2 DEF lots
  <2>10. CASE ~ found
    <3>1. Ids(queue'[s][p]) = {id} /\ volume'[s][p] = lots
      BY <1>4, <2>2, <2>10
    <3> QED BY <2>1, <2>8, <3>1
  <2> QED BY <2>9, <2>10
<1>6. CASE ~ (s = side /\ p = at)
  <2>1. p \in tree[s] /\ queue'[s][p] = queue[s][p] /\ volume'[s][p] = volume[s][p]
    BY <1>1, <1>2, <1>6 DEF TypeOK
  <2> QED BY <2>1 DEF LevelsSum
<1> QED BY <1>5, <1>6

LEMMA FinishVolumes ==
  ASSUME Inv, LevelsSum, Finish
  PROVE  LevelsSum'
<1> USE DEF Inv
<1> DEFINE t == orders[taker]
           rests == t.type = "limit" /\ Remaining(t) > 0
<1>1. /\ taker # NoOrder /\ UNCHANGED orders
      /\ IF rests THEN Rest(taker, t.side, t.price) ELSE UNCHANGED bookVars
  BY DEF Finish
<1>2. taker \in 1..Len(orders) /\ taker \notin byId
  BY <1>1 DEF TakerOffBook, TypeOK, NoOrder
<1>3. CASE rests
  <2>1. t.price \in Prices
    BY <1>2, <1>3, OrderFields DEF OrdersSound
  <2> QED BY <1>1, <1>2, <1>3, <2>1, RestVolumes
<1>4. CASE ~ rests
  BY <1>1, <1>2, <1>4 DEF bookVars, LevelsSum, Left
<1> QED BY <1>3, <1>4

-----------------------------------------------------------------------------
\* What both sides traded.

LEMMA SideIds ==
  ASSUME TypeOK, NEW side
  PROVE  /\ IsFiniteSet(OnSide(side)) /\ OnSide(side) \subseteq 1..Len(orders)
         /\ \A k \in OnSide(side) : Done[k] = orders[k].filled /\ Done[k] \in Nat
<1>1. Len(orders) \in Int /\ 1 \in Int
  BY LenProperties DEF TypeOK
<1>2. IsFiniteSet(1..Len(orders))
  BY <1>1, FS_Interval
<1>3. OnSide(side) \subseteq 1..Len(orders)
  BY DEF OnSide
<1>4. IsFiniteSet(OnSide(side))
  BY <1>2, <1>3, FS_Subset
<1> QED BY <1>3, <1>4, OrderFields DEF Done

\* A new order has traded nothing.
LEMMA PlaceDone ==
  ASSUME Inv, NEW o \in Inputs, Place(o), NEW side \in Sides
  PROVE  DoneOn(side)' = DoneOn(side)
<1> DEFINE n == Len(orders)
           S == OnSide(side)
<1>1. orders' = Append(orders, o)
  BY DEF Place
<1>2. orders \in Seq(Orders) /\ o \in Orders /\ o.filled = 0
  BY InputsAssumption DEF Inv, TypeOK, NewOrders, Orders
<1>3. /\ Len(orders') = n + 1 /\ n \in Nat /\ orders'[n + 1] = o
      /\ \A k \in 1..n : orders'[k] = orders[k]
  BY <1>1, <1>2, AppendProperties, LenProperties
<1>4. /\ IsFiniteSet(S) /\ S \subseteq 1..n
      /\ \A k \in S : Done[k] = orders[k].filled /\ Done[k] \in Nat
  BY SideIds DEF Inv
<1>5. OnSide(side)' = IF o.side = side THEN S \cup {n + 1} ELSE S
  <2>1. 1..(n + 1) = (1..n) \cup {n + 1}
    BY <1>3
  <2> QED BY <1>3, <2>1 DEF OnSide
<1>6. \A k \in S : Done'[k] = Done[k]
  BY <1>3, <1>4 DEF Done
<1>7. Done'[n + 1] = 0
  BY <1>2, <1>3 DEF Done
<1>8. n + 1 \notin S
  BY <1>3, <1>4
<1> HIDE DEF S
<1>9. SumOver(Done', S) = SumOver(Done, S)
  BY <1>4, <1>6, SumSame
<1>10. SumOver(Done', S \cup {n + 1}) = Done'[n + 1] + SumOver(Done', S)
  <2>1. \A k \in S \cup {n + 1} : Done'[k] \in Int
    BY <1>4, <1>6, <1>7
  <2> QED BY <1>4, <1>8, <2>1, SumAdd
<1>11. SumOver(Done, S) \in Int
  <2>1. \A k \in S : Done[k] \in Int
    BY <1>4
  <2> QED BY <1>4, <2>1, SumType
<1> QED BY <1>5, <1>7, <1>9, <1>10, <1>11 DEF DoneOn, S

\* A fill counts the same lots on both sides.
LEMMA FillDone ==
  ASSUME Inv, Fill
  PROVE  \E qty \in Nat : \A side \in Sides : DoneOn(side)' = DoneOn(side) + qty
<1> USE DEF Inv
<1> DEFINE n == Len(orders)
           qty == Least(Remaining(orders[taker]), Remaining(orders[Maker]))
<1>1. /\ Matching /\ Maker # taker /\ Maker \in 1..n /\ taker \in 1..n
      /\ orders[Maker].side = OppositeSide
  BY MatchFacts DEF Fill
<1>2. orders' = [orders EXCEPT ![taker].filled = @ + qty, ![Maker].filled = @ + qty]
  BY DEF Fill
<1>3. /\ qty \in Nat /\ Len(orders') = n
      /\ \A k \in 1..n :
            orders'[k] = [orders[k] EXCEPT !.filled =
                            IF k \in {taker, Maker} THEN @ + qty ELSE @]
  BY <1>1, <1>2, FillFacts
<1> HIDE DEF qty
<1>4. \A k \in 1..n : /\ orders'[k].side = orders[k].side
                      /\ orders'[k].filled = IF k \in {taker, Maker}
                                             THEN orders[k].filled + qty
                                             ELSE orders[k].filled
                      /\ orders[k].filled \in Nat
  BY <1>3, FillFields, OrderFields
<1>5. ASSUME NEW side \in Sides PROVE DoneOn(side)' = DoneOn(side) + qty
  <2> DEFINE S == OnSide(side)
             x == IF orders[taker].side = side THEN taker ELSE Maker
  <2>1. OnSide(side)' = S
    BY <1>3, <1>4 DEF OnSide
  <2>2. orders[taker].side \in Sides
    BY <1>1, OrderFields
  <2>3. x \in S /\ x \in {taker, Maker} /\ \A k \in S \ {x} : k \notin {taker, Maker}
    BY <1>1, <2>2 DEF OnSide, OppositeSide, Opposite, Sides
  <2>4. /\ IsFiniteSet(S) /\ S \subseteq 1..n
        /\ \A k \in S : Done[k] = orders[k].filled /\ Done[k] \in Nat
    BY SideIds
  <2> HIDE DEF S, x
  <2>5. \A k \in S : Done'[k] = IF k = x THEN Done[k] + qty ELSE Done[k]
    BY <1>3, <1>4, <2>3, <2>4 DEF Done
  <2>6. \A k \in S : Done[k] \in Int /\ Done'[k] \in Int
    BY <1>3, <2>4, <2>5
  <2>7. SumOver(Done', S) = SumOver(Done, S) + (Done'[x] - Done[x])
    <3>1. \A k \in S \ {x} : Done[k] = Done'[k]
      BY <2>5
    <3>2. x \in S /\ IsFiniteSet(S)
      BY <2>3, <2>4
    <3> HIDE DEF Inv
    <3> QED BY ONLY <2>6, <3>1, <3>2, SumChange
  <2>8. SumOver(Done, S) \in Int
    BY <2>4, <2>6, SumType
  <2> QED BY <1>3, <2>1, <2>3, <2>4, <2>5, <2>7, <2>8 DEF DoneOn, S
<1> QED BY <1>3, <1>5

-----------------------------------------------------------------------------
\* The strengthening that makes the quantities inductive.
QuantityInv ==
    /\ Inv
    /\ LevelsSum
    /\ DoneOn("buy") = DoneOn("sell")

LEMMA InitQuantities == Init => QuantityInv
<1> SUFFICES ASSUME Init PROVE QuantityInv
  OBVIOUS
<1>1. LevelsSum
  BY DEF Init, LevelsSum
<1>2. \A side : OnSide(side) = {}
  BY DEF Init, OnSide
<1>3. DoneOn("buy") = DoneOn("sell")
  BY <1>2 DEF DoneOn
<1> QED BY <1>1, <1>3, InitInv DEF QuantityInv

LEMMA NextQuantities == QuantityInv /\ [Next]_vars => QuantityInv'
<1> SUFFICES ASSUME QuantityInv, [Next]_vars PROVE LevelsSum' /\ (DoneOn("buy") = DoneOn("sell"))'
  BY NextInv DEF QuantityInv
<1> USE DEF QuantityInv
<1>0. UNCHANGED orders => \A side \in Sides : DoneOn(side)' = DoneOn(side)
  BY DEF DoneOn, Done, OnSide
<1>1. ASSUME NEW o \in Inputs, Place(o) PROVE LevelsSum' /\ (DoneOn("buy") = DoneOn("sell"))'
  BY <1>1, PlaceVolumes, PlaceDone DEF Sides
<1>2. CASE PreventSelfTrade
  <2>1. Maker \in byId
    BY <1>2, MatchFacts DEF PreventSelfTrade
  <2> QED BY <1>0, <1>2, <2>1, RemovalsKeepVolumes DEF PreventSelfTrade, Sides
<1>3. CASE Fill
  <2>1. PICK qty \in Nat : \A side \in Sides : DoneOn(side)' = DoneOn(side) + qty
    BY <1>3, FillDone
  <2>2. DoneOn("buy")' = DoneOn("sell")'
    BY <2>1 DEF Sides
  <2> QED BY <1>3, <2>2, FillVolumes
<1>4. CASE Finish
  BY <1>0, <1>4, FinishVolumes DEF Finish, Sides
<1>5. ASSUME NEW id \in byId, Cancel(id) PROVE LevelsSum' /\ (DoneOn("buy") = DoneOn("sell"))'
  BY <1>0, <1>5, RemovalsKeepVolumes DEF Cancel, Sides
<1>6. CASE UNCHANGED vars
  BY <1>0, <1>6 DEF vars, bookVars, LevelsSum, Left, Sides
<1> QED BY <1>1, <1>2, <1>3, <1>4, <1>5, <1>6 DEF Next

LEMMA QuantitiesHold == Spec => []QuantityInv
BY InitQuantities, NextQuantities, PTL DEF Spec

\* Every quantity the book keeps agrees with every other: the volume a level
\* caches is the sum of what its orders have left, both sides of the book have
\* traded the same lots, and nobody is filled beyond its size.
THEOREM QuantitiesAlwaysAgree == Spec => []QuantitiesAgree
<1>1. QuantityInv => QuantitiesAgree
  BY LotsAreSums DEF QuantityInv, Inv, OrdersSound, QuantitiesAgree, FillsBalance
<1> QED BY <1>1, QuantitiesHold, PTL

-----------------------------------------------------------------------------
(***************************************************************************)
(* Price-time priority.  Each step of the match loop is a step with the    *)
(* one order that has priority, and the loop ends only when no order on    *)
(* the book may trade with the taker.                                      *)
(***************************************************************************)

\* The vocabulary is the same on both levels.
LEMMA SameWords ==
  /\ \A o : Abstract!Remaining(o) = Remaining(o)
  /\ \A t, p : Abstract!Crosses(t, p) <=> Crosses(t, p)
  /\ \A s, p, q : Abstract!Better(s, p, q) <=> Better(s, p, q)
  /\ \A s : Abstract!Opposite(s) = Opposite(s)
  /\ \A m, n : Abstract!Least(m, n) = Least(m, n)
  /\ \A m, t, p, q : Abstract!Trade(m, t, p, q) = Trade(m, t, p, q)
  /\ Abstract!NoOrder = NoOrder /\ Abstract!EmptyResult = EmptyResult
BY DEF Abstract!Remaining, Remaining, Abstract!Crosses, Crosses, Abstract!Better,
       Better, Abstract!Opposite, Opposite, Abstract!Least, Least, Abstract!Trade,
       Trade, Abstract!NoOrder, NoOrder, Abstract!EmptyResult, EmptyResult

\* A resting order is in its level, so its price is in the tree.
LEMMA LevelInTree ==
  ASSUME Inv, NEW id \in byId
  PROVE  /\ id \in 1..Len(orders)
         /\ orders[id].side \in Sides /\ orders[id].price \in Prices
         /\ id \in Ids(queue[orders[id].side][orders[id].price])
         /\ orders[id].price \in tree[orders[id].side]
<1> DEFINE q == queue[orders[id].side][orders[id].price]
<1>1. /\ id \in 1..Len(orders) /\ orders[id].side \in Sides
      /\ orders[id].price = home[id] /\ orders[id].price \in Prices
      /\ id \in Ids(q)
  <2>1. orders[id].price = home[id]
    BY DEF Inv, IndexesAgree
  <2> QED BY <2>1, WhereItRests DEF Inv
<1>2. q # <<>>
  <2>1. Ids(q) # {}
    BY <1>1
  <2>2. ASSUME q = <<>> PROVE Ids(q) = {}
    BY <2>2 DEF Ids
  <2> QED BY <2>1, <2>2
<1> QED BY <1>1, <1>2 DEF Inv, IndexesAgree

\* The order the loop takes from the front of the best level is the one that
\* price-time priority calls for.
LEMMA MakerHasPriority ==
  ASSUME Inv, Matching
  PROVE  Abstract!MayMatch(Maker)
<1>1. /\ taker \in 1..Len(orders)
      /\ OppositeSide \in Sides
      /\ OppositePrice \in tree[OppositeSide]
      /\ \A q \in tree[OppositeSide] : ~ Better(OppositeSide, q, OppositePrice)
      /\ Maker \in byId /\ Maker \in 1..Len(orders)
      /\ orders[Maker].side = OppositeSide
      /\ orders[Maker].price = OppositePrice
      /\ Remaining(orders[taker]) > 0
  BY MatchFacts
<1> DEFINE m == Maker
<1>2. m \in Abstract!Candidates
  BY <1>1, SameWords DEF Abstract!Candidates, Matching, OppositeSide
<1>3. ASSUME NEW n \in Abstract!Candidates, n # m
      PROVE  Abstract!Ahead(m, n)
  <2>1. n \in byId /\ orders[n].side = OppositeSide
    BY <1>3, SameWords DEF Abstract!Candidates, OppositeSide
  <2>2. /\ n \in Ids(queue[OppositeSide][orders[n].price])
        /\ orders[n].price \in tree[OppositeSide]
        /\ orders[n].price \in Prices /\ n \in 1..Len(orders)
    BY <2>1, LevelInTree
  <2>3. CASE orders[n].price = OppositePrice
    <3> DEFINE q == queue[OppositeSide][OppositePrice]
    <3>1. q \in Seq(1..Len(orders)) /\ q # <<>> /\ OppositePrice \in Prices
      BY <1>1, <2>2, <2>3 DEF Inv, TypeOK, IndexesAgree
    <3>2. 1 \in DOMAIN q /\ m = q[1] /\ DOMAIN q = 1..Len(q) /\ Len(q) \in Nat
      BY <3>1, EmptySeq, LenProperties DEF Maker
    <3>3. PICK i \in DOMAIN q : q[i] = n
      BY <2>2, <2>3 DEF Ids
    <3>4. 1 < i
      BY <1>3, <3>2, <3>3
    <3>5. m < n
      <4>1. \A j, k \in DOMAIN q : j < k => q[j] < q[k]
        BY <1>1, <3>1 DEF Inv, QueuesInArrivalOrder
      <4> QED BY <3>2, <3>3, <3>4, <4>1
    <3> QED BY <1>1, <2>3, <3>5 DEF Abstract!Ahead
  <2>4. CASE orders[n].price # OppositePrice
    <3>1. ~ Better(OppositeSide, orders[n].price, OppositePrice)
      BY <1>1, <2>2
    <3>2. orders[n].price \in Nat /\ OppositePrice \in Nat
      BY <1>1, <2>2, PricesAreNat DEF Inv, TypeOK
    <3>3. Better(OppositeSide, OppositePrice, orders[n].price)
      BY <2>4, <3>1, <3>2 DEF Better
    <3> QED BY <1>1, <3>3, SameWords DEF Abstract!Ahead
  <2> QED BY <2>3, <2>4
<1> QED BY <1>1, <1>2, <1>3, SameWords
        DEF Abstract!MayMatch, Abstract!HasPriority, NoOrder

\* When the loop is over, no order on the book may trade with the taker.
LEMMA NobodyLeftToMatch ==
  ASSUME Inv, taker # NoOrder, ~ Matching
  PROVE  Abstract!MatchDone
<1>1. taker \in 1..Len(orders)
  BY DEF Inv, TypeOK, NoOrder
<1>2. CASE Remaining(orders[taker]) > 0
  <2>1. ASSUME NEW n \in Abstract!Candidates PROVE FALSE
    <3>1. /\ n \in byId /\ orders[n].side = OppositeSide
          /\ Crosses(orders[taker], orders[n].price)
      BY SameWords DEF Abstract!Candidates, OppositeSide
    <3>2. orders[n].price \in tree[OppositeSide] /\ OppositeSide \in Sides
          /\ orders[n].price \in Prices
      BY <3>1, LevelInTree
    <3>3. /\ OppositePrice \in tree[OppositeSide]
          /\ ~ Better(OppositeSide, orders[n].price, OppositePrice)
      BY <3>2, BestPriceIsBest DEF Inv, TypeOK, OppositePrice
    <3>4. ~ Crosses(orders[taker], OppositePrice)
      BY <1>2, <3>2 DEF Matching
    <3>5. /\ orders[n].price \in Nat /\ OppositePrice \in Nat
          /\ orders[taker].price \in Nat /\ orders[taker].side \in Sides
      <4>1. OppositePrice \in Prices
        BY <3>2, <3>3 DEF Inv, TypeOK
      <4>2. orders[taker].price \in Prices \cup {NoPrice} /\ orders[taker].side \in Sides
        BY <1>1, OrderFields DEF Inv
      <4> QED BY <3>2, <4>1, <4>2, PricesAreNat
    <3> DEFINE t == orders[taker]
               p == orders[n].price
               best == OppositePrice
    <3>6. OppositeSide = Opposite(t.side)
      BY DEF OppositeSide
    <3> HIDE DEF t, p, best
    <3> QED BY <3>1, <3>3, <3>4, <3>5, <3>6 DEF Crosses, Better, Opposite, Sides, t, p, best
  <2> QED BY <2>1 DEF Abstract!MatchDone
<1>3. CASE ~ Remaining(orders[taker]) > 0
  <2>1. /\ orders[taker].filled \in Nat /\ orders[taker].qty \in Nat
        /\ orders[taker].filled <= orders[taker].qty
    BY <1>1, OrderFields DEF Inv, OrdersSound
  <2>2. Remaining(orders[taker]) = 0
    BY <1>3, <2>1 DEF Remaining
  <2> QED BY <2>2, SameWords DEF Abstract!MatchDone
<1> QED BY <1>2, <1>3

-----------------------------------------------------------------------------
\* Each step of the book is a step of the specification.

LEMMA PlaceRefines ==
  ASSUME NEW o \in Inputs, Place(o)
  PROVE  Abstract!Arrive(o)
BY SameWords DEF Place, Abstract!Arrive

LEMMA PreventSelfTradeRefines ==
  ASSUME Inv, PreventSelfTrade
  PROVE  Maker \in byId /\ Abstract!CancelOwnMaker(Maker)
<1>1. Abstract!MayMatch(Maker) /\ Maker \in byId
  BY MakerHasPriority, MatchFacts DEF PreventSelfTrade
<1>2. byId' = byId \ {Maker}
  BY DEF PreventSelfTrade, RemoveOrder
<1> QED BY <1>1, <1>2 DEF PreventSelfTrade, Abstract!CancelOwnMaker

LEMMA FillRefines ==
  ASSUME Inv, Fill
  PROVE  Maker \in byId /\ Abstract!Execute(Maker)
<1> DEFINE m == Maker
           qty == Least(Remaining(orders[taker]), Remaining(orders[m]))
<1>1. /\ Abstract!MayMatch(m) /\ Matching /\ m \in byId
      /\ m \in 1..Len(orders) /\ taker \in 1..Len(orders)
  BY MakerHasPriority, MatchFacts DEF Fill
<1>2. /\ orders[m].user # orders[taker].user
      /\ orders' = [orders EXCEPT ![taker].filled = @ + qty, ![m].filled = @ + qty]
      /\ result' = [result EXCEPT !.trades =
                       Append(@, Trade(m, taker, orders[m].price, qty))]
      /\ IF IsFilled(orders'[m]) THEN RemoveOrder(m, qty) ELSE UNCHANGED byId
      /\ UNCHANGED taker
  BY DEF Fill
<1>3. IsFilled(orders'[m]) <=> Remaining(orders[m]) = qty
  <2>1. qty \in Nat /\ qty <= Remaining(orders[m])
        /\ orders'[m].filled = orders[m].filled + qty
        /\ orders'[m].qty = orders[m].qty
    <3> HIDE DEF m, qty
    <3>1. /\ qty \in Nat \ {0} /\ qty <= Remaining(orders[m])
          /\ \A k \in 1..Len(orders) :
                orders'[k] = [orders[k] EXCEPT !.filled =
                                IF k \in {taker, Maker} THEN @ + qty ELSE @]
      BY <1>1, <1>2, FillFacts DEF m, qty
    <3>2. TypeOK /\ m \in {taker, Maker}
      BY DEF Inv, m
    <3>3. orders'[m].filled = orders[m].filled + qty /\ orders'[m].qty = orders[m].qty
      BY <1>1, <3>1, <3>2, FillFields
    <3> QED BY <3>1, <3>3
  <2>2. orders[m].filled \in Nat /\ orders[m].qty \in Nat
    BY <1>1, OrderFields DEF Inv
  <2> HIDE DEF m, qty
  <2> QED BY <2>1, <2>2 DEF IsFilled, Remaining
<1>4. byId' = IF Remaining(orders[m]) = qty THEN byId \ {m} ELSE byId
  BY <1>2, <1>3 DEF RemoveOrder
<1> HIDE DEF m
<1>5. Abstract!Execute(m)
  BY <1>1, <1>2, <1>4, SameWords DEF Abstract!Execute
<1> QED BY <1>1, <1>5 DEF m

LEMMA FinishRefines ==
  ASSUME Inv, Finish
  PROVE  Abstract!Complete
<1> DEFINE t == orders[taker]
           rests == t.type = "limit" /\ Remaining(t) > 0
<1>1. /\ taker # NoOrder /\ ~ Matching
      /\ byId' = IF rests THEN byId \cup {taker} ELSE byId
      /\ result' = [result EXCEPT !.rested = rests]
      /\ taker' = NoOrder
      /\ UNCHANGED orders
  BY DEF Finish, Rest, bookVars
<1>2. Abstract!MatchDone
  BY <1>1, NobodyLeftToMatch
<1> QED BY <1>1, <1>2, SameWords DEF Abstract!Complete

LEMMA CancelRefines ==
  ASSUME NEW id \in byId, Cancel(id)
  PROVE  Abstract!Withdraw(id)
BY SameWords DEF Cancel, RemoveOrder, Abstract!Withdraw

LEMMA StepRefines ==
  ASSUME Inv, [Next]_vars
  PROVE  [Abstract!Next]_(Abstract!vars)
<1>1. ASSUME NEW o \in Inputs, Place(o) PROVE Abstract!Next
  BY <1>1, PlaceRefines DEF Abstract!Next
<1>2. CASE PreventSelfTrade
  BY <1>2, PreventSelfTradeRefines DEF Abstract!Next
<1>3. CASE Fill
  BY <1>3, FillRefines DEF Abstract!Next
<1>4. CASE Finish
  BY <1>4, FinishRefines DEF Abstract!Next
<1>5. ASSUME NEW id \in byId, Cancel(id) PROVE Abstract!Next
  BY <1>5, CancelRefines DEF Abstract!Next
<1>6. CASE UNCHANGED vars
  BY <1>6 DEF vars, bookVars, Abstract!vars
<1> QED BY <1>1, <1>2, <1>3, <1>4, <1>5, <1>6 DEF Next

\* Every behaviour of the book is one of a set of resting orders in which the
\* incoming order always meets the best price and the earliest arrival.
THEOREM BookImplementsPriceTime == Spec => ImplementsPriceTime
<1>1. Init => Abstract!Init
  BY SameWords DEF Init, Abstract!Init
<1>2. Inv /\ [Next]_vars => [Abstract!Next]_(Abstract!vars)
  BY StepRefines
<1> QED BY <1>1, <1>2, InvHolds, PTL DEF Spec, Abstract!Spec, ImplementsPriceTime

-----------------------------------------------------------------------------
\* An order that is neither on the book nor being placed is done.

StaysGone ==
    \A id \in 1..Len(orders) :
       (id \notin byId /\ id # taker) =>
          (id \notin byId' /\ orders'[id] = orders[id])

LEMMA StepStaysGone ==
  ASSUME Inv, [Next]_vars
  PROVE  StaysGone
<1>1. ASSUME NEW o \in Inputs, Place(o) PROVE StaysGone
  <2>1. \A k \in 1..Len(orders) : orders'[k] = orders[k]
    <3>1. o \in Orders
      BY InputsAssumption DEF NewOrders, Orders
    <3> QED BY <1>1, <3>1, AppendProperties DEF Place, Inv, TypeOK
  <2> QED BY <1>1, <2>1 DEF Place, StaysGone
<1>2. CASE PreventSelfTrade
  BY <1>2 DEF PreventSelfTrade, RemoveOrder, StaysGone
<1>3. CASE Fill
  <2>1. Maker \in byId /\ orders \in Seq(Orders)
    BY <1>3, MatchFacts DEF Fill, Inv, TypeOK
  <2>2. byId' \subseteq byId
    BY <1>3 DEF Fill, RemoveOrder
  <2>3. \A k \in 1..Len(orders) : k \notin {taker, Maker} => orders'[k] = orders[k]
    <3> DEFINE m == Maker
    <3> HIDE DEF m
    <3>1. PICK x : orders' = [orders EXCEPT ![taker].filled = @ + x,
                                            ![m].filled = @ + x]
      BY <1>3 DEF Fill, m
    <3>2. DOMAIN orders = 1..Len(orders)
      BY <2>1, LenProperties
    <3> QED BY <3>1, <3>2 DEF m
  <2> QED BY <2>1, <2>2, <2>3 DEF StaysGone
<1>4. CASE Finish
  BY <1>4 DEF Finish, Rest, bookVars, StaysGone
<1>5. ASSUME NEW id \in byId, Cancel(id) PROVE StaysGone
  BY <1>5 DEF Cancel, RemoveOrder, StaysGone
<1>6. CASE UNCHANGED vars
  BY <1>6 DEF vars, bookVars, StaysGone
<1> QED BY <1>1, <1>2, <1>3, <1>4, <1>5, <1>6 DEF Next

\* Orders that left the book never trade or rest again.
THEOREM OrdersGoneForGood == Spec => GoneForGood
<1>1. Inv /\ [Next]_vars => [StaysGone]_vars
  BY StepStaysGone
<1>2. [][StaysGone]_vars => GoneForGood
  BY DEF StaysGone, GoneForGood
<1> QED BY <1>1, <1>2, InvHolds, PTL DEF Spec

=============================================================================
