------------------------- MODULE OrderServiceProofs -------------------------
(***************************************************************************)
(* Proofs about the order service, for every finite set of users, every    *)
(* number of orders, of calls at a time and of crashes, with failing       *)
(* database calls or without: no money is made or lost, a row never shows  *)
(* more than was traded, a closed row's order is off the book, and what a  *)
(* crash cut short is closed when the restarted server serves.             *)
(*                                                                         *)
(* The second half is about calls that run one at a time and do not fail:  *)
(* the rows then tell what the engine did, and the locks cover what the    *)
(* resting orders may still have to pay.                                   *)
(***************************************************************************)
EXTENDS OrderService, SequenceTheorems, Sums

-----------------------------------------------------------------------------
\* The book.

\* PriceTimeBook uses the words of EngineOrders for its own.
LEMMA SameWords ==
  /\ \A o : Book!Remaining(o) = Remaining(o)
  /\ \A t, p : Book!Crosses(t, p) <=> Crosses(t, p)
  /\ \A s : Book!Opposite(s) = Opposite(s)
  /\ \A m, n : Book!Least(m, n) = Least(m, n)
  /\ \A m, t, p, q : Book!Trade(m, t, p, q) = Trade(m, t, p, q)
  /\ Book!NoOrder = NoOrder /\ Book!EmptyResult = EmptyResult
  /\ Book!Orders = Orders /\ Book!Trades = Trades
BY DEF Book!Remaining, Remaining, Book!Crosses, Crosses, Book!Opposite, Opposite,
       Book!Least, Least, Book!Trade, Trade, Book!NoOrder, NoOrder,
       Book!EmptyResult, EmptyResult, Book!Orders, Orders, Book!Trades, Trades,
       Book!Sides, Sides, Book!Types, Types, Book!NoPrice, NoPrice

Results == [trades : Seq(Trades), canceled : Seq(Nat), rested : BOOLEAN]

\* What the match in progress has to report: each maker once, on the other
\* side, and off the book unless the taker is used up.
FillSound(t) ==
    /\ t.taker = taker /\ t.maker \in 1..Len(orders) /\ t.maker # taker
    /\ orders[t.maker].side = Opposite(orders[taker].side)
    /\ t.price \in Prices /\ t.qty \in Nat
    /\ Remaining(orders[taker]) > 0 => t.maker \notin resting
MatchSound ==
    /\ \A i \in DOMAIN result.trades : FillSound(result.trades[i])
    /\ \A i, j \in DOMAIN result.trades :
          i # j => result.trades[i].maker # result.trades[j].maker
    /\ \A i \in DOMAIN result.canceled :
          /\ result.canceled[i] \in 1..Len(orders)
          /\ result.canceled[i] # taker /\ result.canceled[i] \notin resting

BookSound ==
    /\ orders \in Seq(Orders)
    /\ resting \subseteq 1..Len(orders)
    /\ taker \in 0..Len(orders)
    /\ result \in Results
    /\ \A id \in 1..Len(orders) :
          /\ orders[id].filled <= orders[id].qty
          /\ orders[id].type = "market" <=> orders[id].price = NoPrice
    /\ \A id \in resting : orders[id].type = "limit" /\ Remaining(orders[id]) > 0
    /\ taker \notin resting
    /\ taker # NoOrder => MatchSound

\* The fields of an order of the book.
LEMMA OrderFields ==
  ASSUME orders \in Seq(Orders), NEW k \in 1..Len(orders)
  PROVE  /\ orders[k] \in Orders
         /\ orders[k].side \in Sides /\ orders[k].type \in Types
         /\ orders[k].price \in Prices \cup {NoPrice}
         /\ orders[k].qty \in Nat /\ orders[k].filled \in Nat
<1>1. orders[k] \in Orders
  BY ElementOfSeq
<1> QED BY <1>1, QuantitiesAssumption DEF Orders

LEMMA NewOrderFields ==
  ASSUME NEW o \in NewOrders
  PROVE  /\ o \in Orders /\ o.filled = 0 /\ o.qty \in Nat /\ o.side \in Sides /\ o.user \in Users
         /\ o.price \in Nat /\ (o.type = "market" <=> o.price = NoPrice)
<1>1. /\ o \in [user : Users, side : Sides, type : Types,
                price : Prices \cup {NoPrice}, qty : Quantities, filled : {0}]
      /\ o.type = "market" <=> o.price = NoPrice
  BY DEF NewOrders
<1>2. /\ o.filled = 0 /\ o.side \in Sides /\ o.user \in Users /\ o.type \in Types
      /\ o.price \in Prices \cup {NoPrice} /\ o.qty \in Quantities
  BY <1>1
<1>3. o \in Orders
  BY <1>1 DEF Orders
<1>4. o.price \in Nat
  <2>1. o.price \in Prices \/ o.price = 0
    BY <1>2 DEF NoPrice
  <2>2. \A p \in Prices : p \in Nat
    BY PricesAssumption
  <2>3. 0 \in Nat
    OBVIOUS
  <2> QED BY <2>1, <2>2, <2>3
<1>5. o.qty \in Nat
  BY <1>2, QuantitiesAssumption
<1> QED BY <1>1, <1>2, <1>3, <1>4, <1>5

LEMMA ArriveSound ==
  ASSUME BookSound, NEW o \in NewOrders, Book!Arrive(o)
  PROVE  /\ BookSound'
         /\ taker = NoOrder /\ taker' = Len(orders) + 1 /\ Len(orders') = Len(orders) + 1
         /\ orders'[Len(orders) + 1] = o
         /\ \A k \in 1..Len(orders) : orders'[k] = orders[k]
         /\ resting' = resting /\ result' = EmptyResult
<1> USE DEF BookSound
<1> DEFINE n == Len(orders)
<1>1. /\ taker = NoOrder /\ orders' = Append(orders, o) /\ taker' = n + 1
      /\ resting' = resting /\ result' = EmptyResult
  BY SameWords DEF Book!Arrive
<1>2. o \in Orders /\ o.filled = 0 /\ o.qty \in Nat /\ (o.type = "market" <=> o.price = NoPrice)
  BY NewOrderFields
<1>3. /\ orders' \in Seq(Orders) /\ Len(orders') = n + 1 /\ n \in Nat
      /\ \A k \in 1..n : orders'[k] = orders[k]
      /\ orders'[n + 1] = o
  BY <1>1, <1>2, AppendProperties, LenProperties
<1> HIDE DEF n
<1>4. 1..(n + 1) = (1..n) \cup {n + 1}
  BY <1>3
<1>5. result' \in Results /\ MatchSound'
  BY <1>1, EmptySeq DEF EmptyResult, Results, MatchSound
<1>6. resting' \subseteq 1..n /\ taker' \notin resting'
  BY <1>1, <1>3 DEF n
<1>7. \A id \in resting' : orders'[id].type = "limit" /\ Remaining(orders'[id]) > 0
  BY <1>1, <1>3, <1>6
<1>8. \A id \in 1..(n + 1) :
          /\ orders'[id].filled <= orders'[id].qty
          /\ orders'[id].type = "market" <=> orders'[id].price = NoPrice
  BY <1>2, <1>3, <1>4 DEF n
<1> QED BY <1>1, <1>3, <1>4, <1>5, <1>6, <1>7, <1>8 DEF n

\* What the taker may meet.
LEMMA MayMatchFacts ==
  ASSUME BookSound, NEW m \in resting, Book!MayMatch(m)
  PROVE  /\ taker \in 1..Len(orders) /\ taker # NoOrder /\ m \in 1..Len(orders) /\ m # taker
         /\ orders[m].side = Opposite(orders[taker].side)
         /\ orders[m].price \in Prices
         /\ Remaining(orders[taker]) \in Nat /\ Remaining(orders[m]) \in Nat
         /\ Remaining(orders[taker]) > 0 /\ Remaining(orders[m]) > 0
<1> USE DEF BookSound
<1>1. /\ taker # NoOrder /\ Remaining(orders[taker]) > 0
      /\ orders[m].side = Opposite(orders[taker].side)
  BY SameWords DEF Book!MayMatch, Book!HasPriority, Book!Candidates
<1>2. taker \in 1..Len(orders) /\ m \in 1..Len(orders) /\ m # taker
  BY <1>1, LenProperties DEF NoOrder
<1>3. orders[m].type = "limit" /\ Remaining(orders[m]) > 0
  OBVIOUS
<1>4. orders[m].price \in Prices
  BY <1>2, <1>3, OrderFields
<1>5. Remaining(orders[taker]) \in Nat /\ Remaining(orders[m]) \in Nat
  <2>1. /\ orders[taker].filled \in Nat /\ orders[taker].qty \in Nat
        /\ orders[m].filled \in Nat /\ orders[m].qty \in Nat
    BY <1>2, OrderFields
  <2> QED BY SMTT(30), <1>1, <1>3, <2>1 DEF Remaining
<1> QED BY <1>1, <1>2, <1>3, <1>4, <1>5

LEMMA CancelOwnMakerSound ==
  ASSUME BookSound, NEW m \in resting, Book!CancelOwnMaker(m)
  PROVE  /\ BookSound'
         /\ resting' = resting \ {m} /\ orders' = orders /\ taker' = taker /\ taker # NoOrder
         /\ m # taker
         /\ result'.trades = result.trades
         /\ \A i \in DOMAIN result'.canceled :
               result'.canceled[i] \in {result.canceled[j] : j \in DOMAIN result.canceled} \cup {m}
<1> USE DEF BookSound
<1>1. /\ taker \in 1..Len(orders) /\ taker # NoOrder /\ m \in 1..Len(orders) /\ m # taker
  BY MayMatchFacts DEF Book!CancelOwnMaker
<1>2. /\ resting' = resting \ {m} /\ orders' = orders /\ taker' = taker
      /\ result' = [result EXCEPT !.canceled = Append(@, m)]
  BY DEF Book!CancelOwnMaker
<1>3. m \in Nat /\ result.canceled \in Seq(Nat)
  BY <1>1 DEF Results
<1>4. /\ Append(result.canceled, m) \in Seq(Nat)
      /\ \A i \in DOMAIN Append(result.canceled, m) :
            \/ i \in DOMAIN result.canceled /\ Append(result.canceled, m)[i] = result.canceled[i]
            \/ Append(result.canceled, m)[i] = m
  BY <1>3, AppendProperties, LenProperties
<1>5. result' \in Results /\ result'.trades = result.trades
      /\ result'.canceled = Append(result.canceled, m)
  BY <1>2, <1>4 DEF Results
<1>6. MatchSound'
  BY SMTT(30), <1>1, <1>2, <1>4, <1>5 DEF MatchSound, FillSound
<1> QED BY SMTT(30), <1>1, <1>2, <1>4, <1>5, <1>6

LEMMA ExecuteSound ==
  ASSUME BookSound, NEW m \in resting, Book!Execute(m)
  PROVE  \E qty \in Nat :
         /\ BookSound'
         /\ resting' \subseteq resting /\ taker' = taker /\ taker # NoOrder /\ m # taker
         /\ m \in 1..Len(orders) /\ taker \in 1..Len(orders)
         /\ Len(orders') = Len(orders)
         /\ \A k \in 1..Len(orders) :
               orders'[k] = [orders[k] EXCEPT !.filled = IF k \in {taker, m} THEN @ + qty ELSE @]
         /\ result' = [result EXCEPT !.trades = Append(@, Trade(m, taker, orders[m].price, qty))]
         /\ orders[m].price \in Prices
         /\ resting' = IF Remaining(orders[m]) = qty THEN resting \ {m} ELSE resting
         /\ qty <= Remaining(orders[m]) /\ orders[m].user # orders[taker].user
         /\ Crosses(orders[taker], orders[m].price)
<1> USE DEF BookSound
<1> DEFINE n == Len(orders)
           qty == Least(Remaining(orders[taker]), Remaining(orders[m]))
           fill == Trade(m, taker, orders[m].price, qty)
<1>1. /\ taker \in 1..n /\ taker # NoOrder /\ m \in 1..n /\ m # taker
      /\ orders[m].side = Opposite(orders[taker].side) /\ orders[m].price \in Prices
      /\ Remaining(orders[taker]) \in Nat /\ Remaining(orders[m]) \in Nat
      /\ Remaining(orders[taker]) > 0 /\ Remaining(orders[m]) > 0
  BY MayMatchFacts DEF Book!Execute
<1>2. /\ orders' = [orders EXCEPT ![taker].filled = @ + qty, ![m].filled = @ + qty]
      /\ resting' = IF Remaining(orders[m]) = qty THEN resting \ {m} ELSE resting
      /\ result' = [result EXCEPT !.trades = Append(@, fill)]
      /\ taker' = taker
  BY SameWords DEF Book!Execute
<1>3. /\ qty \in Nat /\ qty <= Remaining(orders[taker]) /\ qty <= Remaining(orders[m])
      /\ qty = Remaining(orders[taker]) \/ qty = Remaining(orders[m])
      /\ qty > 0
  BY <1>1 DEF Least
<1> HIDE DEF qty
<1>4. /\ \A k \in 1..n : orders[k] \in Orders /\ orders[k].filled \in Nat /\ orders[k].qty \in Nat
      /\ DOMAIN orders = 1..n
  BY OrderFields, LenProperties
<1>5. orders' = [k \in 1..n |-> [orders[k] EXCEPT !.filled =
                                   IF k \in {taker, m} THEN @ + qty ELSE @]]
  <2>1. orders = [k \in 1..n |-> orders[k]]
    BY <1>4
  <2>2. \A k \in 1..n : [orders[k] EXCEPT !.filled = @] = orders[k]
    BY <1>4 DEF Orders
  <2> HIDE DEF n
  <2> QED BY <1>1, <1>2, <2>1, <2>2
<1>6. \A k \in 1..n : /\ orders'[k] \in Orders
                      /\ orders'[k].side = orders[k].side /\ orders'[k].type = orders[k].type
                      /\ orders'[k].price = orders[k].price /\ orders'[k].qty = orders[k].qty
                      /\ orders'[k].filled = IF k \in {taker, m} THEN orders[k].filled + qty
                                                                 ELSE orders[k].filled
  <2> TAKE k \in 1..n
  <2> DEFINE x == IF k \in {taker, m} THEN orders[k].filled + qty ELSE orders[k].filled
  <2>1. x \in Nat /\ orders[k] \in Orders
    BY <1>3, <1>4
  <2>2. orders'[k] = [orders[k] EXCEPT !.filled = x]
    BY <1>5
  <2> HIDE DEF x
  <2>3. /\ orders'[k] \in Orders
        /\ orders'[k].side = orders[k].side /\ orders'[k].type = orders[k].type
        /\ orders'[k].price = orders[k].price /\ orders'[k].qty = orders[k].qty
        /\ orders'[k].filled = x
    BY <2>1, <2>2 DEF Orders
  <2> QED BY <2>3 DEF x
<1>7. orders' \in Seq(Orders) /\ Len(orders') = n
  <2>1. n \in Nat
    BY LenProperties
  <2> QED BY SMTT(30), <1>5, <1>6, <2>1, IsASeq, LenProperties
<1>8. \A id \in 1..n : /\ orders'[id].filled <= orders'[id].qty
                       /\ orders'[id].type = "market" <=> orders'[id].price = NoPrice
  <2> TAKE id \in 1..n
  <2>1. /\ orders[id].filled <= orders[id].qty
        /\ orders[id].type = "market" <=> orders[id].price = NoPrice
    OBVIOUS
  <2>2. id \in {taker, m} => qty <= orders[id].qty - orders[id].filled
    BY <1>3 DEF Remaining
  <2> QED BY SMTT(30), <1>3, <1>4, <1>6, <2>1, <2>2
<1>9. \A id \in resting' : orders'[id].type = "limit" /\ Remaining(orders'[id]) > 0
  <2> TAKE id \in resting'
  <2>1. id \in resting /\ id \in 1..n /\ id # taker /\ (id = m => Remaining(orders[m]) # qty)
    BY <1>2
  <2>2. Remaining(orders[id]) > 0 /\ orders[id].type = "limit"
    BY <2>1
  <2>3. CASE id = m
    <3>1. orders'[m].filled = orders[m].filled + qty /\ orders'[m].qty = orders[m].qty
      BY <1>1, <1>6
    <3>2. qty < orders[m].qty - orders[m].filled
      BY <1>1, <1>3, <2>1, <2>3 DEF Remaining
    <3>3. orders'[m].type = "limit"
      BY <1>1, <1>6, <2>2, <2>3
    <3> QED BY SMTT(30), <1>1, <1>3, <1>4, <2>3, <3>1, <3>2, <3>3 DEF Remaining
  <2>4. CASE id # m
    BY <1>6, <2>1, <2>2, <2>4 DEF Remaining
  <2> QED BY <2>3, <2>4
<1>10. fill \in Trades /\ fill.maker = m /\ fill.taker = taker /\ fill.qty = qty
       /\ fill.price = orders[m].price
  BY <1>1, <1>3 DEF Trade, Trades
<1> HIDE DEF fill
<1>11. /\ Append(result.trades, fill) \in Seq(Trades)
       /\ \A i \in DOMAIN Append(result.trades, fill) :
            \/ i \in DOMAIN result.trades /\ Append(result.trades, fill)[i] = result.trades[i]
            \/ i \notin DOMAIN result.trades /\ i = Len(result.trades) + 1
                 /\ Append(result.trades, fill)[i] = fill
  BY <1>10, AppendProperties, LenProperties DEF Results
<1>12. /\ result' \in Results /\ result'.trades = Append(result.trades, fill)
       /\ result'.canceled = result.canceled
  BY <1>2, <1>11 DEF Results
<1>13. resting' \subseteq resting
  BY <1>2
<1>14. Remaining(orders'[taker]) > 0 => m \notin resting'
  BY <1>1, <1>2, <1>3, <1>4, <1>6 DEF Remaining
<1>15. MatchSound'
  <2>1. ASSUME NEW t, FillSound(t) PROVE FillSound(t)' /\ t.maker # m
    <3>1. t.maker \notin resting /\ t.maker \in 1..n /\ t.maker # m
      BY <1>1, <2>1 DEF FillSound
    <3>2. /\ orders'[t.maker].side = orders[t.maker].side
          /\ orders'[taker].side = orders[taker].side
      BY <1>1, <1>6, <3>1
    <3> QED BY <1>2, <1>7, <1>13, <2>1, <3>1, <3>2 DEF FillSound
  <2>0. PICK u : u = fill
    OBVIOUS
  <2>2. FillSound(u)'
    <3>1. orders'[m].side = orders[m].side /\ orders'[taker].side = orders[taker].side
      BY <1>1, <1>6
    <3> QED BY <1>1, <1>2, <1>3, <1>7, <1>10, <1>14, <2>0, <3>1 DEF FillSound
  <2>3. \A i \in DOMAIN result.trades : FillSound(result.trades[i])
    BY <1>1 DEF MatchSound
  <2>4. \A i \in DOMAIN result'.trades :
          \/ i \in DOMAIN result.trades /\ result'.trades[i] = result.trades[i]
          \/ i = Len(result.trades) + 1 /\ result'.trades[i] = fill
    BY <1>11, <1>12
  <2>5. ASSUME NEW i \in DOMAIN result'.trades PROVE FillSound(result.trades[i])'
    <3>1. PICK t : t = result'.trades[i]
      OBVIOUS
    <3>2. t = u \/ FillSound(t)
      BY <2>0, <2>3, <2>4, <3>1
    <3>3. FillSound(t)'
      BY <2>1, <2>2, <3>2
    <3> QED BY <3>1, <3>3 DEF FillSound
  <2>6. \A i, j \in DOMAIN result'.trades :
          i # j => result'.trades[i].maker # result'.trades[j].maker
    BY <1>1, <1>10, <2>1, <2>3, <2>4 DEF MatchSound
  <2>7. \A i \in DOMAIN result'.canceled :
          /\ result'.canceled[i] \in 1..Len(orders')
          /\ result'.canceled[i] # taker' /\ result'.canceled[i] \notin resting'
    BY <1>1, <1>2, <1>7, <1>12, <1>13 DEF MatchSound
  <2> QED BY <2>5, <2>6, <2>7 DEF MatchSound
<1>16. BookSound'
  BY <1>1, <1>2, <1>7, <1>8, <1>9, <1>12, <1>13, <1>15
<1>17. result' = [result EXCEPT !.trades = Append(@, Trade(m, taker, orders[m].price, qty))]
  BY <1>2 DEF fill
<1>18. \A k \in 1..n : orders'[k] = [orders[k] EXCEPT !.filled = IF k \in {taker, m} THEN @ + qty ELSE @]
  BY <1>5
<1>19. orders[m].user # orders[taker].user /\ Crosses(orders[taker], orders[m].price)
  BY SameWords DEF Book!Execute, Book!MayMatch, Book!HasPriority, Book!Candidates
<1> QED BY <1>1, <1>2, <1>3, <1>7, <1>13, <1>16, <1>17, <1>18, <1>19

LEMMA CompleteSound ==
  ASSUME BookSound, Book!Complete
  PROVE  /\ BookSound'
         /\ taker # NoOrder /\ taker \in 1..Len(orders) /\ taker' = NoOrder /\ orders' = orders
         /\ resting' = IF result'.rested THEN resting \cup {taker} ELSE resting
         /\ result'.trades = result.trades /\ result'.canceled = result.canceled
         /\ result'.rested \in BOOLEAN
         /\ MatchSound
<1> USE DEF BookSound
<1> DEFINE rests == orders[taker].type = "limit" /\ Remaining(orders[taker]) > 0
<1>1. /\ taker # NoOrder /\ taker' = NoOrder /\ orders' = orders
      /\ resting' = IF rests THEN resting \cup {taker} ELSE resting
      /\ result' = [result EXCEPT !.rested = rests]
  BY SameWords DEF Book!Complete
<1>2. taker \in 1..Len(orders)
  BY <1>1, LenProperties DEF NoOrder
<1>3. /\ result' \in Results /\ result'.rested = rests
      /\ result'.trades = result.trades /\ result'.canceled = result.canceled
  BY <1>1 DEF Results
<1>4. NoOrder \notin resting' /\ NoOrder \in 0..Len(orders)
  BY <1>1, <1>2, LenProperties DEF NoOrder
<1>5. resting' \subseteq 1..Len(orders)
  BY <1>1, <1>2
<1>6. \A id \in resting' : orders'[id].type = "limit" /\ Remaining(orders'[id]) > 0
  BY <1>1
<1>7. BookSound'
  BY <1>1, <1>3, <1>4, <1>5, <1>6
<1> QED BY <1>1, <1>2, <1>3, <1>7

LEMMA WithdrawSound ==
  ASSUME BookSound, NEW id \in resting, Book!Withdraw(id)
  PROVE  /\ BookSound'
         /\ taker = NoOrder /\ resting' = resting \ {id} /\ UNCHANGED <<orders, taker, result>>
BY SameWords DEF BookSound, Book!Withdraw

-----------------------------------------------------------------------------
\* The service.  Which calls a call, a trade or a copy speaks of is settled by
\* where their orders are: Known calls have been placed, Gone ones are off the
\* book for good.

Before == {"new", "check", "lock", "insert", "undo", "submit"}
Applying == {"apply", "writeMaker", "writeDropped", "unlockDropped"}
After == {"settle", "save"} \cup Applying

Known(c) == \E id \in DOMAIN uuid : uuid[id] = c /\ id # taker
Gone(c) == \E id \in DOMAIN uuid : uuid[id] = c /\ id # taker /\ id \notin resting
Lost(c) == create[c].pc = "lost"

CallRecs ==
    [pc : CreatePcs, req : NewOrders \cup {<<>>}, fills : Seq(Fills), settled : Nat,
     makers : SUBSET Fills, dropped : Seq(Calls), rested : BOOLEAN, target : Nat,
     copy : Rows \cup {NoRow}]

ServiceTypes ==
    /\ uuid \in Seq(Calls) /\ Len(uuid) = Len(orders)
    /\ rows \in [Calls -> Rows \cup {NoRow}]
    /\ trades \subseteq Fills /\ IsFiniteSet(trades)
    /\ bal \in [Users -> [Currencies -> Int]]
    /\ locked \in [Users -> [Currencies -> Nat]]
    /\ create \in [Calls -> CallRecs]
    /\ cancel \in [Calls -> [pc : CancelPcs, copy : Rows \cup {NoRow}]]
    /\ boot \in [pc : {"up", "list", "next", "close"}, open : SUBSET Calls, at : Nat]
    /\ crashes \in 0..MaxCrashes

\* The names of the engine's orders: no two calls share one, and its order is
\* what the call asked for.
NamesSound ==
    /\ \A i, j \in DOMAIN uuid : uuid[i] = uuid[j] => i = j
    /\ \A id \in DOMAIN uuid :
          LET o == orders[id]
              r == Req(uuid[id])
          IN  /\ create[uuid[id]].pc \notin Before
              /\ o.user = r.user /\ o.side = r.side /\ o.type = r.type
              /\ o.price = r.price /\ o.qty = r.qty
    /\ taker # NoOrder => create[uuid[taker]].pc = "match"
    /\ \A c \in Calls : create[c].pc = "match" => taker # NoOrder /\ uuid[taker] = c

\* What a running match may still meet was not cut short by a crash.
MatchIsLive ==
    /\ \A id \in resting : ~ Lost(uuid[id])
    /\ taker # NoOrder =>
          /\ \A i \in DOMAIN result.trades : ~ Lost(uuid[result.trades[i].maker])
          /\ \A i \in DOMAIN result.canceled : ~ Lost(uuid[result.canceled[i]])

\* A fill, by call: both orders are placed, and on different sides.
FairFill(f) ==
    /\ f \in Fills /\ Known(f.maker) /\ Known(f.taker)
    /\ Req(f.maker).side = Opposite(Req(f.taker).side)

FillsOf(c) == Range(create[c].fills)

CallSound(c) ==
    LET k == create[c] IN
    /\ k.pc # "new" => k.req \in NewOrders
    /\ k.pc \notin After => k.fills = <<>> /\ k.settled = 0 /\ k.makers = {} /\ k.dropped = <<>>
    /\ k.settled <= Len(k.fills)
    /\ k.pc = "settle" => k.settled < Len(k.fills)
    /\ k.pc \in After => Known(c) /\ (~ k.rested => Gone(c))
    /\ k.pc \in Applying => FillsOf(c) \subseteq trades
    /\ k.makers \subseteq FillsOf(c)
    /\ \A f \in FillsOf(c) : FairFill(f) /\ f.taker = c /\ ~ Lost(f.maker)
    /\ \A i, j \in DOMAIN k.fills : k.fills[i] = k.fills[j] => i = j
    /\ \A i \in DOMAIN k.dropped : Gone(k.dropped[i]) /\ ~ Lost(k.dropped[i])
    /\ k.pc \in {"writeMaker", "writeDropped", "unlockDropped"} =>
          k.target \in Calls /\ Known(k.target) /\ ~ Lost(k.target)
    /\ k.pc = "writeDropped" => Gone(k.target)

CallsSound ==
    /\ \A c \in Calls : CallSound(c)
    /\ \A f \in trades : FairFill(f)

RowsSound ==
    \A c \in Calls :
        /\ rows[c] # NoRow => create[c].pc # "new"
        /\ EngineId(c) # {} => rows[c] # NoRow
        /\ create[c].pc \in {"submit", "match"} => rows[c].status = "pending"
        /\ cancel[c].pc # "new" => create[c].pc # "new"
        /\ cancel[c].pc = "write" => Gone(c)
        /\ IsResting(c) => rows[c].status \in OpenStatuses

BootSound ==
    /\ boot.pc # "up" => resting = {} /\ taker = NoOrder /\ Active = {} /\ Cancelling = {}
    /\ boot.pc # "up" /\ boot.pc # "list" =>
          \A c \in Calls : rows[c].status \in OpenStatuses <=> c \in boot.open
    /\ boot.pc = "close" => boot.at \in boot.open
    /\ boot.pc = "up" => \A c \in Calls : Lost(c) => rows[c].status \notin OpenStatuses

\* What the engine filled bounds what anybody knows of: the trades saved, those
\* the calls in progress have in memory, and those of the running match.
Qty == [f \in Fills |-> f.qty]
ByCall(t) == [t EXCEPT !.maker = uuid[@], !.taker = uuid[taker]]
MatchFills == IF taker = NoOrder THEN {}
              ELSE {ByCall(result.trades[i]) : i \in DOMAIN result.trades}
Booked == trades \cup (UNION {FillsOf(c) : c \in Calls}) \cup MatchFills
Of(S, c) == {f \in S : c \in {f.maker, f.taker}}
FilledSound ==
    /\ IsFiniteSet(Booked)
    /\ \A id \in DOMAIN uuid : SumOver(Qty, Of(Booked, uuid[id])) <= orders[id].filled

\* What rows and copies of rows show is bounded by the trades that were applied
\* to them: a maker's row may still lack some.
AppliedFills(c) ==
    {f \in trades : f.taker = c \/ (f.maker = c /\ f \notin create[f.taker].makers)}
AppliedTo(c) == SumOver(Qty, AppliedFills(c))
AppliedSound ==
    \A c \in Calls :
        /\ rows[c].filled <= AppliedTo(c)
        /\ cancel[c].pc \in {"engine", "write"} => cancel[c].copy.filled <= AppliedTo(c)
        /\ create[c].pc \in {"writeMaker", "writeDropped"} =>
              create[c].copy.filled <= AppliedTo(create[c].target)

\* The money of all users, per currency, as a sum.
Wealth(w, cur) == SumOver([u \in Users |-> w[u][cur]], Users)
MoneySum == \A cur \in Currencies : Wealth(bal, cur) = Funds * Cardinality(Users)

Inv ==
    /\ BookSound /\ ServiceTypes /\ NamesSound /\ MatchIsLive /\ CallsSound
    /\ RowsSound /\ BootSound /\ FilledSound /\ AppliedSound /\ MoneySum

-----------------------------------------------------------------------------
\* Sums of quantities.

LEMMA QtySum ==
  ASSUME NEW S, IsFiniteSet(S), S \subseteq Fills, NEW T \in SUBSET S
  PROVE  /\ IsFiniteSet(T)
         /\ SumOver(Qty, T) \in Nat /\ SumOver(Qty, S) \in Nat
         /\ SumOver(Qty, T) <= SumOver(Qty, S)
<1>1. \A f \in S : Qty[f] \in Nat
  BY DEF Qty, Fills
<1>2. IsFiniteSet(T)
  BY FS_Subset
<1> QED BY <1>1, <1>2, SumMonotone, SumNat

\* What a finite function yields is finite.
LEMMA RangeIsFinite ==
  ASSUME NEW S, IsFiniteSet(S), NEW T, NEW g \in [S -> T]
  PROVE  IsFiniteSet(Range(g)) /\ Range(g) = {g[x] : x \in S} /\ Range(g) \subseteq T
<1>1. Range(g) = {g[x] : x \in S} /\ Range(g) \subseteq T
  BY DEF Range
<1>2. g \in Surjection(S, Range(g))
  BY <1>1 DEF Surjection
<1> QED BY <1>1, <1>2, FS_Surjection

LEMMA SeqRangeFinite ==
  ASSUME NEW S, NEW q \in Seq(S)
  PROVE  IsFiniteSet(Range(q)) /\ Range(q) \subseteq S
<1>1. PICK n \in Nat : n = Len(q) /\ q \in [1..n -> S]
  BY LenProperties
<1>2. IsFiniteSet(1..n)
  BY <1>1, FS_Interval
<1>3. IsFiniteSet(Range(q))
  BY <1>1, <1>2, RangeIsFinite
<1>4. Range(q) \subseteq S
  BY <1>1, <1>2, RangeIsFinite
<1> QED BY <1>3, <1>4

\* Everybody agrees on a call that is not the one that moves.
LEMMA OtherCalls ==
  ASSUME NEW c \in Calls, NEW d \in Calls, CallSound(d), create'[d] = create[d],
         \A x \in Calls : /\ Known(x) => Known(x)'
                          /\ Gone(x) => Gone(x)'
                          /\ Known(x) => create'[x].req = create[x].req
                          /\ Known(x) /\ Lost(x)' => Lost(x),
         trades \subseteq trades',
         create[d] \in CallRecs
  PROVE  CallSound(d)'
<1>1. \A x : Gone(x) => Known(x)
  BY DEF Gone, Known
<1>2. \A x \in Calls : Known(x) => Req(x)' = Req(x)
  BY DEF Req
<1>3. FillsOf(d)' = FillsOf(d)
  BY DEF FillsOf
<1>4. \A f \in FillsOf(d) : FairFill(f)' /\ f.taker = d /\ ~ Lost(f.maker)'
  <2> TAKE f \in FillsOf(d)
  <2>1. FairFill(f) /\ f.taker = d /\ ~ Lost(f.maker)
    BY DEF CallSound
  <2>2. f.maker \in Calls /\ f.taker \in Calls
    BY <2>1 DEF FairFill, Fills
  <2> QED BY <1>2, <2>1, <2>2 DEF FairFill
<1>5. \A i \in DOMAIN create[d].dropped : create[d].dropped[i] \in Calls
  BY ElementOfSeq, LenProperties DEF CallRecs
<1> QED BY <1>1, <1>3, <1>4, <1>5 DEF CallSound

-----------------------------------------------------------------------------
\* Names.

\* A call has one order in the engine, or none.
LEMMA Names ==
  ASSUME BookSound, ServiceTypes, NamesSound
  PROVE  /\ DOMAIN uuid = 1..Len(orders)
         /\ \A id \in DOMAIN uuid : uuid[id] \in Calls
         /\ \A c : Gone(c) => Known(c) /\ ~ IsResting(c)
         /\ \A c : Known(c) => c \in Calls /\ create[c].pc \notin Before \cup {"match"}
         /\ \A c : IsResting(c) => Known(c)
         /\ taker # NoOrder => taker \in DOMAIN uuid
<1>1. DOMAIN uuid = 1..Len(orders) /\ \A id \in DOMAIN uuid : uuid[id] \in Calls
  BY LenProperties, ElementOfSeq DEF ServiceTypes
<1>2. \A i, j \in DOMAIN uuid : uuid[i] = uuid[j] => i = j
  BY DEF NamesSound
<1>3. \A c : Gone(c) => Known(c) /\ ~ IsResting(c)
  BY <1>2 DEF Gone, Known, IsResting, EngineId
<1>4. ASSUME NEW c, Known(c) PROVE c \in Calls /\ create[c].pc \notin Before \cup {"match"}
  <2>1. PICK id \in DOMAIN uuid : uuid[id] = c /\ id # taker
    BY <1>4 DEF Known
  <2>2. taker # NoOrder => taker \in DOMAIN uuid
    BY <1>1, LenProperties DEF BookSound, NoOrder
  <2>3. create[c].pc \notin Before /\ c \in Calls
    BY <1>1, <2>1 DEF NamesSound
  <2>4. create[c].pc = "match" => taker # NoOrder /\ uuid[taker] = c
    BY <2>3 DEF NamesSound
  <2> QED BY <1>2, <2>1, <2>2, <2>3, <2>4
<1>5. ASSUME NEW c, IsResting(c) PROVE Known(c)
  BY <1>5 DEF IsResting, EngineId, Known, BookSound
<1>6. taker # NoOrder => taker \in DOMAIN uuid
  BY <1>1, LenProperties DEF BookSound, NoOrder
<1> QED BY <1>1, <1>3, <1>4, <1>5, <1>6

\* Whatever anybody knows of is a fair fill of two placed orders.
LEMMA KnownFills ==
  ASSUME CallsSound
  PROVE  \A f \in trades \cup (UNION {FillsOf(c) : c \in Calls}) : FairFill(f)
BY DEF CallsSound, CallSound

LEMMA BookedTyped ==
  ASSUME BookSound, ServiceTypes
  PROVE  Booked \subseteq Fills /\ MatchFills \subseteq Fills
<1>1. \A c \in Calls : FillsOf(c) \subseteq Fills
  <2> TAKE c \in Calls
  <2>1. create[c].fills \in Seq(Fills)
    BY DEF ServiceTypes, CallRecs
  <2> QED BY <2>1, SeqRangeFinite DEF FillsOf
<1>2. ASSUME taker # NoOrder, NEW i \in DOMAIN result.trades
      PROVE  ByCall(result.trades[i]) \in Fills
  <2>1. PICK t : t = result.trades[i]
    OBVIOUS
  <2>2. t \in Trades /\ t.maker \in 1..Len(orders) /\ t.price \in Prices
    <3>1. result.trades \in Seq(Trades)
      BY DEF BookSound, Results
    <3> QED BY <1>2, <2>1, <3>1, ElementOfSeq, LenProperties DEF BookSound, MatchSound, FillSound
  <2>3. taker \in 1..Len(orders)
    BY <1>2, LenProperties DEF BookSound, NoOrder
  <2>4. uuid[t.maker] \in Calls /\ uuid[taker] \in Calls
    BY <2>2, <2>3, ElementOfSeq DEF ServiceTypes
  <2>5. ByCall(t) \in Fills
    BY <2>2, <2>4 DEF ByCall, Fills, Trades
  <2> QED BY <2>1, <2>5
<1>3. MatchFills \subseteq Fills
  BY <1>2 DEF MatchFills
<1> QED BY <1>1, <1>3 DEF Booked, ServiceTypes

\* What is applied to a call's row is no more than its order was filled.
LEMMA AppliedBound ==
  ASSUME BookSound, ServiceTypes, NamesSound, FilledSound, NEW id \in DOMAIN uuid
  PROVE  /\ AppliedTo(uuid[id]) \in Nat /\ SumOver(Qty, Of(trades, uuid[id])) \in Nat
         /\ AppliedTo(uuid[id]) <= SumOver(Qty, Of(trades, uuid[id]))
         /\ SumOver(Qty, Of(trades, uuid[id])) <= orders[id].filled
         /\ AppliedTo(uuid[id]) <= orders[id].filled
         /\ orders[id].filled \in Nat
         /\ id \in resting => AppliedTo(uuid[id]) < Req(uuid[id]).qty
<1> DEFINE c == uuid[id]
<1>1. /\ trades \subseteq Booked /\ IsFiniteSet(Booked) /\ IsFiniteSet(trades) /\ trades \subseteq Fills
      /\ SumOver(Qty, Of(Booked, c)) <= orders[id].filled
  BY DEF FilledSound, Booked, ServiceTypes
<1>2. /\ AppliedFills(c) \in SUBSET Of(trades, c) /\ Of(trades, c) \in SUBSET trades
      /\ Of(trades, c) \in SUBSET Of(Booked, c) /\ Of(Booked, c) \in SUBSET Booked
  BY <1>1 DEF AppliedFills, Of
<1>3. \A f \in Booked : Qty[f] \in Nat
  BY BookedTyped DEF Qty, Fills
<1>4. IsFiniteSet(Of(Booked, c)) /\ IsFiniteSet(Of(trades, c)) /\ IsFiniteSet(AppliedFills(c))
  BY <1>1, <1>2, FS_Subset
<1>5. /\ SumOver(Qty, AppliedFills(c)) \in Nat /\ SumOver(Qty, Of(trades, c)) \in Nat
      /\ SumOver(Qty, Of(Booked, c)) \in Nat
  BY <1>1, <1>2, <1>3, <1>4, SumNat
<1>6. SumOver(Qty, AppliedFills(c)) <= SumOver(Qty, Of(trades, c))
  BY <1>1, <1>2, <1>3, <1>4, SumMonotone
<1>7. SumOver(Qty, Of(trades, c)) <= SumOver(Qty, Of(Booked, c))
  BY <1>1, <1>2, <1>3, <1>4, SumMonotone
<1>8. id \in 1..Len(orders) /\ orders \in Seq(Orders)
  BY Names DEF BookSound
<1>9. orders[id].filled \in Nat /\ orders[id].qty \in Nat
  BY <1>8, OrderFields
<1>10. id \in resting => orders[id].filled < orders[id].qty /\ Req(c).qty = orders[id].qty
  BY <1>9 DEF BookSound, Remaining, NamesSound
<1> HIDE DEF c
<1> QED BY <1>1, <1>5, <1>6, <1>7, <1>9, <1>10 DEF AppliedTo, c

-----------------------------------------------------------------------------
\* A step of CreateOrder outside the book.

\* How the record of call c may change: toward its end, keeping its request,
\* its fills or none, and dropping work that is done.
AllowedNext(c, k) ==
    LET j == create[c] IN
    /\ j.pc \notin {"match", "lost"} /\ k.pc \notin {"match", "lost", "new"}
    /\ j.pc \notin Before => k.pc \notin Before
    /\ k.req \in NewOrders /\ (j.pc # "new" => k.req = j.req)
    /\ k.fills = j.fills \/ k.fills = <<>>
    /\ k.makers \subseteq j.makers /\ k.makers \subseteq Range(k.fills)
    /\ k.pc \notin After => k.fills = <<>> /\ k.settled = 0 /\ k.makers = {} /\ k.dropped = <<>>
    /\ k.settled <= Len(k.fills) /\ (k.pc = "settle" => k.settled < Len(k.fills))
    /\ k.pc \in After => j.pc \in After /\ k.rested = j.rested
    /\ k.pc \in Applying => Range(k.fills) \subseteq trades'
    /\ \A i \in DOMAIN k.dropped : \E n \in DOMAIN j.dropped : k.dropped[i] = j.dropped[n]
    /\ k.pc \in {"writeMaker", "writeDropped", "unlockDropped"} =>
          k.target \in Calls /\ Known(k.target) /\ ~ Lost(k.target)
    /\ k.pc = "writeDropped" => Gone(k.target)

LEMMA CallStep ==
  ASSUME BookSound, ServiceTypes, NamesSound, MatchIsLive, CallsSound, FilledSound,
         NEW c \in Calls, NEW k \in CallRecs, create' = [create EXCEPT ![c] = k],
         UNCHANGED <<book, uuid>>, AllowedNext(c, k),
         trades \subseteq trades', trades' \subseteq trades \cup FillsOf(c)
  PROVE  /\ BookSound' /\ NamesSound' /\ MatchIsLive' /\ CallsSound' /\ FilledSound'
         /\ create' \in [Calls -> CallRecs] /\ trades' \subseteq Fills /\ IsFiniteSet(trades')
         /\ create'[c] = k /\ \A d \in Calls : d # c => create'[d] = create[d]
         /\ \A d \in Calls : /\ Lost(d)' <=> Lost(d)
                             /\ Known(d)' <=> Known(d)
                             /\ Gone(d)' <=> Gone(d)
                             /\ IsResting(d)' <=> IsResting(d)
                             /\ Known(d) => create'[d].req = create[d].req
                             /\ AppliedTo(d) <= AppliedTo(d)'
                             /\ AppliedTo(d) \in Nat /\ AppliedTo(d)' \in Nat
<1>1. /\ create'[c] = k /\ \A d \in Calls : d # c => create'[d] = create[d]
      /\ create' \in [Calls -> CallRecs]
  BY DEF ServiceTypes
<1>2. UNCHANGED <<orders, resting, taker, result, uuid>>
  BY DEF book
<1>3. BookSound'
  BY <1>2 DEF BookSound, MatchSound, FillSound
<1>4. \A d : /\ Known(d)' <=> Known(d)
             /\ Gone(d)' <=> Gone(d)
             /\ IsResting(d)' <=> IsResting(d)
  BY <1>2 DEF Known, Gone, IsResting, EngineId
<1>5. \A d \in Calls : Lost(d)' <=> Lost(d)
  BY <1>1 DEF Lost, AllowedNext
<1>6. \A d \in Calls : Known(d) => create'[d].req = create[d].req
  BY <1>1, Names DEF AllowedNext, Before
<1>7. ASSUME NEW d \in Calls, d # c PROVE CallSound(d)'
  <2>1. CallSound(d) /\ create'[d] = create[d] /\ create[d] \in CallRecs
    BY <1>1, <1>7 DEF CallsSound, ServiceTypes
  <2> QED BY <1>4, <1>5, <1>6, <2>1, OtherCalls
<1>8. \A f : FairFill(f) => FairFill(f)'
  <2> TAKE f
  <2> HAVE FairFill(f)
  <2>1. f.maker \in Calls /\ f.taker \in Calls
    BY DEF FairFill, Fills
  <2> QED BY <1>4, <1>6, <2>1 DEF FairFill, Req
<1>9. FillsOf(c)' \subseteq FillsOf(c)
  BY <1>1 DEF AllowedNext, FillsOf, Range
<1>10. CallSound(c)'
  <2>1. CallSound(c)
    BY DEF CallsSound
  <2>2. \A f \in FillsOf(c)' : FairFill(f)' /\ f.taker = c /\ ~ Lost(f.maker)'
    <3> TAKE f \in FillsOf(c)'
    <3>1. FairFill(f) /\ f.taker = c /\ ~ Lost(f.maker)
      BY <1>9, <2>1 DEF CallSound
    <3>2. f.maker \in Calls
      BY <3>1 DEF FairFill, Fills
    <3> QED BY <1>5, <1>8, <3>1, <3>2
  <2>3. \A i, j \in DOMAIN k.fills : k.fills[i] = k.fills[j] => i = j
    BY <2>1 DEF AllowedNext, CallSound
  <2>4. \A n \in DOMAIN create[c].dropped : /\ create[c].dropped[n] \in Calls
                                            /\ Gone(create[c].dropped[n])
                                            /\ ~ Lost(create[c].dropped[n])
    <3>1. create[c].dropped \in Seq(Calls)
      BY DEF ServiceTypes, CallRecs
    <3> QED BY <2>1, <3>1, ElementOfSeq, LenProperties DEF CallSound
  <2>5. \A i \in DOMAIN k.dropped : Gone(k.dropped[i])' /\ ~ Lost(k.dropped[i])'
    <3> TAKE i \in DOMAIN k.dropped
    <3>1. PICK d \in Calls : d = k.dropped[i] /\ Gone(d) /\ ~ Lost(d)
      BY <2>4 DEF AllowedNext
    <3>2. Gone(d)' /\ ~ Lost(d)'
      BY <1>4, <1>5, <3>1
    <3>3. create'[c] = k
      BY <1>1
    <3> QED BY <3>1, <3>2 DEF Gone, Lost
  <2>6. k.pc \in After => Known(c)' /\ (~ k.rested => Gone(c)')
    BY <1>4, <2>1 DEF AllowedNext, CallSound
  <2>7. k.pc \in Applying => Range(k.fills) \subseteq trades'
    BY DEF AllowedNext
  <2>8. /\ k.pc \in {"writeMaker", "writeDropped", "unlockDropped"} =>
              k.target \in Calls /\ Known(k.target)' /\ ~ Lost(k.target)'
        /\ k.pc = "writeDropped" => Gone(k.target)'
    <3>1. PICK d : d = k.target
      OBVIOUS
    <3>2. /\ k.pc \in {"writeMaker", "writeDropped", "unlockDropped"} =>
                d \in Calls /\ Known(d)' /\ ~ Lost(d)'
          /\ k.pc = "writeDropped" => Gone(d)'
      BY <1>4, <1>5, <3>1 DEF AllowedNext
    <3> QED BY <3>1, <3>2 DEF Known, Gone, Lost
  <2>9. /\ k.pc # "new" => k.req \in NewOrders
        /\ k.pc \notin After => k.fills = <<>> /\ k.settled = 0 /\ k.makers = {} /\ k.dropped = <<>>
        /\ k.settled <= Len(k.fills)
        /\ k.pc = "settle" => k.settled < Len(k.fills)
        /\ k.makers \subseteq Range(k.fills)
    BY DEF AllowedNext
  <2> QED BY <1>1, <2>2, <2>3, <2>5, <2>6, <2>7, <2>8, <2>9 DEF CallSound, FillsOf
<1>11. CallsSound'
  <2>1. \A d \in Calls : CallSound(d)'
    BY <1>7, <1>10
  <2>2. \A f \in trades' : FairFill(f)'
    <3>1. \A f \in trades \cup FillsOf(c) : FairFill(f)
      BY KnownFills
    <3> QED BY <1>8, <3>1
  <2> QED BY <2>1, <2>2 DEF CallsSound
<1>12. NamesSound'
  <2>1. \A id \in DOMAIN uuid : uuid[id] \in Calls /\ create[uuid[id]].pc \notin Before
    BY Names DEF NamesSound
  <2>2. \A id \in DOMAIN uuid : /\ create'[uuid[id]].pc \notin Before
                                /\ create'[uuid[id]].req = create[uuid[id]].req
    BY <1>1, <2>1 DEF AllowedNext, Before
  <2>3. taker # NoOrder => create'[uuid[taker]].pc = "match"
    <3>1. taker # NoOrder => taker \in DOMAIN uuid
      BY Names
    <3> QED BY <1>1, <2>1, <3>1 DEF NamesSound, AllowedNext
  <2>4. \A d \in Calls : create'[d].pc = "match" => taker # NoOrder /\ uuid[taker] = d
    BY <1>1 DEF NamesSound, AllowedNext
  <2> QED BY <1>2, <2>2, <2>3, <2>4 DEF NamesSound, Req
<1>13. MatchIsLive'
  <2>0. \A id \in DOMAIN uuid : uuid[id] \in Calls
    BY Names
  <2>1. \A id \in resting : uuid[id] \in Calls
    BY <2>0, Names DEF BookSound
  <2>2. taker # NoOrder => /\ \A i \in DOMAIN result.trades : uuid[result.trades[i].maker] \in Calls
                           /\ \A i \in DOMAIN result.canceled : uuid[result.canceled[i]] \in Calls
    BY <2>0, Names DEF BookSound, MatchSound, FillSound
  <2> QED BY <1>2, <1>5, <2>1, <2>2 DEF MatchIsLive, Lost
<1>14. FilledSound'
  <2>1. MatchFills' = MatchFills
    BY <1>2 DEF MatchFills, ByCall
  <2>2. \A d \in Calls : FillsOf(d)' \subseteq FillsOf(d)
    BY <1>1, <1>9 DEF FillsOf
  <2>3. Booked' \subseteq Booked
    BY <2>1, <2>2 DEF Booked
  <2>4. IsFiniteSet(Booked) /\ IsFiniteSet(Booked') /\ Booked \subseteq Fills
    BY <2>3, FS_Subset, BookedTyped DEF FilledSound
  <2>5. ASSUME NEW id \in DOMAIN uuid
        PROVE  SumOver(Qty, Of(Booked', uuid[id])) <= orders[id].filled
    <3>1. /\ Of(Booked', uuid[id]) \in SUBSET Of(Booked, uuid[id])
          /\ Of(Booked, uuid[id]) \in SUBSET Booked
      BY <2>3 DEF Of
    <3>2. IsFiniteSet(Of(Booked, uuid[id])) /\ Of(Booked, uuid[id]) \subseteq Fills
      BY <2>4, <3>1, FS_Subset
    <3>3. /\ SumOver(Qty, Of(Booked', uuid[id])) <= SumOver(Qty, Of(Booked, uuid[id]))
          /\ SumOver(Qty, Of(Booked', uuid[id])) \in Nat /\ SumOver(Qty, Of(Booked, uuid[id])) \in Nat
      BY <3>1, <3>2, QtySum
    <3>4. orders[id].filled \in Nat
      BY Names, OrderFields DEF BookSound
    <3>5. SumOver(Qty, Of(Booked, uuid[id])) <= orders[id].filled
      BY DEF FilledSound
    <3> QED BY <3>3, <3>4, <3>5
  <2> QED BY <1>2, <2>4, <2>5 DEF FilledSound, Of, Qty
<1>15. trades' \subseteq Fills /\ IsFiniteSet(trades')
  <2>1. trades' \subseteq Booked /\ IsFiniteSet(Booked) /\ Booked \subseteq Fills
    BY BookedTyped DEF Booked, FilledSound
  <2> QED BY <2>1, FS_Subset
<1>16. ASSUME NEW d \in Calls
       PROVE  AppliedTo(d) <= AppliedTo(d)' /\ AppliedTo(d) \in Nat /\ AppliedTo(d)' \in Nat
  <2>1. \A f \in trades : f.taker \in Calls
    BY DEF ServiceTypes, Fills
  <2>2. \A x \in Calls : create'[x].makers \subseteq create[x].makers
    BY <1>1 DEF AllowedNext
  <2>3. AppliedFills(d) \in SUBSET AppliedFills(d)' /\ AppliedFills(d)' \in SUBSET trades'
    BY <2>1, <2>2 DEF AppliedFills
  <2>4. IsFiniteSet(AppliedFills(d)') /\ AppliedFills(d)' \subseteq Fills
    BY <1>15, <2>3, FS_Subset
  <2>5. /\ SumOver(Qty, AppliedFills(d)) <= SumOver(Qty, AppliedFills(d)')
        /\ SumOver(Qty, AppliedFills(d)) \in Nat /\ SumOver(Qty, AppliedFills(d)') \in Nat
    BY <2>3, <2>4, QtySum
  <2> QED BY <2>5 DEF AppliedTo, Qty
<1> QED BY <1>1, <1>3, <1>4, <1>5, <1>6, <1>11, <1>12, <1>13, <1>14, <1>15, <1>16

LEMMA RowFields ==
  ASSUME NEW r \in Rows \cup {NoRow}
  PROVE  r.filled \in Nat /\ r.status \in Statuses \cup {"none"} /\ (r.status = "none" => r = NoRow)
BY DEF Rows, NoRow, Statuses

\* The same with the row of call w written, or no row.
MayBecome(w, r) ==
    /\ r # NoRow => create'[w].pc # "new"
    /\ EngineId(w) # {} => r # NoRow
    /\ create'[w].pc \in {"submit", "match"} => r.status = "pending"
    /\ IsResting(w) => r.status \in OpenStatuses
    /\ Lost(w) => r.status \notin OpenStatuses
    /\ r.filled <= AppliedTo(w)'

LEMMA RowStep ==
  ASSUME Inv, NEW c \in Calls, NEW k \in CallRecs, create' = [create EXCEPT ![c] = k],
         UNCHANGED <<book, uuid, cancel, boot, crashes>>, AllowedNext(c, k), boot.pc = "up",
         trades \subseteq trades', trades' \subseteq trades \cup FillsOf(c),
         NEW w \in Calls, NEW r \in Rows \cup {NoRow}, rows' = [rows EXCEPT ![w] = r],
         MayBecome(w, r), w # c => k.pc # "submit",
         k.pc \in {"writeMaker", "writeDropped"} => k.copy.filled <= AppliedTo(k.target)',
         bal' \in [Users -> [Currencies -> Int]], locked' \in [Users -> [Currencies -> Nat]],
         MoneySum'
  PROVE  Inv'
<1>1. /\ BookSound' /\ NamesSound' /\ MatchIsLive' /\ CallsSound' /\ FilledSound'
      /\ create' \in [Calls -> CallRecs] /\ trades' \subseteq Fills /\ IsFiniteSet(trades')
      /\ create'[c] = k /\ \A d \in Calls : d # c => create'[d] = create[d]
      /\ \A d \in Calls : /\ Lost(d)' <=> Lost(d)
                          /\ Known(d)' <=> Known(d)
                          /\ Gone(d)' <=> Gone(d)
                          /\ IsResting(d)' <=> IsResting(d)
                          /\ AppliedTo(d) <= AppliedTo(d)'
                          /\ AppliedTo(d) \in Nat /\ AppliedTo(d)' \in Nat
  BY CallStep DEF Inv
<1>2. /\ rows' \in [Calls -> Rows \cup {NoRow}]
      /\ rows'[w] = r /\ \A d \in Calls : d # w => rows'[d] = rows[d]
  BY DEF Inv, ServiceTypes
<1>3. ServiceTypes'
  <2>1. ServiceTypes
    BY DEF Inv
  <2>2. UNCHANGED <<orders, uuid, cancel, boot, crashes>>
    BY DEF book
  <2> QED BY <1>1, <1>2, <2>1, <2>2 DEF ServiceTypes
<1>4. UNCHANGED <<resting, taker, uuid, cancel, boot>>
  BY DEF book
<1>5. RowsSound'
  <2> SUFFICES ASSUME NEW d \in Calls
               PROVE  /\ rows'[d] # NoRow => create'[d].pc # "new"
                      /\ EngineId(d)' # {} => rows'[d] # NoRow
                      /\ create'[d].pc \in {"submit", "match"} => rows'[d].status = "pending"
                      /\ cancel[d].pc # "new" => create'[d].pc # "new"
                      /\ cancel[d].pc = "write" => Gone(d)'
                      /\ IsResting(d)' => rows'[d].status \in OpenStatuses
    BY <1>4 DEF RowsSound
  <2>1. /\ rows[d] # NoRow => create[d].pc # "new"
        /\ EngineId(d) # {} => rows[d] # NoRow
        /\ create[d].pc \in {"submit", "match"} => rows[d].status = "pending"
        /\ cancel[d].pc # "new" => create[d].pc # "new"
        /\ cancel[d].pc = "write" => Gone(d)
        /\ IsResting(d) => rows[d].status \in OpenStatuses
    BY DEF Inv, RowsSound
  <2>2. k.pc # "new" /\ k.pc # "match" /\ create[c].pc # "match"
    BY DEF AllowedNext
  <2>3. (rows'[d] # NoRow => create'[d].pc # "new") /\ (cancel[d].pc # "new" => create'[d].pc # "new")
    BY <1>1, <1>2, <2>1, <2>2 DEF MayBecome
  <2>4. create'[d].pc \in {"submit", "match"} => rows'[d].status = "pending"
    BY <1>1, <1>2, <2>1, <2>2 DEF MayBecome
  <2>5. (cancel[d].pc = "write" => Gone(d)') /\ (IsResting(d)' => rows'[d].status \in OpenStatuses)
    BY <1>1, <1>2, <2>1 DEF MayBecome
  <2>6. EngineId(d)' # {} => rows'[d] # NoRow
    BY <1>2, <1>4, <2>1 DEF MayBecome, EngineId
  <2> QED BY <2>3, <2>4, <2>5, <2>6
<1>6. BootSound'
  <2>1. \A d \in Calls : Lost(d)' => rows'[d].status \notin OpenStatuses
    BY <1>1, <1>2 DEF Inv, BootSound, MayBecome
  <2> QED BY <1>4, <2>1 DEF BootSound
<1>7. AppliedSound'
  <2>1. ASSUME NEW d \in Calls PROVE rows'[d].filled <= AppliedTo(d)'
    <3>1. rows[d].filled <= AppliedTo(d) /\ rows[d].filled \in Nat
      BY RowFields DEF Inv, AppliedSound, ServiceTypes
    <3>2. AppliedTo(d) <= AppliedTo(d)' /\ AppliedTo(d) \in Nat /\ AppliedTo(d)' \in Nat
      BY <1>1
    <3>3. CASE d = w
      BY <1>2, <3>3 DEF MayBecome
    <3>4. CASE d # w
      BY <1>2, <3>1, <3>2, <3>4
    <3> QED BY <3>3, <3>4
  <2>2. ASSUME NEW d \in Calls, cancel[d].pc \in {"engine", "write"}
        PROVE  cancel[d].copy.filled <= AppliedTo(d)'
    <3>1. cancel[d].copy.filled <= AppliedTo(d) /\ cancel[d].copy.filled \in Nat
      BY <2>2, RowFields DEF Inv, AppliedSound, ServiceTypes
    <3>2. AppliedTo(d) <= AppliedTo(d)' /\ AppliedTo(d) \in Nat /\ AppliedTo(d)' \in Nat
      BY <1>1
    <3> QED BY <3>1, <3>2
  <2>3. ASSUME NEW d \in Calls, create'[d].pc \in {"writeMaker", "writeDropped"}
        PROVE  create'[d].copy.filled <= AppliedTo(create[d].target)'
    <3>1. PICK t : t = create'[d].target
      OBVIOUS
    <3>2. CASE d = c
      <4>1. create'[d].copy.filled <= AppliedTo(k.target)' /\ t = k.target
        BY <1>1, <2>3, <3>1, <3>2
      <4>2. create'[d].copy.filled <= AppliedTo(t)'
        BY <4>1
      <4> QED BY <3>1, <4>2 DEF AppliedTo, AppliedFills
    <3>3. CASE d # c
      <4>1. create'[d] = create[d] /\ t \in Calls
        BY <1>1, <2>3, <3>1, <3>3 DEF Inv, CallsSound, CallSound
      <4>2. create[d].copy.filled <= AppliedTo(t) /\ create[d].copy.filled \in Nat
        BY <2>3, <3>1, <4>1, RowFields DEF Inv, AppliedSound, ServiceTypes, CallRecs
      <4>3. AppliedTo(t) <= AppliedTo(t)' /\ AppliedTo(t) \in Nat /\ AppliedTo(t)' \in Nat
        BY <1>1, <4>1
      <4>4. create'[d].copy.filled <= AppliedTo(t)'
        BY <4>1, <4>2, <4>3
      <4> QED BY <3>1, <4>4 DEF AppliedTo, AppliedFills
    <3> QED BY <3>2, <3>3
  <2> QED BY <1>4, <2>1, <2>2, <2>3 DEF AppliedSound
<1> QED BY <1>1, <1>3, <1>5, <1>6, <1>7 DEF Inv

\* No row is written.
LEMMA CallOnly ==
  ASSUME Inv, NEW c \in Calls, NEW k \in CallRecs, create' = [create EXCEPT ![c] = k],
         UNCHANGED <<book, uuid, rows, cancel, boot, crashes>>, AllowedNext(c, k), boot.pc = "up",
         trades \subseteq trades', trades' \subseteq trades \cup FillsOf(c),
         k.pc # "submit",
         k.pc \in {"writeMaker", "writeDropped"} => k.copy.filled <= AppliedTo(k.target)',
         bal' \in [Users -> [Currencies -> Int]], locked' \in [Users -> [Currencies -> Nat]],
         MoneySum'
  PROVE  Inv'
<1> DEFINE r == rows[c]
<1>1. r \in Rows \cup {NoRow} /\ rows' = [rows EXCEPT ![c] = r]
  BY DEF Inv, ServiceTypes
<1>2. /\ create'[c] = k /\ (IsResting(c)' <=> IsResting(c))
      /\ AppliedTo(c) <= AppliedTo(c)' /\ AppliedTo(c) \in Nat /\ AppliedTo(c)' \in Nat
  BY CallStep DEF Inv
<1>3. r.filled <= AppliedTo(c)'
  <2>1. r.filled <= AppliedTo(c) /\ r.filled \in Nat
    BY <1>1, RowFields DEF Inv, AppliedSound
  <2> QED BY <1>2, <2>1
<1>4. MayBecome(c, r)
  <2>1. k.pc # "new" /\ k.pc # "match" /\ ~ Lost(c)
    BY DEF AllowedNext, Lost
  <2>2. (IsResting(c) => r.status \in OpenStatuses) /\ (EngineId(c) # {} => r # NoRow)
    BY DEF Inv, RowsSound
  <2> QED BY <1>2, <1>3, <2>1, <2>2 DEF MayBecome
<1> HIDE DEF r
<1> QED BY <1>1, <1>4, RowStep

\* Who is on the way runs on a server that is up.
LEMMA ActiveIsUp ==
  ASSUME BootSound, NEW c \in Calls, create[c].pc \notin CreateEnds \cup {"new"}
  PROVE  boot.pc = "up"
BY DEF BootSound, Active

\* A record with nothing but a request.
Bare(q, r) == [NewCall EXCEPT !.pc = q, !.req = r]

LEMMA RecordOf ==
  ASSUME NEW e, NEW F, NEW G, NEW O, e \in F, e \in G, NEW M, NEW R, NEW n \in R, NEW P, NEW q \in P
  PROVE  [pc |-> q, req |-> e, fills |-> e, settled |-> 0, makers |-> {}, dropped |-> e,
          rested |-> FALSE, target |-> 0, copy |-> n]
           \in [pc : P, req : O \cup {e}, fills : F, settled : Nat, makers : SUBSET M,
                dropped : G, rested : BOOLEAN, target : Nat, copy : R]
OBVIOUS

LEMMA BareRecord ==
  /\ NewCall \in CallRecs
  /\ \A q, r : LET k == Bare(q, r) IN
        /\ q \in CreatePcs /\ r \in NewOrders => k \in CallRecs
        /\ k.pc = q /\ k.req = r /\ k.fills = <<>> /\ k.settled = 0 /\ k.makers = {}
        /\ k.dropped = <<>> /\ k.rested = FALSE
  /\ Len(<<>>) = 0 /\ Range(<<>>) = {}
<1>1. /\ <<>> \in Seq(Fills) /\ <<>> \in Seq(Calls) /\ "new" \in CreatePcs
      /\ NoRow \in Rows \cup {NoRow}
  BY EmptySeq DEF CreatePcs
<1>2. PICK e : e = <<>>
  OBVIOUS
<1>3. CallRecs = [pc : CreatePcs, req : NewOrders \cup {e}, fills : Seq(Fills), settled : Nat,
                  makers : SUBSET Fills, dropped : Seq(Calls), rested : BOOLEAN, target : Nat,
                  copy : Rows \cup {NoRow}]
  BY <1>2 DEF CallRecs
<1>4. NewCall = [pc |-> "new", req |-> e, fills |-> e, settled |-> 0, makers |-> {},
                 dropped |-> e, rested |-> FALSE, target |-> 0, copy |-> NoRow]
  BY <1>2 DEF NewCall
<1>5. NewCall \in CallRecs
  BY <1>1, <1>2, <1>3, <1>4, RecordOf
<1>6. \A q \in CreatePcs, r \in NewOrders : Bare(q, r) \in CallRecs
  <2>1. \A k \in CallRecs, q \in CreatePcs, r \in NewOrders :
           [k EXCEPT !.pc = q, !.req = r] \in CallRecs
    BY DEF CallRecs
  <2> QED BY <1>5, <2>1 DEF Bare
<1>7. \A q, r : LET k == Bare(q, r) IN
        /\ k.pc = q /\ k.req = r /\ k.fills = <<>> /\ k.settled = 0 /\ k.makers = {}
        /\ k.dropped = <<>> /\ k.rested = FALSE
  BY DEF NewCall, Bare
<1>8. Len(<<>>) = 0 /\ Range(<<>>) = {}
  BY EmptySeq DEF Range
<1> QED BY <1>5, <1>6, <1>7, <1>8

\* A call ends.
LEMMA EndAllowed ==
  ASSUME Inv, NEW c \in Calls, create[c].pc \notin {"match", "lost", "new"},
         NEW q \in {"done", "rejected", "failed"}
  PROVE  LET k == Bare(q, Req(c)) IN k \in CallRecs /\ AllowedNext(c, k) /\ k.pc = q
<1>1. PICK k : k = Bare(q, Req(c))
  OBVIOUS
<1>2. create[c].req \in NewOrders /\ q \in CreatePcs /\ Req(c) = create[c].req
  BY DEF Inv, CallsSound, CallSound, CreatePcs, Req
<1>3. /\ k \in CallRecs /\ k.pc = q /\ k.req = create[c].req /\ k.fills = <<>> /\ k.settled = 0
      /\ k.makers = {} /\ k.dropped = <<>> /\ k.rested = FALSE
  BY <1>1, <1>2, BareRecord
<1>4. AllowedNext(c, k)
  BY <1>2, <1>3, BareRecord DEF AllowedNext, Before, After, Applying
<1> QED BY <1>1, <1>3, <1>4

\* A call goes on, before the book or after it.
LEMMA GotoAllowed ==
  ASSUME Inv, NEW c \in Calls, NEW q,
         \/ /\ create[c].pc \in Before \ {"new"}
            /\ q \in {"lock", "insert", "undo", "submit"}
         \/ /\ create[c].pc \in After /\ FillsOf(c) \subseteq trades'
            /\ q = "apply" \/ (q = "unlockDropped" /\ create[c].pc = "writeDropped")
  PROVE  /\ [create[c] EXCEPT !.pc = q] \in CallRecs
         /\ AllowedNext(c, [create[c] EXCEPT !.pc = q])
         /\ [create[c] EXCEPT !.pc = q].pc = q
<1> DEFINE k == [create[c] EXCEPT !.pc = q]
<1>1. create[c] \in CallRecs /\ CallSound(c)
  BY DEF Inv, CallsSound, ServiceTypes
<1>2. q \in CreatePcs
  BY DEF CreatePcs
<1>3. /\ k \in CallRecs /\ k.pc = q
      /\ k.req = create[c].req /\ k.fills = create[c].fills /\ k.settled = create[c].settled
      /\ k.makers = create[c].makers /\ k.dropped = create[c].dropped
      /\ k.rested = create[c].rested /\ k.target = create[c].target
  BY <1>1, <1>2 DEF CallRecs
<1> HIDE DEF k
<1>4. AllowedNext(c, k)
  <2>1. CASE create[c].pc \in Before \ {"new"} /\ q \in {"lock", "insert", "undo", "submit"}
    BY <1>1, <1>3, <2>1 DEF AllowedNext, CallSound, Before, After, Applying, FillsOf
  <2>2. CASE /\ create[c].pc \in After /\ FillsOf(c) \subseteq trades'
             /\ q = "apply" \/ (q = "unlockDropped" /\ create[c].pc = "writeDropped")
    BY <1>1, <1>3, <2>2 DEF AllowedNext, CallSound, Before, After, Applying, FillsOf
  <2> QED BY <2>1, <2>2
<1> QED BY <1>3, <1>4 DEF k

-----------------------------------------------------------------------------
\* CreateOrder, step by step.

LEMMA MoneyKept ==
  ASSUME MoneySum, \A cur \in Currencies : Wealth(bal', cur) = Wealth(bal, cur)
  PROVE  MoneySum'
BY DEF MoneySum, Wealth

LEMMA StartCreateInv ==
  ASSUME Inv, NEW c \in Calls, NEW o \in Inputs, StartCreate(c, o)
  PROVE  Inv'
<1>0. PICK k : k = Bare("check", o)
  OBVIOUS
<1>1. /\ create[c].pc = "new" /\ boot.pc = "up" /\ create' = [create EXCEPT ![c] = k]
      /\ UNCHANGED <<book, uuid, rows, trades, wallets, cancel, boot, crashes>>
  BY <1>0 DEF StartCreate, MayStart, Bare
<1>2. o \in NewOrders /\ "check" \in CreatePcs
  BY InputsAssumption DEF CreatePcs
<1>3. /\ k \in CallRecs /\ k.pc = "check" /\ k.req = o /\ k.fills = <<>> /\ k.settled = 0
      /\ k.makers = {} /\ k.dropped = <<>> /\ k.rested = FALSE
  BY <1>0, <1>2, BareRecord
<1>6. AllowedNext(c, k)
  BY <1>1, <1>2, <1>3, BareRecord DEF AllowedNext, Before, After, Applying
<1>8. /\ bal' = bal /\ locked' = locked /\ trades' = trades
      /\ bal' \in [Users -> [Currencies -> Int]] /\ locked' \in [Users -> [Currencies -> Nat]]
  BY <1>1 DEF wallets, Inv, ServiceTypes
<1>9. MoneySum'
  BY <1>8, MoneyKept DEF Inv
<1> QED BY <1>1, <1>3, <1>6, <1>8, <1>9, CallOnly

\* What only touches the record of an active call.
LEMMA OwnStep ==
  ASSUME Inv, NEW c \in Calls, NEW k \in CallRecs, create' = [create EXCEPT ![c] = k],
         create[c].pc \notin CreateEnds \cup {"new"}, AllowedNext(c, k), k.pc # "submit",
         k.pc \in {"writeMaker", "writeDropped"} => k.copy.filled <= AppliedTo(k.target)',
         UNCHANGED <<book, uuid, rows, trades, wallets, cancel, boot, crashes>>
  PROVE  Inv'
<1>1. boot.pc = "up"
  BY ActiveIsUp DEF Inv
<1>2. /\ bal' = bal /\ trades' = trades
      /\ bal' \in [Users -> [Currencies -> Int]] /\ locked' \in [Users -> [Currencies -> Nat]]
  BY DEF wallets, Inv, ServiceTypes
<1>3. MoneySum'
  BY <1>2, MoneyKept DEF Inv
<1> QED BY <1>1, <1>2, <1>3, CallOnly

\* A call fails, or is refused.
LEMMA EndInv ==
  ASSUME Inv, NEW c \in Calls, create[c].pc \notin CreateEnds \cup {"new", "match"},
         NEW q \in {"done", "rejected", "failed"}, End(c, q),
         UNCHANGED <<book, uuid, rows, trades, wallets, cancel, boot, crashes>>
  PROVE  Inv'
<1>1. PICK k : k = Bare(q, Req(c))
  OBVIOUS
<1>2. /\ k \in CallRecs /\ AllowedNext(c, k) /\ k.pc = q
      /\ create' = [create EXCEPT ![c] = k]
  BY <1>1, EndAllowed DEF CreateEnds, End, Bare
<1> QED BY <1>2, OwnStep DEF CreateEnds

LEMMA GotoInv ==
  ASSUME Inv, NEW c \in Calls, create[c].pc \in Before \ {"new"},
         NEW q \in {"lock", "insert", "undo"}, Goto(c, q),
         UNCHANGED <<book, uuid, rows, trades, wallets, cancel, boot, crashes>>
  PROVE  Inv'
<1>1. PICK k \in CallRecs : /\ AllowedNext(c, k) /\ k.pc = q
                            /\ create' = [create EXCEPT ![c] = k]
  BY GotoAllowed DEF Goto
<1> QED BY <1>1, OwnStep DEF Before, CreateEnds

LEMMA CheckInv ==
  ASSUME Inv, NEW c \in Calls, Check(c)
  PROVE  Inv'
<1>1. /\ create[c].pc = "check" /\ UNCHANGED <<book, uuid, rows, trades, wallets, cancel, boot, crashes>>
      /\ End(c, "rejected") \/ Goto(c, "lock") \/ Goto(c, "insert")
  BY DEF Check
<1> QED BY <1>1, EndInv, GotoInv DEF Before, CreateEnds

LEMMA CreateFailsInv ==
  ASSUME Inv, NEW c \in Calls, CreateFails(c)
  PROVE  Inv'
BY EndInv DEF CreateFails, CreateEnds

\* Amounts.
LEMMA CostType ==
  ASSUME NEW o, NEW lots \in Int, NEW price \in Nat
  PROVE  Cost(o, lots, price) \in Int /\ (lots \in Nat => Cost(o, lots, price) \in Nat)
<1>1. lots * price \in Int /\ (lots \in Nat => lots * price \in Nat)
  OBVIOUS
<1> QED BY <1>1 DEF Cost

LEMMA LockOfType ==
  ASSUME NEW c \in Calls, Req(c) \in NewOrders, NEW filled \in Nat
  PROVE  /\ Req(c).user \in Users /\ Spends(Req(c)) \in Currencies /\ Gets(Req(c)) \in Currencies
         /\ LockOf(c, filled) \in Int /\ LockOf(c, 0) \in Nat
<1>1. Req(c).user \in Users /\ Req(c).qty \in Nat /\ Req(c).price \in Nat
  BY NewOrderFields
<1>2. /\ Req(c).qty - filled \in Int /\ Req(c).qty - 0 \in Nat /\ Req(c).qty - 0 \in Int
  BY <1>1
<1> QED BY <1>1, <1>2, CostType DEF LockOf, Spends, Gets, Currencies

LEMMA UnlockType ==
  ASSUME Inv, NEW u \in Users, NEW cur \in Currencies, NEW amount \in Int, Unlock(u, cur, amount)
  PROVE  /\ bal' = bal /\ bal' \in [Users -> [Currencies -> Int]]
         /\ locked' \in [Users -> [Currencies -> Nat]]
<1>1. /\ bal' = bal /\ bal \in [Users -> [Currencies -> Int]] /\ locked \in [Users -> [Currencies -> Nat]]
      /\ locked' = [locked EXCEPT ![u][cur] = Floor0(@ - amount)]
  BY DEF Inv, ServiceTypes, Unlock
<1>2. Floor0(locked[u][cur] - amount) \in Nat
  BY <1>1 DEF Floor0
<1> QED BY <1>1, <1>2

\* A call that has been placed was asked for properly.
LEMMA Requested ==
  ASSUME Inv, NEW c \in Calls, create[c].pc # "new" \/ Known(c)
  PROVE  Req(c) \in NewOrders
<1>1. create[c].pc # "new"
  BY Names DEF Inv, Before
<1> QED BY <1>1 DEF Inv, CallsSound, CallSound, Req

LEMMA LockInv ==
  ASSUME Inv, NEW c \in Calls, Lock(c)
  PROVE  Inv'
<1> DEFINE o == Req(c)
<1>1. create[c].pc = "lock" /\ UNCHANGED <<book, uuid, rows, trades, bal, cancel, boot, crashes>>
  BY DEF Lock
<1>2. CASE End(c, "rejected") /\ UNCHANGED locked
  BY <1>1, <1>2, EndInv DEF CreateEnds, wallets
<1>3. CASE /\ locked' = [locked EXCEPT ![o.user][Spends(o)] = @ + LockOf(c, 0)]
           /\ Goto(c, "insert")
  <2>1. o \in NewOrders
    BY <1>1, Requested
  <2>2. o.user \in Users /\ Spends(o) \in Currencies /\ LockOf(c, 0) \in Nat
    <3>1. 0 \in Nat
      OBVIOUS
    <3> QED BY <2>1, <3>1, LockOfType
  <2>3. locked' \in [Users -> [Currencies -> Nat]] /\ bal' \in [Users -> [Currencies -> Int]]
    <3> HIDE DEF o
    <3>1. locked[o.user][Spends(o)] + LockOf(c, 0) \in Nat
      BY <2>2 DEF Inv, ServiceTypes
    <3> QED BY <1>1, <1>3, <2>2, <3>1 DEF Inv, ServiceTypes
  <2>4. PICK k \in CallRecs : /\ AllowedNext(c, k) /\ k.pc = "insert"
                              /\ create' = [create EXCEPT ![c] = k]
    BY <1>1, <1>3, GotoAllowed DEF Goto, Before
  <2>5. MoneySum' /\ boot.pc = "up"
    BY <1>1, MoneyKept, ActiveIsUp DEF Inv, CreateEnds
  <2> QED BY <1>1, <2>3, <2>4, <2>5, CallOnly
<1> QED BY <1>2, <1>3 DEF Lock

LEMMA InsertInv ==
  ASSUME Inv, NEW c \in Calls, Insert(c)
  PROVE  Inv'
<1>1. create[c].pc = "insert" /\ UNCHANGED <<book, uuid, trades, wallets, cancel, boot, crashes>>
  BY DEF Insert
<1>2. CASE /\ rows' = [rows EXCEPT ![c] = [status |-> "pending", filled |-> 0]]
           /\ Goto(c, "submit")
  <2>1. PICK r : r = [status |-> "pending", filled |-> 0]
    OBVIOUS
  <2>2. r \in Rows \cup {NoRow} /\ r.status = "pending" /\ r.filled = 0 /\ r # NoRow
    BY <2>1 DEF Rows, NoRow, Statuses
  <2>3. PICK k \in CallRecs : /\ AllowedNext(c, k) /\ k.pc = "submit"
                              /\ create' = [create EXCEPT ![c] = k]
    BY <1>1, <1>2, GotoAllowed DEF Goto, Before
  <2>4. /\ MoneySum' /\ boot.pc = "up" /\ trades' = trades
        /\ bal' \in [Users -> [Currencies -> Int]] /\ locked' \in [Users -> [Currencies -> Nat]]
    BY <1>1, MoneyKept, ActiveIsUp DEF Inv, CreateEnds, wallets, ServiceTypes
  <2>5. MayBecome(c, r)
    <3>1. create'[c] = k /\ AppliedTo(c)' \in Nat
      BY <1>1, <2>3, <2>4, CallStep DEF Inv
    <3>2. ~ Lost(c)
      BY <1>1 DEF Lost
    <3> QED BY <2>2, <2>3, <3>1, <3>2 DEF MayBecome, OpenStatuses
  <2> QED BY <1>1, <1>2, <2>1, <2>2, <2>3, <2>4, <2>5, RowStep
<1>3. CASE Goto(c, "undo") /\ UNCHANGED rows
  BY <1>1, <1>3, GotoInv DEF Before
<1>4. CASE End(c, "failed") /\ UNCHANGED rows
  BY <1>1, <1>4, EndInv DEF CreateEnds
<1> QED BY <1>2, <1>3, <1>4 DEF Insert

LEMMA UndoInv ==
  ASSUME Inv, NEW c \in Calls, Undo(c)
  PROVE  Inv'
<1>1. /\ create[c].pc = "undo" /\ End(c, "failed")
      /\ Unlock(Req(c).user, Spends(Req(c)), LockOf(c, 0))
      /\ UNCHANGED <<book, uuid, rows, trades, cancel, boot, crashes>>
  BY DEF Undo
<1>2. Req(c) \in NewOrders /\ 0 \in Nat
  BY <1>1, Requested
<1>3. /\ bal' = bal /\ bal' \in [Users -> [Currencies -> Int]]
      /\ locked' \in [Users -> [Currencies -> Nat]]
  <2>1. Req(c).user \in Users /\ Spends(Req(c)) \in Currencies /\ LockOf(c, 0) \in Int
    BY <1>2, LockOfType
  <2> QED BY <1>1, <2>1, UnlockType
<1>4. PICK k : k = Bare("failed", Req(c))
  BY SMTT(30)
<1>5. /\ k \in CallRecs /\ AllowedNext(c, k) /\ k.pc = "failed"
      /\ create' = [create EXCEPT ![c] = k]
  BY <1>1, <1>4, EndAllowed DEF End, Bare
<1>6. MoneySum' /\ boot.pc = "up"
  BY <1>1, <1>3, MoneyKept, ActiveIsUp DEF Inv, CreateEnds
<1> QED BY <1>1, <1>3, <1>5, <1>6, CallOnly

LEMMA SaveTradesInv ==
  ASSUME Inv, NEW c \in Calls, SaveTrades(c)
  PROVE  Inv'
<1>1. /\ create[c].pc = "save" /\ Goto(c, "apply") /\ trades' = trades \cup FillsOf(c)
      /\ UNCHANGED <<book, uuid, rows, wallets, cancel, boot, crashes>>
  BY DEF SaveTrades, FillsOf
<1>2. PICK k \in CallRecs : /\ AllowedNext(c, k) /\ k.pc = "apply"
                            /\ create' = [create EXCEPT ![c] = k]
  BY <1>1, GotoAllowed DEF Goto, After, Applying
<1>3. /\ MoneySum' /\ boot.pc = "up"
      /\ bal' \in [Users -> [Currencies -> Int]] /\ locked' \in [Users -> [Currencies -> Nat]]
  BY <1>1, MoneyKept, ActiveIsUp DEF Inv, CreateEnds, wallets, ServiceTypes
<1> QED BY <1>1, <1>2, <1>3, CallOnly

\* A call that applies its result goes to write somebody's row.
LEMMA ReadAllowed ==
  ASSUME Inv, NEW c \in Calls, create[c].pc = "apply", UNCHANGED trades, NEW k,
         k.pc \in {"writeMaker", "writeDropped"}, k.makers \subseteq create[c].makers,
         k.req = create[c].req, k.fills = create[c].fills, k.settled = create[c].settled,
         k.rested = create[c].rested,
         \A i \in DOMAIN k.dropped : \E n \in DOMAIN create[c].dropped : k.dropped[i] = create[c].dropped[n],
         k.target \in Calls, Known(k.target), ~ Lost(k.target),
         k.pc = "writeDropped" => Gone(k.target)
  PROVE  AllowedNext(c, k)
<1>1. CallSound(c)
  BY DEF Inv, CallsSound
<1> QED BY <1>1 DEF AllowedNext, CallSound, Before, After, Applying, FillsOf

\* The row of a placed order.
LEMMA PlacedRow ==
  ASSUME Inv, NEW m \in Calls, Known(m)
  PROVE  rows[m] \in Rows /\ rows[m].filled \in Nat /\ rows[m].filled <= AppliedTo(m)
<1>1. rows[m] # NoRow
  BY DEF Inv, RowsSound, Known, EngineId
<1>2. rows[m] \in Rows
  BY <1>1 DEF Inv, ServiceTypes
<1> QED BY <1>2, RowFields DEF Inv, AppliedSound

LEMMA ReadMakerInv ==
  ASSUME Inv, NEW c \in Calls, ReadMaker(c)
  PROVE  Inv'
<1>1. PICK f \in create[c].makers :
         create' = [create EXCEPT ![c].pc = "writeMaker", ![c].makers = @ \ {f},
                                  ![c].target = f.maker,
                                  ![c].copy = [rows[f.maker] EXCEPT !.filled = @ + f.qty]]
  BY DEF ReadMaker
<1>2. create[c].pc = "apply" /\ UNCHANGED <<book, uuid, rows, trades, wallets, cancel, boot, crashes>>
  BY DEF ReadMaker
<1>3. PICK m, copy : m = f.maker /\ copy = [rows[f.maker] EXCEPT !.filled = @ + f.qty]
  OBVIOUS
<1>4. create[c] \in CallRecs /\ CallSound(c)
  BY DEF Inv, CallsSound, ServiceTypes
<1>5. f \in FillsOf(c) /\ FillsOf(c) \subseteq trades /\ FairFill(f) /\ f.taker = c /\ ~ Lost(m)
  BY <1>2, <1>3, <1>4 DEF CallSound, Applying
<1>6. f \in Fills /\ m \in Calls /\ Known(m) /\ f.qty \in Nat /\ m # c
  BY <1>3, <1>5 DEF FairFill, Fills, Opposite
<1>7. rows[m] \in Rows /\ rows[m].filled \in Nat /\ rows[m].filled <= AppliedTo(m)
  BY <1>6, PlacedRow
<1>8. copy \in Rows /\ copy.filled = rows[m].filled + f.qty
  BY <1>3, <1>6, <1>7 DEF Rows
<1>9. PICK k : k = [create[c] EXCEPT !.pc = "writeMaker", !.makers = create[c].makers \ {f},
                                    !.dropped = create[c].dropped, !.target = m, !.copy = copy]
  OBVIOUS
<1>10. /\ k \in CallRecs /\ AllowedNext(c, k)
       /\ k.pc = "writeMaker" /\ k.copy = copy /\ k.target = m /\ k.makers = create[c].makers \ {f}
  <2>1. /\ k \in CallRecs
        /\ k.pc = "writeMaker" /\ k.copy = copy /\ k.target = m /\ k.makers = create[c].makers \ {f}
        /\ k.req = create[c].req /\ k.fills = create[c].fills /\ k.settled = create[c].settled
        /\ k.dropped = create[c].dropped /\ k.rested = create[c].rested
    <3>1. "writeMaker" \in CreatePcs /\ m \in Nat
      BY <1>6 DEF CreatePcs, Calls
    <3> QED BY <1>4, <1>8, <1>9, <3>1 DEF CallRecs
  <2>2. UNCHANGED trades
    BY <1>2
  <2> QED BY <1>2, <1>5, <1>6, <2>1, <2>2, ReadAllowed
<1>11. create' = [create EXCEPT ![c] = k]
  <2>1. k = [create[c] EXCEPT !.pc = "writeMaker", !.makers = create[c].makers \ {f},
                              !.target = m, !.copy = copy]
    BY <1>4, <1>9 DEF CallRecs
  <2>2. create \in [Calls -> CallRecs]
    BY DEF Inv, ServiceTypes
  <2> QED BY <1>1, <1>3, <2>1, <2>2
<1>12. k.copy.filled <= AppliedTo(m)'
  <2>1. create'[c] = k /\ AppliedTo(m) \in Nat /\ trades' \subseteq Fills /\ IsFiniteSet(trades')
    BY <1>2, <1>6, <1>10, <1>11, CallStep DEF Inv
  <2>2. \A d \in Calls : create'[d].makers \subseteq create[d].makers
    BY <1>2, <1>10, <1>11, CallStep DEF Inv
  <2>3. \A g \in trades : g.taker \in Calls
    BY DEF Inv, ServiceTypes, Fills
  <2>4. f \notin AppliedFills(m) /\ AppliedFills(m) \subseteq trades
    BY <1>3, <1>5, <1>6 DEF AppliedFills
  <2>5. AppliedFills(m) \cup {f} \in SUBSET AppliedFills(m)'
    BY <1>2, <1>3, <1>5, <1>10, <2>1, <2>2, <2>3 DEF AppliedFills
  <2>6. /\ IsFiniteSet(AppliedFills(m)') /\ AppliedFills(m)' \subseteq Fills
        /\ IsFiniteSet(AppliedFills(m)) /\ AppliedFills(m) \subseteq Fills
    BY <1>2, <2>1, <2>4, FS_Subset DEF AppliedFills
  <2>7. /\ SumOver(Qty, AppliedFills(m) \cup {f}) <= SumOver(Qty, AppliedFills(m)')
        /\ SumOver(Qty, AppliedFills(m) \cup {f}) \in Nat /\ SumOver(Qty, AppliedFills(m)') \in Nat
    BY <2>5, <2>6, QtySum
  <2>8. \A g \in AppliedFills(m) \cup {f} : Qty[g] \in Int
    BY <1>6, <2>6 DEF Qty, Fills
  <2>9. SumOver(Qty, AppliedFills(m) \cup {f}) = Qty[f] + SumOver(Qty, AppliedFills(m))
    BY <2>4, <2>6, <2>8, SumAdd
  <2>10. Qty[f] = f.qty
    BY <1>6 DEF Qty
  <2>11. AppliedTo(m)' = SumOver(Qty, AppliedFills(m)')
    BY DEF AppliedTo, Qty
  <2> QED BY <1>6, <1>7, <1>8, <1>10, <2>1, <2>7, <2>9, <2>10, <2>11 DEF AppliedTo
<1>13. k.pc \in {"writeMaker", "writeDropped"} => k.copy.filled <= AppliedTo(k.target)'
  BY <1>10, <1>12 DEF AppliedTo, AppliedFills
<1> QED BY <1>2, <1>10, <1>11, <1>13, OwnStep DEF CreateEnds

\* A status that is derived for an order with something left is an open one.
LEMMA DerivedOpen ==
  ASSUME NEW filled \in Nat, NEW qty \in Nat
  PROVE  /\ DeriveStatus(filled, qty, TRUE) \in Statuses /\ DeriveStatus(filled, qty, FALSE) \in Statuses
         /\ filled < qty => DeriveStatus(filled, qty, TRUE) \in OpenStatuses
BY DEF DeriveStatus, Statuses, OpenStatuses

\* What is applied to a resting order's row leaves something of it.
LEMMA RestingLeft ==
  ASSUME Inv, NEW m \in Calls, IsResting(m)
  PROVE  AppliedTo(m) \in Nat /\ AppliedTo(m) < Req(m).qty
<1>1. PICK id \in DOMAIN uuid : uuid[id] = m /\ id \in resting
  BY DEF IsResting, EngineId
<1> QED BY <1>1, AppliedBound DEF Inv

\* An active call writes a row, and keeps the wallets.
LEMMA WriteStep ==
  ASSUME Inv, NEW c \in Calls, NEW k \in CallRecs, create' = [create EXCEPT ![c] = k],
         create[c].pc \notin CreateEnds \cup {"new"}, AllowedNext(c, k),
         k.pc \notin {"submit", "writeMaker", "writeDropped"},
         NEW m \in Calls, Known(m), ~ Lost(m), NEW r \in Rows, rows' = [rows EXCEPT ![m] = r],
         IsResting(m) => r.status \in OpenStatuses, r.filled <= AppliedTo(m),
         UNCHANGED <<book, uuid, trades, wallets, cancel, boot, crashes>>
  PROVE  Inv'
<1>1. boot.pc = "up"
  BY ActiveIsUp DEF Inv
<1>2. /\ bal' = bal /\ trades' = trades
      /\ bal' \in [Users -> [Currencies -> Int]] /\ locked' \in [Users -> [Currencies -> Nat]]
  BY DEF wallets, Inv, ServiceTypes
<1>3. MoneySum'
  BY <1>2, MoneyKept DEF Inv
<1>4. /\ create'[c] = k /\ \A d \in Calls : d # c => create'[d] = create[d]
      /\ AppliedTo(m) <= AppliedTo(m)' /\ AppliedTo(m) \in Nat /\ AppliedTo(m)' \in Nat
  BY <1>2, CallStep DEF Inv
<1>5. create[m].pc \notin Before \cup {"match"}
  BY Names DEF Inv
<1>6. r.filled \in Nat /\ r # NoRow
  BY DEF Rows, NoRow, Statuses
<1>7. MayBecome(m, r)
  <2>1. create'[m].pc \notin {"new", "submit", "match"}
    BY <1>4, <1>5 DEF AllowedNext, Before
  <2> QED BY <1>4, <1>6, <2>1 DEF MayBecome
<1> QED BY <1>1, <1>2, <1>3, <1>7, RowStep

LEMMA WriteMakerInv ==
  ASSUME Inv, NEW c \in Calls, WriteMaker(c)
  PROVE  Inv'
<1> DEFINE m == create[c].target
           filled == create[c].copy.filled
<1>1. /\ create[c].pc = "writeMaker" /\ Goto(c, "apply")
      /\ rows' = [rows EXCEPT ![m] = [status |-> DeriveStatus(filled, Req(m).qty, TRUE),
                                      filled |-> filled]]
      /\ UNCHANGED <<book, uuid, trades, wallets, cancel, boot, crashes>>
  BY DEF WriteMaker
<1>2. create[c] \in CallRecs /\ CallSound(c)
  BY DEF Inv, CallsSound, ServiceTypes
<1>3. m \in Calls /\ Known(m) /\ ~ Lost(m) /\ FillsOf(c) \subseteq trades
  BY <1>1, <1>2 DEF CallSound, Applying
<1>4. filled \in Nat /\ filled <= AppliedTo(m)
  BY <1>1, <1>2, RowFields DEF Inv, AppliedSound, CallRecs
<1>5. Req(m).qty \in Nat
  BY <1>3, Requested, NewOrderFields
<1> HIDE DEF m, filled
<1>6. PICK r : r = [status |-> DeriveStatus(filled, Req(m).qty, TRUE), filled |-> filled]
  OBVIOUS
<1>7. r \in Rows /\ r.filled = filled /\ r.status = DeriveStatus(filled, Req(m).qty, TRUE)
  BY <1>4, <1>5, <1>6, DerivedOpen DEF Rows
<1>8. IsResting(m) => r.status \in OpenStatuses
  <2>1. ASSUME IsResting(m) PROVE r.status \in OpenStatuses
    <3>1. AppliedTo(m) \in Nat /\ AppliedTo(m) < Req(m).qty
      BY <1>3, <2>1, RestingLeft
    <3>2. filled < Req(m).qty
      BY <1>4, <1>5, <3>1
    <3> QED BY <1>4, <1>5, <1>7, <3>2, DerivedOpen
  <2> QED BY <2>1
<1>9. PICK k \in CallRecs : /\ AllowedNext(c, k) /\ k.pc = "apply"
                            /\ create' = [create EXCEPT ![c] = k]
  BY <1>1, <1>3, GotoAllowed DEF Goto, After, Applying
<1>10. create[c].pc \notin CreateEnds \cup {"new"}
  BY <1>1 DEF CreateEnds
<1> QED BY <1>1, <1>3, <1>4, <1>6, <1>7, <1>8, <1>9, <1>10, WriteStep

LEMMA ReadDroppedInv ==
  ASSUME Inv, NEW c \in Calls, ReadDropped(c)
  PROVE  Inv'
<1> DEFINE q == create[c].dropped
<1>1. PICK m : m = Head(q)
  OBVIOUS
<1>2. /\ create[c].pc = "apply" /\ q # <<>>
      /\ create' = [create EXCEPT ![c].pc = "writeDropped", ![c].dropped = Tail(@),
                                  ![c].target = m, ![c].copy = rows[m]]
      /\ UNCHANGED <<book, uuid, rows, trades, wallets, cancel, boot, crashes>>
  BY <1>1 DEF ReadDropped
<1>3. create[c] \in CallRecs /\ CallSound(c) /\ q \in Seq(Calls)
  BY DEF Inv, CallsSound, ServiceTypes, CallRecs
<1>4. /\ 1 \in DOMAIN q /\ m = q[1] /\ m \in Calls
      /\ Tail(q) \in Seq(Calls) /\ \A i \in DOMAIN Tail(q) : \E n \in DOMAIN q : Tail(q)[i] = q[n]
  <2> HIDE DEF q
  <2>1. PICK n \in Nat : n = Len(q) /\ DOMAIN q = 1..n
    BY <1>3, LenProperties
  <2>2. m \in Calls /\ Tail(q) \in Seq(Calls) /\ Len(Tail(q)) = n - 1
        /\ \A i \in 1..(n - 1) : Tail(q)[i] = q[i + 1]
    BY <1>1, <1>2, <1>3, <2>1, HeadTailProperties
  <2>3. DOMAIN Tail(q) = 1..(n - 1) /\ n - 1 \in Nat
    BY <2>2, LenProperties
  <2>4. m = q[1]
    BY <1>1, <1>2, <1>3
  <2> QED BY <2>1, <2>2, <2>3, <2>4
<1>5. Gone(m) /\ ~ Lost(m) /\ Known(m)
  BY <1>3, <1>4 DEF CallSound, Gone, Known
<1>6. PICK k : k = [create[c] EXCEPT !.pc = "writeDropped", !.makers = create[c].makers,
                                     !.dropped = Tail(q), !.target = m, !.copy = rows[m]]
  OBVIOUS
<1>7. rows[m] \in Rows \cup {NoRow} /\ rows[m].filled \in Nat /\ rows[m].filled <= AppliedTo(m)
  BY <1>4, <1>5, PlacedRow
<1>8. /\ k \in CallRecs /\ AllowedNext(c, k)
      /\ k.pc = "writeDropped" /\ k.copy = rows[m] /\ k.target = m
  <2>1. /\ k \in CallRecs
        /\ k.pc = "writeDropped" /\ k.copy = rows[m] /\ k.target = m /\ k.makers = create[c].makers
        /\ k.req = create[c].req /\ k.fills = create[c].fills /\ k.settled = create[c].settled
        /\ k.dropped = Tail(q) /\ k.rested = create[c].rested
    <3>1. "writeDropped" \in CreatePcs /\ m \in Nat
      BY <1>4 DEF CreatePcs, Calls
    <3> QED BY <1>3, <1>4, <1>6, <1>7, <3>1 DEF CallRecs
  <2>2. UNCHANGED trades
    BY <1>2
  <2>3. \A i \in DOMAIN k.dropped : \E n \in DOMAIN create[c].dropped : k.dropped[i] = create[c].dropped[n]
    <3>1. PICK t : t = Tail(q)
      OBVIOUS
    <3> QED BY <1>4, <2>1, <3>1
  <2>4. k.pc \in {"writeMaker", "writeDropped"} /\ create[c].pc = "apply" /\ k.makers \subseteq create[c].makers
    BY <1>2, <2>1
  <2>5. /\ k.target \in Calls /\ Known(k.target) /\ ~ Lost(k.target) /\ Gone(k.target)
        /\ k.req = create[c].req /\ k.fills = create[c].fills /\ k.settled = create[c].settled
        /\ k.rested = create[c].rested
    BY <1>4, <1>5, <2>1
  <2>6. AllowedNext(c, k)
    BY ONLY Inv, c \in Calls, <2>2, <2>3, <2>4, <2>5, ReadAllowed
  <2> QED BY <2>1, <2>6
<1>9. create' = [create EXCEPT ![c] = k]
  <2>1. k = [create[c] EXCEPT !.pc = "writeDropped", !.dropped = Tail(q), !.target = m, !.copy = rows[m]]
    BY <1>3, <1>6 DEF CallRecs
  <2>2. create \in [Calls -> CallRecs]
    BY DEF Inv, ServiceTypes
  <2> QED BY <1>2, <2>1, <2>2
<1>10. k.copy.filled <= AppliedTo(m)'
  <2>1. AppliedTo(m) \in Nat /\ AppliedTo(m)' \in Nat /\ AppliedTo(m) <= AppliedTo(m)'
    BY <1>2, <1>4, <1>8, <1>9, CallStep DEF Inv
  <2> QED BY SMTT(30), <1>7, <1>8, <2>1
<1>11. k.pc \in {"writeMaker", "writeDropped"} => k.copy.filled <= AppliedTo(k.target)'
  BY <1>8, <1>10 DEF AppliedTo, AppliedFills
<1> QED BY <1>2, <1>8, <1>9, <1>11, OwnStep DEF CreateEnds

LEMMA WriteDroppedInv ==
  ASSUME Inv, NEW c \in Calls, WriteDropped(c)
  PROVE  Inv'
<1>1. PICK m, r : m = create[c].target /\ r = [create[c].copy EXCEPT !.status = "cancelled"]
  OBVIOUS
<1>2. /\ create[c].pc = "writeDropped" /\ Goto(c, "unlockDropped")
      /\ rows' = [rows EXCEPT ![m] = r]
      /\ UNCHANGED <<book, uuid, trades, wallets, cancel, boot, crashes>>
  BY <1>1 DEF WriteDropped
<1>3. create[c] \in CallRecs /\ CallSound(c)
  BY DEF Inv, CallsSound, ServiceTypes
<1>4. m \in Calls /\ Known(m) /\ ~ Lost(m) /\ Gone(m) /\ FillsOf(c) \subseteq trades
  BY <1>1, <1>2, <1>3 DEF CallSound, Applying
<1>5. r \in Rows /\ r.filled = create[c].copy.filled
  BY <1>1, <1>3 DEF CallRecs, Rows, NoRow, Statuses
<1>6. r.filled <= AppliedTo(m)
  BY <1>1, <1>2, <1>5 DEF Inv, AppliedSound
<1>7. ~ IsResting(m)
  BY <1>4, Names DEF Inv
<1>8. PICK k \in CallRecs : /\ AllowedNext(c, k) /\ k.pc = "unlockDropped"
                            /\ create' = [create EXCEPT ![c] = k]
  BY <1>2, <1>4, GotoAllowed DEF Goto, After, Applying
<1>9. create[c].pc \notin CreateEnds \cup {"new"}
  BY <1>2 DEF CreateEnds
<1> QED BY <1>2, <1>4, <1>5, <1>6, <1>7, <1>8, <1>9, WriteStep

LEMMA UnlockDroppedInv ==
  ASSUME Inv, NEW c \in Calls, UnlockDropped(c)
  PROVE  Inv'
<1>1. PICK m : m = create[c].target
  OBVIOUS
<1>2. /\ create[c].pc = "unlockDropped" /\ Goto(c, "apply")
      /\ Unlock(Req(m).user, Spends(Req(m)), LockOf(m, create[c].copy.filled))
      /\ UNCHANGED <<book, uuid, rows, trades, cancel, boot, crashes>>
  BY <1>1 DEF UnlockDropped
<1>3. create[c] \in CallRecs /\ CallSound(c)
  BY DEF Inv, CallsSound, ServiceTypes
<1>4. m \in Calls /\ Known(m) /\ FillsOf(c) \subseteq trades /\ create[c].copy.filled \in Nat
  BY <1>1, <1>2, <1>3, RowFields DEF CallSound, Applying, CallRecs
<1>5. /\ bal' = bal /\ bal' \in [Users -> [Currencies -> Int]]
      /\ locked' \in [Users -> [Currencies -> Nat]]
  <2>1. /\ Req(m).user \in Users /\ Spends(Req(m)) \in Currencies
        /\ LockOf(m, create[c].copy.filled) \in Int
    BY <1>4, Requested, LockOfType
  <2> QED BY <1>2, <2>1, UnlockType
<1>6. PICK k \in CallRecs : /\ AllowedNext(c, k) /\ k.pc = "apply"
                            /\ create' = [create EXCEPT ![c] = k]
  BY <1>2, <1>4, GotoAllowed DEF Goto, After, Applying
<1>7. MoneySum' /\ boot.pc = "up"
  BY <1>2, <1>5, MoneyKept, ActiveIsUp DEF Inv, CreateEnds
<1> QED BY <1>2, <1>5, <1>6, <1>7, CallOnly

LEMMA PayWealth ==
  ASSUME NEW w \in [Users -> [Currencies -> Int]], NEW u \in Users, NEW cur \in Currencies,
         NEW spent \in Int, NEW gained \in Int
  PROVE  /\ Pay(w, u, cur, spent, gained) \in [Users -> [Currencies -> Int]]
         /\ \A x \in Currencies : /\ Wealth(w, x) \in Int
                                  /\ Wealth(Pay(w, u, cur, spent, gained), x) =
                                       Wealth(w, x) + (IF x = cur THEN 0 - spent ELSE gained)
<1>1. PICK v : v = Pay(w, u, cur, spent, gained)
  OBVIOUS
<1>2. \A x \in Currencies : w[u][x] \in Int
  OBVIOUS
<1>3. v = [w EXCEPT ![u] = [x \in Currencies |-> IF x = cur THEN w[u][x] - spent ELSE w[u][x] + gained]]
  BY <1>1 DEF Pay
<1>4. v \in [Users -> [Currencies -> Int]]
  BY <1>2, <1>3
<1>5. /\ \A x \in Currencies : v[u][x] = IF x = cur THEN w[u][x] - spent ELSE w[u][x] + gained
      /\ \A y \in Users : y # u => v[y] = w[y]
  BY <1>3
<1>6. ASSUME NEW x \in Currencies
      PROVE  /\ Wealth(w, x) \in Int
             /\ Wealth(v, x) = Wealth(w, x) + (IF x = cur THEN 0 - spent ELSE gained)
  <2>1. PICK f, g : f = [y \in Users |-> w[y][x]] /\ g = [y \in Users |-> v[y][x]]
    OBVIOUS
  <2>2. \A y \in Users : f[y] \in Int /\ g[y] \in Int
    BY <1>4, <2>1
  <2>3. \A y \in Users \ {u} : f[y] = g[y]
    BY <1>5, <2>1
  <2>4. SumOver(g, Users) = SumOver(f, Users) + (g[u] - f[u])
    BY <2>2, <2>3, SumChange, UsersAssumption
  <2>5. SumOver(f, Users) \in Int
    BY <2>2, SumType, UsersAssumption
  <2>6. g[u] - f[u] = IF x = cur THEN 0 - spent ELSE gained
    <3>1. f[u] = w[u][x] /\ g[u] = v[u][x] /\ f[u] \in Int
      BY <2>1, <2>2
    <3> QED BY <1>5, <3>1
  <2> QED BY <2>1, <2>4, <2>5, <2>6 DEF Wealth
<1> QED BY <1>1, <1>4, <1>6

LEMMA ReleaseType ==
  ASSUME NEW l \in [Users -> [Currencies -> Nat]], NEW u \in Users, NEW cur \in Currencies,
         NEW spent \in Int
  PROVE  Release(l, u, cur, spent) \in [Users -> [Currencies -> Nat]]
<1>1. Floor0(l[u][cur] - spent) \in Nat
  BY SMTT(30) DEF Floor0
<1> QED BY <1>1 DEF Release

LEMMA SettleInv ==
  ASSUME Inv, NEW c \in Calls, Settle(c)
  PROVE  Inv'
<1> DEFINE n == create[c].settled + 1
<1>1. /\ create[c].pc = "settle" /\ UNCHANGED <<book, uuid, rows, trades, cancel, boot, crashes>>
  BY DEF Settle
<1>2. PICK f, m, t : f = create[c].fills[n] /\ m = Req(f.maker) /\ t = Req(c)
  OBVIOUS
<1>3. PICK mOut, tOut : mOut = Cost(m, f.qty, f.price) /\ tOut = Cost(t, f.qty, f.price)
  OBVIOUS
<1>4. create[c] \in CallRecs /\ CallSound(c)
  BY DEF Inv, CallsSound, ServiceTypes
<1>5. /\ create[c].settled \in Nat /\ Len(create[c].fills) \in Nat /\ n <= Len(create[c].fills)
      /\ n \in DOMAIN create[c].fills
  <2>1. create[c].fills \in Seq(Fills) /\ create[c].settled \in Nat
    BY <1>4 DEF CallRecs
  <2>2. Len(create[c].fills) \in Nat /\ DOMAIN create[c].fills = 1..Len(create[c].fills)
    BY <2>1, LenProperties
  <2>3. create[c].settled < Len(create[c].fills)
    BY <1>1, <1>4 DEF CallSound
  <2> QED BY <2>1, <2>2, <2>3
<1>6. FairFill(f) /\ f.taker = c
  <2>1. f \in FillsOf(c)
    BY SMTT(30), <1>2, <1>5 DEF FillsOf, Range
  <2> QED BY <1>4, <2>1 DEF CallSound
<1>7. /\ f.qty \in Nat /\ f.price \in Nat /\ f.maker \in Calls
      /\ m \in NewOrders /\ t \in NewOrders /\ m.side = Opposite(t.side)
  <2>1. f \in Fills /\ f.maker \in Calls /\ Known(f.maker) /\ Known(c)
    BY <1>6 DEF FairFill, Fills
  <2>2. m \in NewOrders /\ t \in NewOrders
    BY <1>2, <2>1, Requested
  <2>3. \A p \in Prices : p \in Nat
    BY PricesAssumption
  <2> QED BY <1>2, <1>6, <2>1, <2>2, <2>3 DEF FairFill, Fills
<1>8. /\ m.user \in Users /\ t.user \in Users
      /\ Spends(m) \in Currencies /\ Spends(t) \in Currencies /\ Spends(m) # Spends(t)
  BY <1>7, NewOrderFields DEF Spends, Currencies, Opposite, Sides
<1>9. mOut \in Int /\ tOut \in Int
  BY <1>3, <1>7, CostType
<1> HIDE DEF n
<1>10. CASE End(c, "failed") /\ UNCHANGED wallets
  BY <1>1, <1>10, EndInv DEF CreateEnds
<1>11. CASE /\ bal' = Pay(Pay(bal, m.user, Spends(m), mOut, tOut), t.user, Spends(t), tOut, mOut)
            /\ locked' = LET l == Release(locked, m.user, Spends(m), mOut)
                         IN IF t.type = "limit" THEN Release(l, t.user, Spends(t), tOut) ELSE l
            /\ create' = [create EXCEPT ![c].settled = n,
                             ![c].pc = IF n = Len(create[c].fills) THEN "save" ELSE "settle"]
  <2>1. /\ bal \in [Users -> [Currencies -> Int]] /\ locked \in [Users -> [Currencies -> Nat]]
        /\ create \in [Calls -> CallRecs]
    BY DEF Inv, ServiceTypes
  <2>2. PICK w : w = Pay(bal, m.user, Spends(m), mOut, tOut)
    OBVIOUS
  <2>3. /\ w \in [Users -> [Currencies -> Int]]
        /\ \A x \in Currencies : /\ Wealth(bal, x) \in Int
                                 /\ Wealth(w, x) = Wealth(bal, x) + (IF x = Spends(m) THEN 0 - mOut ELSE tOut)
    BY <1>8, <1>9, <2>1, <2>2, PayWealth
  <2>4. /\ bal' \in [Users -> [Currencies -> Int]]
        /\ \A x \in Currencies : Wealth(bal', x) = Wealth(w, x) + (IF x = Spends(t) THEN 0 - tOut ELSE mOut)
    <3>1. PICK v : v = Pay(w, t.user, Spends(t), tOut, mOut)
      OBVIOUS
    <3>2. /\ v \in [Users -> [Currencies -> Int]]
          /\ \A x \in Currencies : Wealth(v, x) = Wealth(w, x) + (IF x = Spends(t) THEN 0 - tOut ELSE mOut)
      BY <1>8, <1>9, <2>3, <3>1, PayWealth
    <3>3. bal' = v
      BY <1>11, <2>2, <3>1
    <3> QED BY <3>2, <3>3
  <2>5. \A x \in Currencies : Wealth(bal', x) = Wealth(bal, x)
    <3> TAKE x \in Currencies
    <3>1. x = Spends(m) \/ x = Spends(t)
      BY <1>8 DEF Currencies
    <3> QED BY <1>8, <1>9, <2>3, <2>4, <3>1
  <2>6. MoneySum' /\ boot.pc = "up"
    BY <1>1, <2>5, MoneyKept, ActiveIsUp DEF Inv, CreateEnds
  <2>7. locked' \in [Users -> [Currencies -> Nat]]
    <3>1. PICK l : l = Release(locked, m.user, Spends(m), mOut)
      OBVIOUS
    <3>2. l \in [Users -> [Currencies -> Nat]]
      BY <1>8, <1>9, <2>1, <3>1, ReleaseType
    <3>3. Release(l, t.user, Spends(t), tOut) \in [Users -> [Currencies -> Nat]]
      BY <1>8, <1>9, <3>2, ReleaseType
    <3> QED BY <1>11, <3>1, <3>2, <3>3
  <2>8. PICK q : q = IF n = Len(create[c].fills) THEN "save" ELSE "settle"
    OBVIOUS
  <2>9. PICK k : k = [create[c] EXCEPT !.settled = n, !.pc = q]
    OBVIOUS
  <2>10. create' = [create EXCEPT ![c] = k]
    BY <1>11, <2>1, <2>8, <2>9
  <2>11. n \in Nat /\ q \in CreatePcs
    BY <1>5, <2>8 DEF n, CreatePcs
  <2>12. /\ k \in CallRecs /\ k.pc = q /\ k.settled = n
         /\ k.req = create[c].req /\ k.fills = create[c].fills
         /\ k.makers = create[c].makers /\ k.dropped = create[c].dropped
         /\ k.rested = create[c].rested
    BY <1>4, <2>9, <2>11 DEF CallRecs
  <2>13. AllowedNext(c, k)
    <3>1. k.settled <= Len(k.fills) /\ (k.pc = "settle" => k.settled < Len(k.fills))
      BY <1>5, <2>8, <2>11, <2>12
    <3>2. q \in {"save", "settle"}
      BY <2>8
    <3> QED BY <1>1, <1>4, <2>12, <3>1, <3>2 DEF AllowedNext, CallSound, Before, After, Applying, FillsOf
  <2>14. k.pc \notin {"submit", "writeMaker", "writeDropped"}
    BY <2>8, <2>12
  <2> QED BY <1>1, <2>4, <2>6, <2>7, <2>10, <2>12, <2>13, <2>14, CallOnly
<1> QED BY <1>2, <1>3, <1>10, <1>11 DEF Settle, n

LEMMA WriteTakerInv ==
  ASSUME Inv, NEW c \in Calls, WriteTaker(c)
  PROVE  Inv'
<1> DEFINE fills == create[c].fills
<1>1. PICK filled : filled = SumOf(fills)
  OBVIOUS
<1>2. PICK r : r = [status |-> DeriveStatus(filled, Req(c).qty, create[c].rested), filled |-> filled]
  OBVIOUS
<1>3. /\ create[c].pc = "apply" /\ create[c].makers = {} /\ End(c, "done")
      /\ rows' = [rows EXCEPT ![c] = r]
      /\ UNCHANGED <<book, uuid, trades, wallets, cancel, boot, crashes>>
  BY <1>1, <1>2 DEF WriteTaker
<1>4. create[c] \in CallRecs /\ CallSound(c)
  BY DEF Inv, CallsSound, ServiceTypes
<1>5. fills \in Seq(Fills) /\ create[c].rested \in BOOLEAN
  BY <1>4 DEF CallRecs
<1>6. /\ Known(c) /\ (~ create[c].rested => Gone(c)) /\ ~ Lost(c)
      /\ FillsOf(c) \subseteq trades /\ \A f \in FillsOf(c) : f.taker = c
      /\ \A i, j \in DOMAIN fills : fills[i] = fills[j] => i = j
  BY <1>3, <1>4 DEF CallSound, After, Applying, Lost
<1>7. Req(c).qty \in Nat
  BY <1>6, Requested, NewOrderFields
<1>8. filled \in Nat /\ filled <= AppliedTo(c)
  <2>1. PICK g : g = [i \in DOMAIN fills |-> fills[i].qty]
    OBVIOUS
  <2>2. filled = SumOver(g, DOMAIN fills)
    <3>1. DOMAIN [i \in DOMAIN fills |-> fills[i].qty] = DOMAIN fills
      OBVIOUS
    <3> QED BY <1>1, <2>1, <3>1 DEF SumOf, FoldFunction, SumOver
  <2>3. IsFiniteSet(DOMAIN fills) /\ \A i \in DOMAIN fills : fills[i] \in Fills
    <3>1. PICK n \in Nat : n = Len(fills) /\ DOMAIN fills = 1..n
      BY <1>5, LenProperties
    <3>2. IsFiniteSet(1..n)
      BY FS_Interval
    <3> QED BY <1>5, <3>1, <3>2, ElementOfSeq
  <2>4. \A i \in DOMAIN fills : g[i] = Qty[fills[i]] /\ g[i] \in Int
    BY <2>1, <2>3 DEF Qty, Fills
  <2>5. FillsOf(c) = {fills[i] : i \in DOMAIN fills}
    BY DEF FillsOf, Range
  <2>6. SumOver(g, DOMAIN fills) = SumOver(Qty, {fills[i] : i \in DOMAIN fills})
    <3> HIDE DEF fills
    <3> QED BY <1>6, <2>3, <2>4, SumOfImage
  <2>7. FillsOf(c) \in SUBSET AppliedFills(c) /\ AppliedFills(c) \in SUBSET trades
    BY <1>6 DEF AppliedFills
  <2>8. IsFiniteSet(AppliedFills(c)) /\ AppliedFills(c) \subseteq Fills
    BY <2>7, FS_Subset DEF Inv, ServiceTypes
  <2> QED BY <2>2, <2>5, <2>6, <2>7, <2>8, QtySum DEF AppliedTo
<1>9. /\ r \in Rows /\ r.filled = filled
      /\ r.status = DeriveStatus(filled, Req(c).qty, create[c].rested)
  <2>1. create[c].rested = TRUE \/ create[c].rested = FALSE
    BY <1>5
  <2>2. DeriveStatus(filled, Req(c).qty, create[c].rested) \in Statuses
    BY <1>7, <1>8, <2>1, DerivedOpen
  <2> QED BY <1>2, <1>8, <2>2 DEF Rows
<1>10. IsResting(c) => r.status \in OpenStatuses
  <2>1. ASSUME IsResting(c) PROVE r.status \in OpenStatuses
    <3>1. create[c].rested = TRUE
      BY <1>5, <1>6, <2>1, Names DEF Inv
    <3>2. AppliedTo(c) \in Nat /\ AppliedTo(c) < Req(c).qty
      BY <2>1, RestingLeft
    <3>3. filled < Req(c).qty
      BY <1>7, <1>8, <3>2
    <3> QED BY <1>7, <1>8, <1>9, <3>1, <3>3, DerivedOpen
  <2> QED BY <2>1
<1>11. PICK k : k = Bare("done", Req(c))
  BY SMTT(30)
<1>12. /\ k \in CallRecs /\ AllowedNext(c, k) /\ k.pc = "done"
       /\ create' = [create EXCEPT ![c] = k]
  BY <1>3, <1>11, EndAllowed DEF End, Bare
<1>13. create[c].pc \notin CreateEnds \cup {"new"}
  BY <1>3 DEF CreateEnds
<1> QED BY <1>3, <1>6, <1>8, <1>9, <1>10, <1>12, <1>13, WriteStep

-----------------------------------------------------------------------------
\* CancelOrder but for its call to the engine, and the startup.

LEMMA CallsStay ==
  ASSUME Inv, UNCHANGED <<book, uuid, create, trades>>
  PROVE  /\ BookSound' /\ NamesSound' /\ MatchIsLive' /\ CallsSound' /\ FilledSound'
         /\ UNCHANGED <<orders, resting, taker, result>>
         /\ \A d : /\ Lost(d)' <=> Lost(d)
                   /\ Gone(d)' <=> Gone(d)
                   /\ Known(d)' <=> Known(d)
                   /\ IsResting(d)' <=> IsResting(d)
                   /\ EngineId(d)' = EngineId(d)
                   /\ AppliedTo(d)' = AppliedTo(d)
         /\ Active' = Active
<1>1. UNCHANGED <<orders, resting, taker, result, uuid, create, trades>>
  BY DEF book
<1>2. BookSound'
  BY <1>1 DEF Inv, BookSound, MatchSound, FillSound
<1>3. \A d : /\ Lost(d)' <=> Lost(d)
             /\ Gone(d)' <=> Gone(d)
             /\ Known(d)' <=> Known(d)
             /\ IsResting(d)' <=> IsResting(d)
             /\ EngineId(d)' = EngineId(d)
  BY <1>1 DEF Lost, Gone, Known, IsResting, EngineId
<1>4. \A d : AppliedTo(d)' = AppliedTo(d)
  BY <1>1 DEF AppliedTo, AppliedFills, Qty
<1>5. NamesSound'
  BY <1>1 DEF Inv, NamesSound, Req
<1>6. MatchIsLive'
  BY <1>1 DEF Inv, MatchIsLive, Lost
<1>7. CallsSound'
  BY <1>1 DEF Inv, CallsSound, CallSound, FillsOf, FairFill, Req, Lost, Known, Gone
<1>8. FilledSound'
  <2>1. Booked' = Booked
    BY <1>1 DEF Booked, FillsOf, MatchFills, ByCall
  <2> QED BY <1>1, <2>1 DEF Inv, FilledSound, Of, Qty
<1>9. Active' = Active
  BY <1>1 DEF Active
<1> QED BY <1>1, <1>2, <1>3, <1>4, <1>5, <1>6, <1>7, <1>8, <1>9

\* A cancellation takes a step: its record changes, and perhaps the row.
LEMMA CancelStep ==
  ASSUME Inv, NEW c \in Calls, NEW k \in [pc : CancelPcs, copy : Rows \cup {NoRow}],
         cancel' = [cancel EXCEPT ![c] = k], boot.pc = "up",
         UNCHANGED <<book, uuid, trades, create, boot, crashes>>,
         NEW r \in Rows \cup {NoRow}, rows' = [rows EXCEPT ![c] = r],
         \/ r = rows[c]
         \/ Gone(c) /\ r.status = "cancelled" /\ r.filled <= AppliedTo(c),
         k.pc # "new" => create[c].pc # "new",
         k.pc = "write" => Gone(c),
         k.pc \in {"engine", "write"} => k.copy.filled <= AppliedTo(c),
         bal' \in [Users -> [Currencies -> Int]], locked' \in [Users -> [Currencies -> Nat]],
         bal' = bal
  PROVE  Inv'
<1>1. /\ BookSound' /\ NamesSound' /\ MatchIsLive' /\ CallsSound' /\ FilledSound'
      /\ UNCHANGED <<orders, resting, taker, result>>
      /\ \A d : /\ Lost(d)' <=> Lost(d)
                /\ Gone(d)' <=> Gone(d)
                /\ Known(d)' <=> Known(d)
                /\ IsResting(d)' <=> IsResting(d)
                /\ EngineId(d)' = EngineId(d)
                /\ AppliedTo(d)' = AppliedTo(d)
  BY CallsStay
<1>2. /\ cancel' \in [Calls -> [pc : CancelPcs, copy : Rows \cup {NoRow}]]
      /\ rows' \in [Calls -> Rows \cup {NoRow}]
      /\ rows'[c] = r /\ \A d \in Calls : d # c => rows'[d] = rows[d]
      /\ cancel'[c] = k /\ \A d \in Calls : d # c => cancel'[d] = cancel[d]
  BY DEF Inv, ServiceTypes
<1>3. ServiceTypes'
  <2>1. ServiceTypes
    BY DEF Inv
  <2> QED BY <1>1, <1>2, <2>1 DEF ServiceTypes
<1>4. MoneySum'
  BY MoneyKept DEF Inv
<1>5. Gone(c) => Known(c) /\ ~ IsResting(c) /\ create[c].pc \notin Before \cup {"match"}
  BY Names DEF Inv
<1>6. /\ r # NoRow => create[c].pc # "new"
      /\ EngineId(c) # {} => r # NoRow
      /\ create[c].pc \in {"submit", "match"} => r.status = "pending"
      /\ IsResting(c) => r.status \in OpenStatuses
      /\ Lost(c) => r.status \notin OpenStatuses
      /\ r.filled <= AppliedTo(c)
  <2>1. CASE r = rows[c]
    BY <2>1 DEF Inv, RowsSound, BootSound, AppliedSound
  <2>2. CASE r # rows[c]
    <3>1. Gone(c) /\ r.filled <= AppliedTo(c) /\ r # NoRow
      BY <2>2 DEF NoRow
    <3>2. r.status = "cancelled"
      BY <2>2
    <3> QED BY <1>5, <3>1, <3>2 DEF Before, OpenStatuses
  <2> QED BY <2>1, <2>2
<1>7. RowsSound'
  BY <1>1, <1>2, <1>6 DEF Inv, RowsSound
<1>8. BootSound'
  BY <1>1, <1>2, <1>6 DEF Inv, BootSound
<1>9. AppliedSound'
  <2>1. \A d \in Calls : /\ rows'[d].filled <= AppliedTo(d)'
                         /\ cancel'[d].pc \in {"engine", "write"} =>
                               cancel'[d].copy.filled <= AppliedTo(d)'
    BY <1>1, <1>2, <1>6 DEF Inv, AppliedSound
  <2>2. \A d \in Calls : create'[d].pc \in {"writeMaker", "writeDropped"} =>
           create'[d].copy.filled <= AppliedTo(create[d].target)'
    <3> TAKE d \in Calls
    <3>1. PICK t : t = create[d].target
      OBVIOUS
    <3>2. create'[d].pc \in {"writeMaker", "writeDropped"} => create'[d].copy.filled <= AppliedTo(t)'
      BY <1>1, <3>1 DEF Inv, AppliedSound
    <3> QED BY <3>1, <3>2 DEF AppliedTo, AppliedFills
  <2> QED BY <2>1, <2>2 DEF AppliedSound
<1> QED BY <1>1, <1>3, <1>4, <1>7, <1>8, <1>9 DEF Inv

LEMMA FindForCancelInv ==
  ASSUME Inv, NEW c \in Calls, FindForCancel(c)
  PROVE  Inv'
<1>1. PICK k : k = [pc |-> "engine", copy |-> rows[c]]
  OBVIOUS
<1>2. /\ boot.pc = "up" /\ rows[c].status \in OpenStatuses
      /\ cancel' = [cancel EXCEPT ![c] = k]
      /\ UNCHANGED <<book, uuid, rows, trades, wallets, create, boot, crashes>>
  BY <1>1 DEF FindForCancel, MayStart
<1>3. /\ rows[c] \in Rows \cup {NoRow} /\ rows' = [rows EXCEPT ![c] = rows[c]]
      /\ rows[c] # NoRow /\ rows[c].filled <= AppliedTo(c)
  BY <1>2 DEF Inv, ServiceTypes, NoRow, OpenStatuses, AppliedSound
<1>4. /\ k \in [pc : CancelPcs, copy : Rows \cup {NoRow}] /\ k.pc = "engine" /\ k.copy = rows[c]
  BY <1>1, <1>3 DEF CancelPcs
<1>5. create[c].pc # "new"
  BY <1>3 DEF Inv, RowsSound
<1>6. /\ bal' = bal /\ bal' \in [Users -> [Currencies -> Int]]
      /\ locked' \in [Users -> [Currencies -> Nat]]
  BY <1>2 DEF wallets, Inv, ServiceTypes
<1> QED BY ZenonT(40), <1>2, <1>3, <1>4, <1>5, <1>6, CancelStep

LEMMA WriteCancelInv ==
  ASSUME Inv, NEW c \in Calls, WriteCancel(c)
  PROVE  Inv'
<1>1. /\ cancel[c].pc = "write" /\ UNCHANGED <<book, uuid, trades, wallets, create, boot, crashes>>
  BY DEF WriteCancel
<1>2. /\ cancel[c] \in [pc : CancelPcs, copy : Rows \cup {NoRow}] /\ boot.pc = "up"
      /\ create[c].pc # "new" /\ Gone(c) /\ cancel[c].copy.filled <= AppliedTo(c)
      /\ rows[c] \in Rows \cup {NoRow}
  BY <1>1 DEF Inv, ServiceTypes, BootSound, Cancelling, RowsSound, AppliedSound
<1>3. /\ bal' = bal /\ bal' \in [Users -> [Currencies -> Int]]
      /\ locked' \in [Users -> [Currencies -> Nat]]
  BY <1>1 DEF wallets, Inv, ServiceTypes
<1>4. CASE /\ rows' = [rows EXCEPT ![c] = [cancel[c].copy EXCEPT !.status = "cancelled"]]
           /\ cancel' = [cancel EXCEPT ![c].pc = "unlock"]
  <2>1. PICK r, k : r = [cancel[c].copy EXCEPT !.status = "cancelled"] /\ k = [cancel[c] EXCEPT !.pc = "unlock"]
    OBVIOUS
  <2>2. r \in Rows /\ r.status = "cancelled" /\ r.filled = cancel[c].copy.filled
    BY <1>2, <2>1 DEF Rows, NoRow, Statuses
  <2>3. /\ k \in [pc : CancelPcs, copy : Rows \cup {NoRow}] /\ k.pc = "unlock"
        /\ cancel' = [cancel EXCEPT ![c] = k]
    BY <1>2, <1>4, <2>1 DEF CancelPcs, Inv, ServiceTypes
  <2> QED BY <1>1, <1>2, <1>3, <1>4, <2>1, <2>2, <2>3, CancelStep
<1>5. CASE cancel' = [cancel EXCEPT ![c].pc = "failed"] /\ UNCHANGED rows
  <2>1. PICK k : k = [cancel[c] EXCEPT !.pc = "failed"]
    OBVIOUS
  <2>2. /\ k \in [pc : CancelPcs, copy : Rows \cup {NoRow}] /\ k.pc = "failed"
        /\ cancel' = [cancel EXCEPT ![c] = k]
    BY <1>2, <1>5, <2>1 DEF CancelPcs, Inv, ServiceTypes
  <2>3. rows' = [rows EXCEPT ![c] = rows[c]]
    BY <1>5 DEF Inv, ServiceTypes
  <2> QED BY <1>1, <1>2, <1>3, <2>2, <2>3, CancelStep
<1> QED BY <1>4, <1>5 DEF WriteCancel

LEMMA UnlockCancelInv ==
  ASSUME Inv, NEW c \in Calls, UnlockCancel(c)
  PROVE  Inv'
<1>1. /\ cancel[c].pc = "unlock"
      /\ \/ /\ Unlock(Req(c).user, Spends(Req(c)), LockOf(c, cancel[c].copy.filled))
            /\ cancel' = [cancel EXCEPT ![c].pc = "done"]
         \/ /\ UNCHANGED wallets
            /\ cancel' = [cancel EXCEPT ![c].pc = "failed"]
      /\ UNCHANGED <<book, uuid, rows, trades, create, boot, crashes>>
  BY DEF UnlockCancel
<1>2. /\ cancel[c] \in [pc : CancelPcs, copy : Rows \cup {NoRow}] /\ boot.pc = "up"
      /\ create[c].pc # "new" /\ rows[c] \in Rows \cup {NoRow}
      /\ rows' = [rows EXCEPT ![c] = rows[c]]
  BY <1>1 DEF Inv, ServiceTypes, BootSound, Cancelling, RowsSound
<1>3. Req(c) \in NewOrders /\ cancel[c].copy.filled \in Nat
  BY <1>2, Requested, RowFields
<1>4. /\ bal' = bal /\ bal' \in [Users -> [Currencies -> Int]]
      /\ locked' \in [Users -> [Currencies -> Nat]]
  <2>1. /\ Req(c).user \in Users /\ Spends(Req(c)) \in Currencies
        /\ LockOf(c, cancel[c].copy.filled) \in Int
    BY <1>3, LockOfType
  <2>2. CASE Unlock(Req(c).user, Spends(Req(c)), LockOf(c, cancel[c].copy.filled))
    BY <2>1, <2>2, UnlockType
  <2>3. CASE UNCHANGED wallets
    BY <2>3 DEF wallets, Inv, ServiceTypes
  <2> QED BY <1>1, <2>2, <2>3
<1>5. PICK pc \in {"done", "failed"} : cancel' = [cancel EXCEPT ![c].pc = pc]
  BY <1>1
<1>5a. PICK k : k = [cancel[c] EXCEPT !.pc = pc]
  OBVIOUS
<1>6. /\ k \in [pc : CancelPcs, copy : Rows \cup {NoRow}] /\ k.pc \in {"done", "failed"}
      /\ cancel' = [cancel EXCEPT ![c] = k]
  BY <1>2, <1>5, <1>5a DEF CancelPcs, Inv, ServiceTypes
<1>7. PICK r \in Rows \cup {NoRow} : r = rows[c] /\ rows' = [rows EXCEPT ![c] = r]
  BY <1>2
<1>8. /\ k.pc = "write" => Gone(c)
      /\ k.pc \in {"engine", "write"} => k.copy.filled <= AppliedTo(c)
      /\ k.pc # "new" => create[c].pc # "new"
  BY <1>2, <1>6
<1>9. UNCHANGED <<book, uuid, trades, create, boot, crashes>> /\ boot.pc = "up"
  BY <1>1, <1>2
<1> QED BY ONLY Inv, c \in Calls, <1>4, <1>6, <1>7, <1>8, <1>9, CancelStep

\* A step of the startup: its record changes, and perhaps the locks or a row.
LEMMA StartupStep ==
  ASSUME Inv, boot.pc # "up", UNCHANGED <<book, uuid, trades, create, cancel, crashes>>,
         boot' \in [pc : {"up", "list", "next", "close"}, open : SUBSET Calls, at : Nat],
         NEW c \in Calls, NEW r \in Rows \cup {NoRow}, rows' = [rows EXCEPT ![c] = r],
         \/ r = rows[c]
         \/ rows[c] # NoRow /\ r.status = "cancelled" /\ r.filled = rows[c].filled,
         bal' = bal, locked' \in [Users -> [Currencies -> Nat]],
         boot'.pc # "up" /\ boot'.pc # "list" =>
            \A d \in Calls : rows'[d].status \in OpenStatuses <=> d \in boot'.open,
         boot'.pc = "close" => boot'.at \in boot'.open,
         boot'.pc = "up" => \A d \in Calls : rows'[d].status \notin OpenStatuses
  PROVE  Inv'
<1>1. /\ BookSound' /\ NamesSound' /\ MatchIsLive' /\ CallsSound' /\ FilledSound'
      /\ UNCHANGED <<orders, resting, taker, result>>
      /\ \A d : /\ Lost(d)' <=> Lost(d)
                /\ Gone(d)' <=> Gone(d)
                /\ Known(d)' <=> Known(d)
                /\ IsResting(d)' <=> IsResting(d)
                /\ EngineId(d)' = EngineId(d)
                /\ AppliedTo(d)' = AppliedTo(d)
      /\ Active' = Active
  BY CallsStay
<1>2. /\ rows' \in [Calls -> Rows \cup {NoRow}]
      /\ rows'[c] = r /\ \A d \in Calls : d # c => rows'[d] = rows[d]
  BY DEF Inv, ServiceTypes
<1>3. resting = {} /\ taker = NoOrder /\ Active = {} /\ Cancelling = {}
  BY DEF Inv, BootSound
<1>4. ServiceTypes'
  <2>1. ServiceTypes
    BY DEF Inv
  <2> QED BY <1>1, <1>2, <2>1 DEF ServiceTypes
<1>5. MoneySum'
  BY MoneyKept DEF Inv
<1>6. \A d \in Calls : create[d].pc \notin {"submit", "match"} /\ ~ IsResting(d)
  BY <1>3 DEF Active, CreateEnds, IsResting
<1>7. (r # NoRow => rows[c] # NoRow) /\ (r = NoRow => rows[c] = NoRow)
  BY DEF NoRow
<1>8. RowsSound'
  BY <1>1, <1>2, <1>6, <1>7 DEF Inv, RowsSound
<1>9. BootSound'
  <2>1. Cancelling' = Cancelling
    BY DEF Cancelling
  <2> QED BY <1>1, <1>3, <2>1 DEF BootSound
<1>10. AppliedSound'
  <2>1. \A d \in Calls : /\ rows'[d].filled <= AppliedTo(d)'
                         /\ cancel'[d].pc \in {"engine", "write"} =>
                               cancel'[d].copy.filled <= AppliedTo(d)'
    BY <1>1, <1>2 DEF Inv, AppliedSound
  <2>2. \A d \in Calls : create'[d].pc \in {"writeMaker", "writeDropped"} =>
           create'[d].copy.filled <= AppliedTo(create[d].target)'
    BY <1>3 DEF Active, CreateEnds
  <2> QED BY <2>1, <2>2 DEF AppliedSound
<1> QED BY <1>1, <1>4, <1>5, <1>8, <1>9, <1>10 DEF Inv

LEMMA BootFields ==
  ASSUME Inv
  PROVE  /\ boot \in [pc : {"up", "list", "next", "close"}, open : SUBSET Calls, at : Nat]
         /\ bal \in [Users -> [Currencies -> Int]] /\ locked \in [Users -> [Currencies -> Nat]]
         /\ rows \in [Calls -> Rows \cup {NoRow}]
BY DEF Inv, ServiceTypes

\* Nothing was ever placed where there are no calls to place.
LEMMA StartupInv ==
  ASSUME Inv, ListOpen \/ Serve
  PROVE  Inv'
<1>1. /\ UNCHANGED <<book, uuid, rows, trades, wallets, create, cancel, crashes>>
      /\ boot.pc # "up"
      /\ boot' \in [pc : {"up", "list", "next", "close"}, open : SUBSET Calls, at : Nat]
      /\ boot'.pc = "next" => \A d \in Calls : rows[d].status \in OpenStatuses <=> d \in boot'.open
      /\ boot'.pc = "up" => \A d \in Calls : rows[d].status \notin OpenStatuses
      /\ boot'.pc \in {"next", "up"}
  <2>1. CASE ListOpen
    <3>1. PICK o \in SUBSET Calls : o = {d \in Calls : rows[d].status \in OpenStatuses}
      OBVIOUS
    <3> QED BY <2>1, <3>1 DEF ListOpen
  <2>2. CASE Serve
    <3>1. boot'.pc = "up" /\ boot' \in [pc : {"up", "list", "next", "close"}, open : SUBSET Calls, at : Nat]
      BY <2>2, BootFields DEF Serve
    <3>2. \A d \in Calls : rows[d].status \notin OpenStatuses
      BY <2>2 DEF Serve, Inv, BootSound
    <3> QED BY <2>2, <3>1, <3>2 DEF Serve
  <2> QED BY <2>1, <2>2
<1>2. bal' = bal /\ locked' \in [Users -> [Currencies -> Nat]] /\ rows' = rows
  BY <1>1, BootFields DEF wallets
<1>3. CASE Calls # {}
  <2>1. PICK c \in Calls : TRUE
    BY <1>3
  <2>2. PICK r \in Rows \cup {NoRow} : r = rows[c] /\ rows' = [rows EXCEPT ![c] = r]
    BY <1>1, BootFields
  <2> QED BY <1>1, <1>2, <2>2, StartupStep
<1>4. CASE Calls = {}
  <2>1. /\ BookSound' /\ NamesSound' /\ MatchIsLive' /\ CallsSound' /\ FilledSound'
        /\ UNCHANGED <<orders, resting, taker, result>> /\ Active' = Active
    BY <1>1, CallsStay
  <2>2. ServiceTypes'
    BY <1>1, <1>2, <2>1, BootFields DEF Inv, ServiceTypes
  <2>3. MoneySum'
    BY <1>2, MoneyKept DEF Inv
  <2>4. RowsSound' /\ AppliedSound'
    BY <1>4 DEF RowsSound, AppliedSound, Calls
  <2>5. Cancelling' = Cancelling
    BY <1>1 DEF Cancelling
  <2>6. BootSound'
    BY <1>1, <1>4, <2>1, <2>5 DEF Inv, BootSound, Calls
  <2> QED BY <2>1, <2>2, <2>3, <2>4, <2>6 DEF Inv
<1> QED BY <1>3, <1>4

LEMMA CleanUnlockInv ==
  ASSUME Inv, NEW c \in Calls, CleanUnlock(c)
  PROVE  Inv'
<1>1. /\ boot.pc = "next" /\ c \in boot.open
      /\ boot' = [boot EXCEPT !.pc = "close", !.at = c]
      /\ UNCHANGED <<book, uuid, rows, trades, create, cancel, crashes>>
      /\ \/ Unlock(Req(c).user, Spends(Req(c)), LockOf(c, rows[c].filled))
         \/ UNCHANGED wallets
  BY DEF CleanUnlock
<1>2. \A d \in Calls : rows[d].status \in OpenStatuses <=> d \in boot.open
  BY <1>1 DEF Inv, BootSound
<1>3. rows[c] \in Rows /\ rows[c].filled \in Nat /\ create[c].pc # "new"
  <2>1. rows[c] # NoRow
    BY <1>1, <1>2 DEF NoRow, OpenStatuses
  <2> QED BY <2>1, BootFields, RowFields DEF Inv, RowsSound
<1>4. bal' = bal /\ locked' \in [Users -> [Currencies -> Nat]]
  <2>1. /\ Req(c).user \in Users /\ Spends(Req(c)) \in Currencies
        /\ LockOf(c, rows[c].filled) \in Int
    BY <1>3, Requested, LockOfType
  <2>2. CASE Unlock(Req(c).user, Spends(Req(c)), LockOf(c, rows[c].filled))
    BY <2>1, <2>2, UnlockType
  <2>3. CASE UNCHANGED wallets
    BY <2>3, BootFields DEF wallets
  <2> QED BY <1>1, <2>2, <2>3
<1>5. /\ boot' \in [pc : {"up", "list", "next", "close"}, open : SUBSET Calls, at : Nat]
      /\ boot'.pc = "close" /\ boot'.at = c /\ boot'.open = boot.open
  <2>1. c \in Nat
    BY DEF Calls
  <2> QED BY <1>1, <2>1, BootFields
<1>6. PICK r \in Rows \cup {NoRow} : r = rows[c] /\ rows' = [rows EXCEPT ![c] = r]
  BY <1>1, BootFields
<1>7. /\ \A d \in Calls : rows'[d].status \in OpenStatuses <=> d \in boot'.open
      /\ boot'.at \in boot'.open /\ boot'.pc # "up" /\ boot.pc # "up"
  BY <1>1, <1>2, <1>5
<1> QED BY <1>1, <1>4, <1>5, <1>6, <1>7, StartupStep

LEMMA CleanCloseInv ==
  ASSUME Inv, CleanClose
  PROVE  Inv'
<1>1. PICK c : c = boot.at
  OBVIOUS
<1>2. /\ boot.pc = "close" /\ rows' = [rows EXCEPT ![c].status = "cancelled"]
      /\ boot' = [boot EXCEPT !.pc = "next", !.open = @ \ {c}]
      /\ UNCHANGED <<book, uuid, trades, wallets, create, cancel, crashes>>
  BY <1>1 DEF CleanClose
<1>3. /\ \A d \in Calls : rows[d].status \in OpenStatuses <=> d \in boot.open
      /\ c \in boot.open
  BY <1>1, <1>2 DEF Inv, BootSound
<1>4. c \in Calls
  BY <1>3, BootFields
<1>5. rows[c] \in Rows /\ rows[c] # NoRow
  <2>1. rows[c] # NoRow
    BY <1>3, <1>4 DEF NoRow, OpenStatuses
  <2> QED BY <1>4, <2>1, BootFields
<1>6. PICK r : r = [rows[c] EXCEPT !.status = "cancelled"]
  OBVIOUS
<1>7. /\ r \in Rows /\ r.status = "cancelled" /\ r.filled = rows[c].filled
      /\ rows' = [rows EXCEPT ![c] = r]
  BY <1>2, <1>4, <1>5, <1>6, BootFields DEF Rows, Statuses
<1>8. /\ boot' \in [pc : {"up", "list", "next", "close"}, open : SUBSET Calls, at : Nat]
      /\ boot'.pc = "next" /\ boot'.open = boot.open \ {c}
  BY <1>2, BootFields
<1>9. \A d \in Calls : rows'[d].status \in OpenStatuses <=> d \in boot'.open
  BY <1>3, <1>4, <1>7, <1>8, BootFields DEF OpenStatuses
<1>10. bal' = bal /\ locked' \in [Users -> [Currencies -> Nat]]
  BY <1>2, BootFields DEF wallets
<1>11. boot.pc # "up" /\ boot'.pc # "close" /\ boot'.pc # "up"
  BY <1>2, <1>8
<1> QED BY <1>2, <1>4, <1>5, <1>7, <1>8, <1>9, <1>10, <1>11, StartupStep

-----------------------------------------------------------------------------
\* The engine.

\* The running match or a withdrawal: orders are filled or taken off the book,
\* nobody is placed.
LEMMA BookMoves ==
  ASSUME Inv, BookSound', MatchIsLive', FilledSound',
         UNCHANGED <<uuid, create, trades, taker, rows, wallets, boot, crashes>>,
         resting' \subseteq resting, Len(orders') = Len(orders),
         \A k \in 1..Len(orders) : /\ orders'[k].user = orders[k].user
                                   /\ orders'[k].side = orders[k].side
                                   /\ orders'[k].type = orders[k].type
                                   /\ orders'[k].price = orders[k].price
                                   /\ orders'[k].qty = orders[k].qty,
         boot.pc = "up",
         NEW c \in Calls, NEW k \in [pc : CancelPcs, copy : Rows \cup {NoRow}],
         cancel' = [cancel EXCEPT ![c] = k],
         k.pc # "new" => create[c].pc # "new",
         k.pc = "write" => Gone(c)',
         k.pc \in {"engine", "write"} => k.copy.filled <= AppliedTo(c)
  PROVE  Inv'
<1>1. \A d : /\ Lost(d)' <=> Lost(d)
             /\ Known(d)' <=> Known(d)
             /\ Gone(d) => Gone(d)'
             /\ IsResting(d)' => IsResting(d)
             /\ EngineId(d)' = EngineId(d)
             /\ AppliedTo(d)' = AppliedTo(d)
  <2> TAKE d
  <2>1. (Lost(d)' <=> Lost(d)) /\ (Known(d)' <=> Known(d))
    BY DEF Lost, Known
  <2>2. (Gone(d) => Gone(d)') /\ (IsResting(d)' => IsResting(d)) /\ EngineId(d)' = EngineId(d)
    BY DEF Gone, IsResting, EngineId
  <2>3. AppliedTo(d)' = AppliedTo(d)
    BY DEF AppliedTo, AppliedFills, Qty
  <2> QED BY <2>1, <2>2, <2>3
<1>2. NamesSound'
  <2>1. DOMAIN uuid = 1..Len(orders)
    BY Names DEF Inv
  <2> QED BY <2>1 DEF Inv, NamesSound, Req
<1>3. CallsSound'
  <2>1. ASSUME NEW d \in Calls PROVE CallSound(d)'
    <3>1. CallSound(d) /\ create'[d] = create[d] /\ create[d] \in CallRecs
      BY DEF Inv, CallsSound, ServiceTypes
    <3> QED BY <1>1, <3>1, OtherCalls
  <2>2. \A f \in trades' : FairFill(f)'
    BY <1>1 DEF Inv, CallsSound, FairFill, Req
  <2> QED BY <2>1, <2>2 DEF CallsSound
<1>4. ServiceTypes'
  <2>1. ServiceTypes
    BY DEF Inv
  <2>2. cancel' \in [Calls -> [pc : CancelPcs, copy : Rows \cup {NoRow}]]
    BY <2>1 DEF ServiceTypes
  <2> QED BY <2>1, <2>2 DEF ServiceTypes, wallets
<1>5. cancel'[c] = k /\ \A d \in Calls : d # c => cancel'[d] = cancel[d]
  BY DEF Inv, ServiceTypes
<1>6. RowsSound'
  BY <1>1, <1>5 DEF Inv, RowsSound
<1>7. BootSound'
  BY <1>1 DEF Inv, BootSound
<1>8. AppliedSound'
  <2>1. \A d \in Calls : /\ rows'[d].filled <= AppliedTo(d)'
                         /\ cancel'[d].pc \in {"engine", "write"} =>
                               cancel'[d].copy.filled <= AppliedTo(d)'
    BY <1>1, <1>5 DEF Inv, AppliedSound
  <2>2. \A d \in Calls : create'[d].pc \in {"writeMaker", "writeDropped"} =>
           create'[d].copy.filled <= AppliedTo(create[d].target)'
    <3> TAKE d \in Calls
    <3>1. PICK t : t = create[d].target
      OBVIOUS
    <3>2. create'[d].pc \in {"writeMaker", "writeDropped"} => create'[d].copy.filled <= AppliedTo(t)'
      BY <1>1, <3>1 DEF Inv, AppliedSound
    <3> QED BY <3>1, <3>2 DEF AppliedTo, AppliedFills
  <2> QED BY <2>1, <2>2 DEF AppliedSound
<1>9. MoneySum'
  BY MoneyKept DEF Inv, wallets
<1> QED BY <1>2, <1>3, <1>4, <1>6, <1>7, <1>8, <1>9 DEF Inv

\* Nothing is filled.
LEMMA FilledStays ==
  ASSUME FilledSound, UNCHANGED <<orders, uuid, create, trades, taker>>,
         taker # NoOrder => result'.trades = result.trades
  PROVE  FilledSound'
<1>1. MatchFills' = MatchFills
  BY DEF MatchFills, ByCall
<1>2. Booked' = Booked
  BY <1>1 DEF Booked, FillsOf
<1> QED BY <1>2 DEF FilledSound, Of, Qty

LEMMA EngineCancelInv ==
  ASSUME Inv, NEW c \in Calls, EngineCancel(c)
  PROVE  Inv'
<1>1. /\ cancel[c].pc = "engine" /\ taker = NoOrder
      /\ UNCHANGED <<uuid, rows, trades, wallets, create, boot, crashes>>
  BY DEF EngineCancel
<1>2. /\ cancel[c] \in [pc : CancelPcs, copy : Rows \cup {NoRow}] /\ boot.pc = "up"
      /\ create[c].pc # "new" /\ cancel[c].copy.filled <= AppliedTo(c)
  BY <1>1 DEF Inv, ServiceTypes, BootSound, Cancelling, RowsSound, AppliedSound
<1>3. CASE /\ \E id \in resting : uuid[id] = c /\ Book!Withdraw(id)
           /\ cancel' = [cancel EXCEPT ![c].pc = "write"]
  <2>1. PICK id \in resting : uuid[id] = c /\ Book!Withdraw(id)
    BY <1>3
  <2>2. /\ BookSound' /\ resting' = resting \ {id} /\ UNCHANGED <<orders, taker, result>>
    BY <2>1, WithdrawSound DEF Inv
  <2>3. id \in DOMAIN uuid /\ id # taker
    BY Names DEF Inv, BookSound
  <2>4. PICK k : k = [cancel[c] EXCEPT !.pc = "write"]
    OBVIOUS
  <2>5. /\ k \in [pc : CancelPcs, copy : Rows \cup {NoRow}] /\ k.pc = "write"
        /\ k.copy = cancel[c].copy /\ cancel' = [cancel EXCEPT ![c] = k]
    BY <1>2, <1>3, <2>4 DEF CancelPcs, Inv, ServiceTypes
  <2>6. Gone(c)'
    BY <1>1, <2>1, <2>2, <2>3 DEF Gone
  <2>7. MatchIsLive'
    BY <1>1, <2>2 DEF Inv, MatchIsLive, Lost
  <2>8. FilledSound'
    BY <1>1, <2>2, FilledStays DEF Inv
  <2>9. /\ UNCHANGED <<uuid, create, trades, taker, rows, wallets, boot, crashes>>
        /\ resting' \subseteq resting /\ orders' = orders /\ boot.pc = "up"
        /\ create[c].pc # "new" /\ k.copy.filled <= AppliedTo(c)
    BY <1>1, <1>2, <2>2, <2>5
  <2> QED BY ONLY Inv, c \in Calls, <2>2, <2>5, <2>6, <2>7, <2>8, <2>9, BookMoves
<1>4. CASE cancel' = [cancel EXCEPT ![c] = NewCancel] /\ UNCHANGED book
  <2>1. PICK k : k = NewCancel
    OBVIOUS
  <2>2. k \in [pc : CancelPcs, copy : Rows \cup {NoRow}] /\ k.pc = "new"
    BY <2>1 DEF NewCancel, CancelPcs
  <2>3. PICK r \in Rows \cup {NoRow} : r = rows[c] /\ rows' = [rows EXCEPT ![c] = r]
    BY <1>1, BootFields
  <2>4. /\ bal' = bal /\ bal' \in [Users -> [Currencies -> Int]]
        /\ locked' \in [Users -> [Currencies -> Nat]]
    BY <1>1, BootFields DEF wallets
  <2> QED BY <1>1, <1>2, <1>4, <2>1, <2>2, <2>3, <2>4, CancelStep
<1> QED BY <1>3, <1>4 DEF EngineCancel

LEMMA MatchInv ==
  ASSUME Inv, NEW c \in Calls, Match(c)
  PROVE  Inv'
<1>1. /\ create[c].pc = "match" /\ taker # NoOrder /\ uuid[taker] = c
      /\ UNCHANGED <<uuid, rows, trades, wallets, create, cancel, boot, crashes>>
  BY DEF Match, Holds
<1>2. boot.pc = "up"
  BY <1>1, ActiveIsUp DEF Inv, CreateEnds
<1>3. PICK m \in resting : Book!CancelOwnMaker(m) \/ Book!Execute(m)
  BY DEF Match
<1>4. /\ DOMAIN uuid = 1..Len(orders) /\ m \in DOMAIN uuid /\ taker \in DOMAIN uuid
      /\ uuid[m] \in Calls /\ ~ Lost(uuid[m])
  BY <1>1, Names DEF Inv, BookSound, MatchIsLive
<1>5. PICK k \in [pc : CancelPcs, copy : Rows \cup {NoRow}] : k = cancel[c]
  BY DEF Inv, ServiceTypes
<1>6. /\ cancel' = [cancel EXCEPT ![c] = k]
      /\ k.pc # "new" => create[c].pc # "new"
      /\ k.pc = "write" => Gone(c)
      /\ k.pc \in {"engine", "write"} => k.copy.filled <= AppliedTo(c)
  BY <1>1, <1>5 DEF Inv, ServiceTypes, RowsSound, AppliedSound
<1>7. k.pc # "write"
  BY <1>1, <1>6, Names DEF Inv
<1>8. CASE Book!CancelOwnMaker(m)
  <2>1. /\ BookSound'
        /\ resting' = resting \ {m} /\ orders' = orders /\ taker' = taker
        /\ result'.trades = result.trades
        /\ \A i \in DOMAIN result'.canceled :
              result'.canceled[i] \in {result.canceled[j] : j \in DOMAIN result.canceled} \cup {m}
    BY <1>8, CancelOwnMakerSound DEF Inv
  <2>2. MatchIsLive'
    <3>1. \A id \in resting' : ~ Lost(uuid[id])
      BY <2>1 DEF Inv, MatchIsLive
    <3>2. \A i \in DOMAIN result'.trades : ~ Lost(uuid[result'.trades[i].maker])
      BY <1>1, <2>1 DEF Inv, MatchIsLive
    <3>3. \A i \in DOMAIN result'.canceled : ~ Lost(uuid[result'.canceled[i]])
      BY <1>1, <1>4, <2>1 DEF Inv, MatchIsLive
    <3> QED BY <1>1, <2>1, <3>1, <3>2, <3>3 DEF MatchIsLive, Lost
  <2>3. FilledSound'
    BY <1>1, <2>1, FilledStays DEF Inv
  <2>4. resting' \subseteq resting
    BY <2>1
  <2> QED BY ONLY Inv, c \in Calls, <1>1, <1>2, <1>5, <1>6, <1>7, <2>1, <2>2, <2>3, <2>4, BookMoves
<1>9. CASE Book!Execute(m)
  <2>1. PICK qty \in Nat :
         /\ BookSound'
         /\ resting' \subseteq resting /\ taker' = taker /\ m # taker
         /\ Len(orders') = Len(orders)
         /\ \A j \in 1..Len(orders) :
               orders'[j] = [orders[j] EXCEPT !.filled = IF j \in {taker, m} THEN @ + qty ELSE @]
         /\ result' = [result EXCEPT !.trades = Append(@, Trade(m, taker, orders[m].price, qty))]
         /\ orders[m].price \in Prices
    BY <1>9, ExecuteSound DEF Inv
  <2>2. \A j \in 1..Len(orders) :
          /\ orders'[j].user = orders[j].user /\ orders'[j].side = orders[j].side
          /\ orders'[j].type = orders[j].type /\ orders'[j].price = orders[j].price
          /\ orders'[j].qty = orders[j].qty
          /\ orders[j].filled \in Nat
          /\ orders'[j].filled = orders[j].filled + (IF j \in {taker, m} THEN qty ELSE 0)
    <3> TAKE j \in 1..Len(orders)
    <3>1. orders[j] \in Orders /\ orders[j].filled \in Nat
      BY OrderFields DEF Inv, BookSound
    <3>2. orders'[j] = [orders[j] EXCEPT !.filled = orders[j].filled + (IF j \in {taker, m} THEN qty ELSE 0)]
      BY <2>1, <3>1
    <3> QED BY <3>1, <3>2 DEF Orders
  <2>3. PICK t : t = Trade(m, taker, orders[m].price, qty)
    OBVIOUS
  <2>4. t \in Trades /\ t.maker = m /\ t.qty = qty /\ t.price = orders[m].price
    <3>1. m \in Nat /\ taker \in Nat
      BY <1>4
    <3> QED BY <2>1, <2>3, <3>1 DEF Trade, Trades
  <2>5. /\ result'.trades = Append(result.trades, t) /\ result'.canceled = result.canceled
        /\ result.trades \in Seq(Trades)
    BY <2>1, <2>3 DEF Inv, BookSound, Results
  <2>6. PICK n \in Nat :
          /\ DOMAIN result.trades = 1..n /\ DOMAIN result'.trades = 1..(n + 1)
          /\ \A i \in 1..n : result'.trades[i] = result.trades[i]
          /\ result'.trades[n + 1] = t
    <3>1. PICK n \in Nat : n = Len(result.trades) /\ DOMAIN result.trades = 1..n
      BY <2>5, LenProperties
    <3>2. /\ Append(result.trades, t) \in Seq(Trades) /\ Len(Append(result.trades, t)) = n + 1
          /\ \A i \in 1..n : Append(result.trades, t)[i] = result.trades[i]
          /\ Append(result.trades, t)[n + 1] = t
      BY <2>4, <2>5, <3>1, AppendProperties
    <3>3. DOMAIN Append(result.trades, t) = 1..(n + 1)
      BY <3>2, LenProperties
    <3> QED BY <2>5, <3>1, <3>2, <3>3
  <2>7. 1..(n + 1) = (1..n) \cup {n + 1}
    OBVIOUS
  <2>8. MatchIsLive'
    <3>1. \A id \in resting' : ~ Lost(uuid[id])
      BY <2>1 DEF Inv, MatchIsLive
    <3>2. \A i \in DOMAIN result'.trades : ~ Lost(uuid[result'.trades[i].maker])
      BY <1>1, <1>4, <2>4, <2>6, <2>7 DEF Inv, MatchIsLive
    <3>3. \A i \in DOMAIN result'.canceled : ~ Lost(uuid[result'.canceled[i]])
      BY <1>1, <2>5 DEF Inv, MatchIsLive
    <3> QED BY <1>1, <2>1, <3>1, <3>2, <3>3 DEF MatchIsLive, Lost
  <2>9. FilledSound'
    <3>1. PICK f : f = ByCall(t)
      OBVIOUS
    <3>2. f.maker = uuid[m] /\ f.taker = uuid[taker] /\ f.qty = qty /\ f \in Fills
      <4>1. uuid[taker] \in Calls /\ uuid[m] \in Calls
        BY <1>4, Names DEF Inv
      <4> QED BY <2>1, <2>4, <3>1, <4>1 DEF ByCall, Trades, Fills
    <3>3. \A x : ByCall(x)' = ByCall(x)
      BY <1>1, <2>1 DEF ByCall
    <3>4. MatchFills' = MatchFills \cup {f}
      <4>1. MatchFills' = {ByCall(result'.trades[i]) : i \in DOMAIN result'.trades}
        BY <1>1, <2>1, <3>3 DEF MatchFills
      <4>2. MatchFills = {ByCall(result.trades[i]) : i \in DOMAIN result.trades}
        BY <1>1 DEF MatchFills
      <4> QED BY ZenonT(40), <2>6, <2>7, <3>1, <4>1, <4>2
    <3>5. Booked' = Booked \cup {f}
      BY <1>1, <3>4 DEF Booked, FillsOf
    <3>6. IsFiniteSet(Booked) /\ IsFiniteSet(Booked') /\ Booked \subseteq Fills
      BY <3>5, FS_AddElement, BookedTyped DEF Inv, FilledSound
    <3>7. ASSUME NEW id \in DOMAIN uuid
          PROVE  SumOver(Qty, Of(Booked', uuid[id])) <= orders'[id].filled
      <4>1. PICK S : S = Of(Booked, uuid[id])
        OBVIOUS
      <4>2. IsFiniteSet(S) /\ S \subseteq Fills
        BY <3>6, <4>1, FS_Subset DEF Of
      <4>3. SumOver(Qty, S) \in Nat /\ SumOver(Qty, S) <= orders[id].filled
        BY <4>1, <4>2, QtySum DEF Inv, FilledSound
      <4>4. /\ orders[id].filled \in Nat
            /\ orders'[id].filled = orders[id].filled + (IF id \in {taker, m} THEN qty ELSE 0)
        BY <1>4, <2>2
      <4>5. CASE id \in {taker, m}
        <5>1. Of(Booked', uuid[id]) = S \cup {f}
          BY <3>2, <3>5, <4>1, <4>5 DEF Of
        <5>2. SumOver(Qty, S \cup {f}) <= SumOver(Qty, S) + qty
          <6>1. CASE f \in S
            <7>1. S \cup {f} = S
              BY <6>1
            <7>2. SumOver(Qty, S \cup {f}) = SumOver(Qty, S)
              BY <7>1, Zenon
            <7> QED BY <4>3, <7>2
          <6>2. CASE f \notin S
            <7>1. \A g \in S \cup {f} : Qty[g] \in Int
              BY <3>2, <4>2 DEF Qty, Fills
            <7>2. SumOver(Qty, S \cup {f}) = Qty[f] + SumOver(Qty, S)
              BY <4>2, <6>2, <7>1, SumAdd
            <7>3. Qty[f] = qty
              BY <3>2 DEF Qty
            <7> QED BY <4>3, <7>2, <7>3
          <6> QED BY <6>1, <6>2
        <5>3. SumOver(Qty, S \cup {f}) \in Nat
          <6>1. IsFiniteSet(S \cup {f}) /\ S \cup {f} \subseteq Fills /\ S \in SUBSET (S \cup {f})
            BY <3>2, <4>2, FS_AddElement
          <6> QED BY <6>1, QtySum
        <5> QED BY <4>3, <4>4, <4>5, <5>1, <5>2, <5>3
      <4>6. CASE id \notin {taker, m}
        <5>1. uuid[id] # uuid[taker] /\ uuid[id] # uuid[m]
          BY <1>4, <4>6 DEF Inv, NamesSound
        <5>2. Of(Booked', uuid[id]) = S
          BY <3>2, <3>5, <4>1, <5>1 DEF Of
        <5> QED BY <4>3, <4>4, <4>6, <5>2
      <4> QED BY <4>5, <4>6
    <3> QED BY <1>1, <3>6, <3>7 DEF FilledSound, Of, Qty
  <2> QED BY ONLY ZenonT(40), Inv, c \in Calls, <1>1, <1>2, <1>5, <1>6, <1>7, <2>1, <2>2, <2>8, <2>9, BookMoves
<1> QED BY <1>3, <1>8, <1>9

LEMMA SubmitInv ==
  ASSUME Inv, NEW c \in Calls, Submit(c)
  PROVE  Inv'
<1> DEFINE n == Len(orders)
<1>1. /\ create[c].pc = "submit" /\ Book!Arrive(Req(c)) /\ uuid' = Append(uuid, c)
      /\ create' = [create EXCEPT ![c].pc = "match"]
      /\ UNCHANGED <<rows, trades, wallets, cancel, boot, crashes>>
  BY DEF Submit, Goto
<1>2. Req(c) \in NewOrders /\ boot.pc = "up"
  BY <1>1, Requested, ActiveIsUp DEF Inv, CreateEnds
<1>3. /\ BookSound' /\ taker = NoOrder /\ taker' = n + 1 /\ Len(orders') = n + 1
      /\ orders'[n + 1] = Req(c) /\ \A k \in 1..n : orders'[k] = orders[k]
      /\ resting' = resting /\ result' = EmptyResult
  BY <1>1, <1>2, ArriveSound DEF Inv
<1>4. /\ DOMAIN uuid = 1..n /\ \A id \in DOMAIN uuid : uuid[id] \in Calls
      /\ resting \subseteq 1..n /\ n \in Nat
  BY Names, LenProperties DEF Inv, BookSound
<1>5. /\ uuid' \in Seq(Calls) /\ Len(uuid') = n + 1 /\ DOMAIN uuid' = 1..(n + 1)
      /\ \A id \in 1..n : uuid'[id] = uuid[id]
      /\ uuid'[n + 1] = c
  <2>1. uuid \in Seq(Calls) /\ Len(uuid) = n
    BY DEF Inv, ServiceTypes
  <2>2. /\ Append(uuid, c) \in Seq(Calls) /\ Len(Append(uuid, c)) = n + 1
        /\ \A id \in 1..n : Append(uuid, c)[id] = uuid[id]
        /\ Append(uuid, c)[n + 1] = c
    BY <2>1, AppendProperties
  <2>3. DOMAIN Append(uuid, c) = 1..(n + 1)
    BY <2>2, LenProperties
  <2> QED BY <1>1, <2>2, <2>3
<1> HIDE DEF n
<1>6. 1..(n + 1) = (1..n) \cup {n + 1} /\ n + 1 \notin 1..n /\ n + 1 # NoOrder /\ NoOrder \notin 1..n
  BY <1>4 DEF NoOrder
<1>7. create[c] \in CallRecs /\ CallSound(c) /\ "match" \in CreatePcs
  BY DEF Inv, ServiceTypes, CallsSound, CreatePcs
<1>8. PICK k : k = [create[c] EXCEPT !.pc = "match"]
  OBVIOUS
<1>9. /\ k \in CallRecs /\ k.pc = "match" /\ k.req = create[c].req /\ k.fills = create[c].fills
      /\ k.settled = create[c].settled /\ k.makers = create[c].makers /\ k.dropped = create[c].dropped
  BY <1>7, <1>8 DEF CallRecs
<1>10. /\ create' \in [Calls -> CallRecs] /\ create'[c] = k
       /\ \A d \in Calls : d # c => create'[d] = create[d]
  BY <1>1, <1>8, <1>9 DEF Inv, ServiceTypes
<1>11. \A id \in 1..n : uuid[id] # c /\ create[uuid[id]].pc \notin Before
  BY <1>1, <1>4 DEF Inv, NamesSound, Before
<1>12. \A d \in Calls : /\ Known(d)' <=> Known(d)
                        /\ Gone(d)' <=> Gone(d)
                        /\ IsResting(d)' <=> IsResting(d)
                        /\ Known(d) => d # c
  <2> TAKE d \in Calls
  <2>1. Known(d) <=> \E id \in 1..n : uuid[id] = d
    BY <1>3, <1>4, <1>6 DEF Known
  <2>2. Known(d)' <=> \E id \in 1..n : uuid[id] = d
    BY <1>3, <1>5, <1>6 DEF Known
  <2>3. Gone(d) <=> \E id \in 1..n : uuid[id] = d /\ id \notin resting
    BY <1>3, <1>4, <1>6 DEF Gone
  <2>4. Gone(d)' <=> \E id \in 1..n : uuid[id] = d /\ id \notin resting
    BY <1>3, <1>5, <1>6 DEF Gone
  <2>5. IsResting(d) <=> \E id \in 1..n : uuid[id] = d /\ id \in resting
    BY <1>4 DEF IsResting, EngineId
  <2>6. IsResting(d)' <=> \E id \in 1..n : uuid[id] = d /\ id \in resting
    <3>1. IsResting(d)' <=> \E id \in 1..(n + 1) : uuid'[id] = d /\ id \in resting
      BY <1>3, <1>5 DEF IsResting, EngineId
    <3> QED BY <1>4, <1>5, <1>6, <3>1
  <2> QED BY <1>11, <2>1, <2>2, <2>3, <2>4, <2>5, <2>6
<1>13. \A d \in Calls : (Lost(d)' <=> Lost(d)) /\ Req(d)' = Req(d) /\ FillsOf(d)' = FillsOf(d)
                        /\ AppliedTo(d)' = AppliedTo(d)
  <2>1. \A d \in Calls : /\ create'[d].req = create[d].req /\ create'[d].fills = create[d].fills
                         /\ create'[d].makers = create[d].makers /\ (Lost(d)' <=> Lost(d))
    BY <1>1, <1>9, <1>10 DEF Lost
  <2>2. \A f \in trades : f.taker \in Calls
    BY DEF Inv, ServiceTypes, Fills
  <2>3. ASSUME NEW d \in Calls PROVE AppliedTo(d)' = AppliedTo(d)
    <3>1. AppliedFills(d)' = AppliedFills(d)
      BY <1>1, <2>1, <2>2 DEF AppliedFills
    <3> QED BY <3>1 DEF AppliedTo, Qty
  <2> QED BY <2>1, <2>3 DEF Req, FillsOf
<1>14. ServiceTypes'
  BY <1>1, <1>3, <1>5, <1>10 DEF Inv, ServiceTypes, wallets
<1>15. NamesSound'
  <2>1. \A i, j \in DOMAIN uuid' : uuid'[i] = uuid'[j] => i = j
    BY <1>4, <1>5, <1>6, <1>11 DEF Inv, NamesSound
  <2>2. ASSUME NEW id \in DOMAIN uuid'
        PROVE  LET o == orders'[id]
                   r == create'[uuid'[id]].req
               IN  /\ create'[uuid'[id]].pc \notin Before
                   /\ o.user = r.user /\ o.side = r.side /\ o.type = r.type
                   /\ o.price = r.price /\ o.qty = r.qty
    <3>1. CASE id \in 1..n
      BY <1>3, <1>4, <1>5, <1>10, <1>11, <3>1 DEF Inv, NamesSound, Req
    <3>2. CASE id = n + 1
      BY <1>3, <1>5, <1>9, <1>10, <3>2 DEF Req, Before
    <3> QED BY <1>5, <1>6, <3>1, <3>2
  <2>3. \A d \in Calls : create'[d].pc = "match" => d = c
    BY <1>3, <1>10 DEF Inv, NamesSound
  <2> QED BY <1>3, <1>5, <1>6, <1>9, <1>10, <2>1, <2>2, <2>3 DEF NamesSound, Req
<1>16. MatchIsLive'
  <2>1. \A id \in resting' : create'[uuid'[id]].pc # "lost"
    BY <1>3, <1>4, <1>5, <1>10, <1>11 DEF Inv, MatchIsLive, Lost
  <2>2. DOMAIN result'.trades = {} /\ DOMAIN result'.canceled = {}
    BY <1>3 DEF EmptyResult
  <2> QED BY <1>10, <2>1, <2>2 DEF MatchIsLive, Lost
<1>17. \A f \in Fills : FairFill(f) => FairFill(f)'
  BY <1>12, <1>13 DEF FairFill, Fills
<1>18. CallsSound'
  <2>1. ASSUME NEW d \in Calls, d # c PROVE CallSound(d)'
    <3>1. CallSound(d) /\ create'[d] = create[d] /\ create[d] \in CallRecs
      BY <1>10, <2>1 DEF Inv, CallsSound, ServiceTypes
    <3>2. trades \subseteq trades' /\ \A x \in Calls : Known(x) => create'[x].req = create[x].req
      BY <1>1, <1>10, <1>12
    <3> QED BY <1>12, <1>13, <3>1, <3>2, OtherCalls
  <2>2. CallSound(c)'
    <3>1. /\ create[c].fills = <<>> /\ create[c].settled = 0 /\ create[c].makers = {}
          /\ create[c].dropped = <<>> /\ create[c].req \in NewOrders
      BY <1>1, <1>7 DEF CallSound, After, Applying
    <3>2. Len(<<>>) = 0 /\ Range(<<>>) = {} /\ DOMAIN <<>> = {}
      BY BareRecord
    <3> QED BY <1>9, <1>10, <3>1, <3>2 DEF CallSound, FillsOf, After, Applying
  <2>3. \A f \in trades' : FairFill(f)'
    BY <1>1, <1>17 DEF Inv, CallsSound, ServiceTypes
  <2> QED BY <2>1, <2>2, <2>3 DEF CallsSound
<1>19. FilledSound'
  <2>1. MatchFills = {} /\ MatchFills' = {}
    <3>1. DOMAIN result'.trades = {}
      BY <1>3 DEF EmptyResult
    <3> QED BY <1>3, <3>1 DEF MatchFills
  <2>2. Booked' = Booked
    BY <1>1, <1>13, <2>1 DEF Booked
  <2>3. ASSUME NEW id \in DOMAIN uuid'
        PROVE  SumOver(Qty, Of(Booked', uuid'[id])) <= orders'[id].filled
    <3>1. CASE id \in 1..n
      BY <1>3, <1>4, <1>5, <2>2, <3>1 DEF Inv, FilledSound
    <3>2. CASE id = n + 1
      <4>1. \A f \in Booked : FairFill(f)
        BY <2>1, KnownFills DEF Inv, Booked
      <4>2. \A f \in Booked : f.maker # c /\ f.taker # c
        BY <1>12, <4>1 DEF FairFill
      <4>3. Of(Booked', uuid'[id]) = {}
        BY <1>5, <2>2, <3>2, <4>2 DEF Of
      <4>4. orders'[id].filled = 0
        BY <1>2, <1>3, <3>2, NewOrderFields
      <4> QED BY <4>3, <4>4, SumOfNone
    <3> QED BY <1>5, <1>6, <3>1, <3>2
  <2> QED BY <2>2, <2>3 DEF Inv, FilledSound, Of, Qty
<1>20. RowsSound'
  <2>1. \A d \in Calls : /\ create'[d].pc = "new" => create[d].pc = "new"
                         /\ create'[d].pc \in {"submit", "match"} => create[d].pc \in {"submit", "match"}
    BY <1>1, <1>9, <1>10
  <2>2. ASSUME NEW d \in Calls, EngineId(d)' # {} PROVE rows[d] # NoRow
    <3>1. PICK id \in 1..(n + 1) : uuid'[id] = d
      BY <1>5, <2>2 DEF EngineId
    <3>2. CASE id \in 1..n
      BY <1>4, <1>5, <3>1, <3>2 DEF Inv, RowsSound, EngineId
    <3>3. CASE id = n + 1
      BY <1>1, <1>5, <3>1, <3>3 DEF Inv, RowsSound, NoRow
    <3> QED BY <1>6, <3>1, <3>2, <3>3
  <2> QED BY <1>1, <1>12, <2>1, <2>2 DEF Inv, RowsSound
<1>21. BootSound'
  BY <1>1, <1>2, <1>13 DEF Inv, BootSound
<1>22. AppliedSound'
  <2>1. \A d \in Calls : /\ rows'[d].filled <= AppliedTo(d)'
                         /\ cancel'[d].pc \in {"engine", "write"} =>
                               cancel'[d].copy.filled <= AppliedTo(d)'
    BY <1>1, <1>13 DEF Inv, AppliedSound
  <2>2. ASSUME NEW d \in Calls, create'[d].pc \in {"writeMaker", "writeDropped"}
        PROVE  create'[d].copy.filled <= AppliedTo(create[d].target)'
    <3>1. create'[d] = create[d] /\ create[d].target \in Calls
      BY <1>9, <1>10, <2>2 DEF Inv, CallsSound, CallSound
    <3>2. PICK t : t = create[d].target
      OBVIOUS
    <3>3. create[d].copy.filled <= AppliedTo(t)'
      BY <1>13, <2>2, <3>1, <3>2 DEF Inv, AppliedSound
    <3> QED BY <3>1, <3>2, <3>3 DEF AppliedTo, AppliedFills
  <2> QED BY <2>1, <2>2 DEF AppliedSound
<1>23. MoneySum'
  BY <1>1, MoneyKept DEF Inv, wallets
<1> QED BY <1>3, <1>14, <1>15, <1>16, <1>18, <1>19, <1>20, <1>21, <1>22, <1>23 DEF Inv

LEMMA MatchedInv ==
  ASSUME Inv, NEW c \in Calls, Matched(c)
  PROVE  Inv'
<1> DEFINE n == Len(orders)
<1>1. /\ create[c].pc = "match" /\ taker # NoOrder /\ uuid[taker] = c /\ Book!Complete
      /\ UNCHANGED <<uuid, rows, trades, wallets, cancel, boot, crashes>>
  BY DEF Matched, Holds
<1>2. boot.pc = "up"
  BY <1>1, ActiveIsUp DEF Inv, CreateEnds
<1>3. /\ BookSound' /\ taker \in 1..n /\ taker' = NoOrder /\ orders' = orders
      /\ resting' = IF result'.rested THEN resting \cup {taker} ELSE resting
      /\ result'.rested \in BOOLEAN /\ MatchSound
  BY <1>1, CompleteSound DEF Inv
<1>4. /\ DOMAIN uuid = 1..n /\ \A id \in 1..n : uuid[id] \in Calls
      /\ resting \subseteq 1..n /\ taker \notin resting
      /\ \A i, j \in 1..n : uuid[i] = uuid[j] => i = j
  BY Names DEF Inv, BookSound, NamesSound
<1>5. NoOrder \notin 1..n /\ NoOrder \notin resting'
  BY <1>3, <1>4 DEF NoOrder
<1> HIDE DEF n
<1>6. PICK fills : fills = [i \in DOMAIN result.trades |-> ByCall(result.trades[i])]
  OBVIOUS
<1>7. PICK drops : drops = [i \in DOMAIN result.canceled |-> uuid[result.canceled[i]]]
  OBVIOUS
<1>8. \A i \in DOMAIN result.trades :
        /\ fills[i].maker = uuid[result.trades[i].maker] /\ fills[i].taker = c
        /\ fills[i] \in Fills
        /\ result.trades[i].maker \in 1..n /\ result.trades[i].maker # taker
        /\ orders[result.trades[i].maker].side = Opposite(orders[taker].side)
  <2> TAKE i \in DOMAIN result.trades
  <2>1. PICK t : t = result.trades[i]
    OBVIOUS
  <2>2. /\ t.maker \in 1..n /\ t.maker # taker /\ t \in Trades /\ t.price \in Prices
        /\ orders[t.maker].side = Opposite(orders[taker].side)
    <3>1. result.trades \in Seq(Trades)
      BY DEF Inv, BookSound, Results
    <3> QED BY <1>3, <2>1, <3>1, ElementOfSeq, LenProperties DEF MatchSound, FillSound, n
  <2>3. ByCall(t).maker = uuid[t.maker] /\ ByCall(t).taker = c /\ ByCall(t) \in Fills
    BY <1>1, <1>4, <2>2 DEF ByCall, Fills, Trades
  <2> QED BY <1>6, <2>1, <2>2, <2>3
<1>9. PICK l \in Nat : /\ DOMAIN result.trades = 1..l /\ DOMAIN fills = 1..l
                       /\ fills \in Seq(Fills) /\ Len(fills) = l
  <2>1. PICK l \in Nat : DOMAIN result.trades = 1..l /\ l = Len(result.trades)
    BY LenProperties DEF Inv, BookSound, Results
  <2>2. fills \in [1..l -> Fills]
    BY <1>6, <1>8, <2>1
  <2> QED BY <2>1, <2>2, IsASeq, LenProperties
<1>10. drops \in Seq(Calls) /\ \A i \in DOMAIN drops :
          /\ drops[i] = uuid[result.canceled[i]] /\ result.canceled[i] \in 1..n
          /\ result.canceled[i] # taker /\ result.canceled[i] \notin resting
          /\ i \in DOMAIN result.canceled
  <2>1. PICK p \in Nat : DOMAIN result.canceled = 1..p
    BY LenProperties DEF Inv, BookSound, Results
  <2>2. \A i \in 1..p : /\ result.canceled[i] \in 1..n
                        /\ result.canceled[i] # taker /\ result.canceled[i] \notin resting
    BY <1>3, <2>1 DEF MatchSound, n
  <2>3. drops \in [1..p -> Calls]
    BY <1>4, <1>7, <2>1, <2>2
  <2> QED BY <1>7, <2>1, <2>2, <2>3, IsASeq
<1>11. \A i, j \in DOMAIN fills : fills[i] = fills[j] => i = j
  BY <1>3, <1>4, <1>8, <1>9 DEF MatchSound
<1>12. Range(fills) = MatchFills /\ Range(fills) \subseteq Fills
  BY <1>1, <1>6, <1>8, <1>9 DEF Range, MatchFills
<1>13. /\ create[c] \in CallRecs /\ CallSound(c) /\ {"apply", "settle"} \subseteq CreatePcs
       /\ create[c].fills = <<>> /\ create[c].settled = 0 /\ create[c].req \in NewOrders
  BY <1>1 DEF Inv, ServiceTypes, CallsSound, CreatePcs, CallSound, After, Applying
<1>14. PICK pc \in {"apply", "settle"} :
         /\ pc = IF fills = <<>> THEN "apply" ELSE "settle"
         /\ create' = [create EXCEPT ![c].pc = pc, ![c].fills = fills, ![c].makers = Range(fills),
                                     ![c].dropped = drops, ![c].rested = result'.rested]
  <2>1. fills = [i \in DOMAIN result.trades |->
                    [result.trades[i] EXCEPT !.maker = uuid[@], !.taker = c]]
    BY ZenonT(40), <1>1, <1>6 DEF ByCall
  <2>2. create' = [create EXCEPT ![c].pc = IF fills = <<>> THEN "apply" ELSE "settle",
                                 ![c].fills = fills, ![c].makers = Range(fills),
                                 ![c].dropped = drops, ![c].rested = result'.rested]
    BY <1>7, <2>1 DEF Matched
  <2> QED BY <2>2
<1>15. PICK k : k = create'[c]
  OBVIOUS
<1>16. /\ k \in CallRecs /\ k.pc = pc /\ k.fills = fills /\ k.makers = Range(fills)
       /\ k.dropped = drops /\ k.rested = result'.rested
       /\ k.req = create[c].req /\ k.settled = 0
  <2>1. create \in [Calls -> CallRecs]
    BY DEF Inv, ServiceTypes
  <2>2. Range(fills) \in SUBSET Fills /\ pc \in CreatePcs
    BY <1>12, <1>13
  <2> QED BY <1>3, <1>9, <1>10, <1>13, <1>14, <1>15, <2>1, <2>2 DEF CallRecs
<1>17. /\ create' \in [Calls -> CallRecs] /\ create'[c] = k
       /\ \A d \in Calls : d # c => create'[d] = create[d]
  BY <1>14, <1>15, <1>16 DEF Inv, ServiceTypes
<1>18. \A d : /\ Known(d)' <=> Known(d) \/ d = c
              /\ Gone(d) => Gone(d)'
              /\ IsResting(d)' => IsResting(d) \/ d = c
  <2> TAKE d
  <2>1. Known(d)' <=> \E id \in 1..n : uuid[id] = d
    BY <1>1, <1>3, <1>4, <1>5 DEF Known
  <2>2. Known(d) <=> \E id \in 1..n : uuid[id] = d /\ id # taker
    BY <1>4 DEF Known
  <2>3. Gone(d)' <=> \E id \in 1..n : uuid[id] = d /\ id \notin resting'
    BY <1>1, <1>3, <1>4, <1>5 DEF Gone
  <2>4. Gone(d) <=> \E id \in 1..n : uuid[id] = d /\ id # taker /\ id \notin resting
    BY <1>4 DEF Gone
  <2>5. IsResting(d)' <=> \E id \in 1..n : uuid[id] = d /\ id \in resting'
    BY <1>1, <1>4 DEF IsResting, EngineId
  <2>6. IsResting(d) <=> \E id \in 1..n : uuid[id] = d /\ id \in resting
    BY <1>4 DEF IsResting, EngineId
  <2> QED BY <1>1, <1>3, <2>1, <2>2, <2>3, <2>4, <2>5, <2>6
<1>19. ~ Known(c) /\ ~ IsResting(c) /\ Known(c)' /\ (~ k.rested => Gone(c)')
  <2>1. ~ Known(c) /\ ~ IsResting(c)
    BY <1>1, Names DEF Inv
  <2>2. Known(c)'
    BY <1>18
  <2>3. ~ k.rested => resting' = resting
    BY <1>3, <1>16
  <2>4. ~ k.rested => Gone(c)'
    BY <1>1, <1>3, <1>4, <1>5, <2>3 DEF Gone
  <2> QED BY <2>1, <2>2, <2>4
<1>20. \A d \in Calls : (Lost(d)' <=> Lost(d)) /\ Req(d)' = Req(d) /\ ~ Lost(c)
  BY <1>1, <1>16, <1>17 DEF Lost, Req
<1>21. \A d \in Calls : AppliedTo(d)' = AppliedTo(d)
  <2>1. \A f \in trades : f.taker \in Calls /\ f.taker # c
    BY <1>19 DEF Inv, CallsSound, FairFill, Fills
  <2> TAKE d \in Calls
  <2>2. AppliedFills(d)' = AppliedFills(d)
    BY <1>1, <1>17, <2>1 DEF AppliedFills
  <2> QED BY <2>2 DEF AppliedTo, Qty
<1>22. ServiceTypes'
  BY <1>1, <1>3, <1>17 DEF Inv, ServiceTypes, wallets
<1>23. NamesSound'
  <2>1. ASSUME NEW id \in DOMAIN uuid
        PROVE  create'[uuid[id]].pc \notin Before /\ create'[uuid[id]].req = create[uuid[id]].req
    BY <1>4, <1>16, <1>17 DEF Inv, NamesSound, Before
  <2>2. \A d \in Calls : create'[d].pc # "match"
    BY <1>1, <1>16, <1>17 DEF Inv, NamesSound
  <2> QED BY <1>1, <1>3, <2>1, <2>2 DEF Inv, NamesSound, Req
<1>24. MatchIsLive'
  <2>1. \A id \in resting' : create'[uuid[id]].pc # "lost"
    BY <1>1, <1>3, <1>4, <1>20 DEF Inv, MatchIsLive, Lost
  <2> QED BY <1>1, <1>3, <2>1 DEF MatchIsLive, Lost
<1>25. \A f \in Fills : FairFill(f) => FairFill(f)'
  BY <1>18, <1>20 DEF FairFill, Fills
<1>26. CallsSound'
  <2>1. ASSUME NEW d \in Calls, d # c PROVE CallSound(d)'
    <3>1. CallSound(d) /\ create'[d] = create[d] /\ create[d] \in CallRecs
      BY <1>17, <2>1 DEF Inv, CallsSound, ServiceTypes
    <3>2. trades \subseteq trades' /\ \A x \in Calls : Known(x) => create'[x].req = create[x].req
      BY <1>1, <1>17, <1>19
    <3> QED BY <1>18, <1>20, <3>1, <3>2, OtherCalls
  <2>2. CallSound(c)'
    <3>1. \A f \in Range(fills) : FairFill(f)' /\ f.taker = c /\ ~ Lost(f.maker)'
      <4> TAKE f \in Range(fills)
      <4>1. PICK i \in DOMAIN result.trades : f = fills[i]
        BY <1>9 DEF Range
      <4>2. PICK id \in 1..n : /\ id = result.trades[i].maker /\ id # taker /\ f.maker = uuid[id]
                               /\ orders[id].side = Opposite(orders[taker].side)
                               /\ f.taker = c /\ f \in Fills
        BY <1>8, <4>1
      <4>3. Known(uuid[id]) /\ uuid[id] \in Calls /\ ~ Lost(uuid[id])
        BY <1>1, <1>4, <4>1, <4>2 DEF Known, Inv, MatchIsLive
      <4>4. Req(uuid[id]).side = orders[id].side /\ Req(c).side = orders[taker].side
        BY <1>1, <1>3, <1>4 DEF Inv, NamesSound
      <4>5. Req(f.maker).side = Opposite(Req(f.taker).side)
        BY <4>2, <4>4
      <4>6. FairFill(f)'
        BY <1>18, <1>19, <1>20, <4>2, <4>3, <4>5 DEF FairFill
      <4> QED BY <1>20, <4>2, <4>3, <4>6
    <3>2. \A i \in DOMAIN drops : Gone(drops[i]) /\ drops[i] \in Calls /\ ~ Lost(drops[i])
      BY <1>1, <1>4, <1>10 DEF Gone, Inv, MatchIsLive
    <3>3. \A i \in DOMAIN drops : Gone(drops[i])' /\ ~ Lost(drops[i])'
      BY <1>18, <1>20, <3>2
    <3>4. pc = "settle" => 0 < Len(fills)
      <4>1. fills = <<>> \/ Len(fills) > 0
        BY <1>9, EmptySeq
      <4> QED BY <1>9, <1>14, <4>1
    <3>5. pc = "apply" => Range(fills) = {}
      BY <1>14, BareRecord
    <3>6. /\ create'[c].pc = pc /\ create'[c].fills = fills /\ create'[c].makers = Range(fills)
          /\ create'[c].dropped = drops /\ create'[c].req \in NewOrders /\ create'[c].settled = 0
          /\ create'[c].rested = k.rested /\ FillsOf(c)' = Range(fills)
      BY <1>13, <1>16, <1>17 DEF FillsOf
    <3>7. \A i \in DOMAIN create'[c].dropped : Gone(create[c].dropped[i])' /\ ~ Lost(create[c].dropped[i])'
      <4> TAKE i \in DOMAIN create'[c].dropped
      <4>1. PICK d : d = drops[i]
        OBVIOUS
      <4>2. Gone(d)' /\ ~ Lost(d)' /\ create'[c].dropped[i] = d
        BY <3>3, <3>6, <4>1 DEF Gone, Lost
      <4> QED BY <4>2 DEF Gone, Lost
    <3>8. 0 <= Len(fills) /\ pc # "new" /\ pc \in After
      BY <1>9 DEF After, Applying
    <3> QED BY <1>11, <1>19, <3>1, <3>4, <3>5, <3>6, <3>7, <3>8 DEF CallSound, Applying
  <2>3. \A f \in trades' : FairFill(f)'
    BY <1>1, <1>25 DEF Inv, CallsSound, ServiceTypes
  <2> QED BY <2>1, <2>2, <2>3 DEF CallsSound
<1>27. FilledSound'
  <2>1. MatchFills' = {} /\ FillsOf(c)' = MatchFills /\ FillsOf(c) = {}
    <3>1. MatchFills' = {}
      BY <1>3 DEF MatchFills
    <3>2. FillsOf(c)' = MatchFills
      BY <1>12, <1>16, <1>17 DEF FillsOf
    <3> QED BY <1>13, <3>1, <3>2, BareRecord DEF FillsOf
  <2>2. \A d \in Calls : d # c => FillsOf(d)' = FillsOf(d)
    BY <1>17 DEF FillsOf
  <2>3. (UNION {FillsOf(d) : d \in Calls})' = (UNION {FillsOf(d) : d \in Calls}) \cup MatchFills
    BY <2>1, <2>2
  <2>4. Booked' = Booked
    BY <1>1, <2>1, <2>3 DEF Booked
  <2> QED BY <1>1, <1>3, <2>4 DEF Inv, FilledSound, Of, Qty
<1>28. RowsSound'
  <2>1. \A d \in Calls : /\ create[d].pc # "new" => create'[d].pc # "new"
                         /\ create'[d].pc \in {"submit", "match"} => create[d].pc \in {"submit", "match"}
    BY <1>1, <1>16, <1>17
  <2>2. rows[c].status \in OpenStatuses
    BY <1>1 DEF Inv, RowsSound, OpenStatuses
  <2>3. \A d : EngineId(d)' = EngineId(d)
    BY <1>1 DEF EngineId
  <2> QED BY <1>1, <1>18, <2>1, <2>2, <2>3 DEF Inv, RowsSound
<1>29. BootSound'
  BY <1>1, <1>2, <1>20 DEF Inv, BootSound
<1>30. AppliedSound'
  <2>1. \A d \in Calls : /\ rows'[d].filled <= AppliedTo(d)'
                         /\ cancel'[d].pc \in {"engine", "write"} =>
                               cancel'[d].copy.filled <= AppliedTo(d)'
    BY <1>1, <1>21 DEF Inv, AppliedSound
  <2>2. ASSUME NEW d \in Calls, create'[d].pc \in {"writeMaker", "writeDropped"}
        PROVE  create'[d].copy.filled <= AppliedTo(create[d].target)'
    <3>1. create'[d] = create[d] /\ create[d].target \in Calls
      BY <1>16, <1>17, <2>2 DEF Inv, CallsSound, CallSound
    <3>2. PICK t : t = create[d].target
      OBVIOUS
    <3>3. create[d].copy.filled <= AppliedTo(t)'
      BY <1>21, <2>2, <3>1, <3>2 DEF Inv, AppliedSound
    <3> QED BY <3>1, <3>2, <3>3 DEF AppliedTo, AppliedFills
  <2> QED BY <2>1, <2>2 DEF AppliedSound
<1>31. MoneySum'
  BY <1>1, MoneyKept DEF Inv, wallets
<1> QED BY SMTT(30), <1>3, <1>22, <1>23, <1>24, <1>26, <1>27, <1>28, <1>29, <1>30, <1>31 DEF Inv

-----------------------------------------------------------------------------
\* A crash.

LEMMA CrashInv ==
  ASSUME Inv, Crash
  PROVE  Inv'
<1>1. /\ crashes < MaxCrashes /\ crashes' = crashes + 1
      /\ create' = [c \in Calls |-> IF c \in Active THEN Bare("lost", Req(c)) ELSE create[c]]
      /\ cancel' = [c \in Calls |-> IF c \in Cancelling
                       THEN [cancel[c] EXCEPT !.pc = "lost"] ELSE cancel[c]]
      /\ resting' = {} /\ taker' = NoOrder /\ result' = EmptyResult
      /\ boot' = [pc |-> "list", open |-> {}, at |-> 0]
      /\ UNCHANGED <<orders, uuid, rows, trades, bal, locked>>
  BY DEF Crash, Bare, wallets
<1>2. ASSUME NEW d \in Calls, d \in Active
      PROVE  /\ create'[d] \in CallRecs /\ create'[d].pc = "lost" /\ create'[d].req = create[d].req
             /\ create[d].pc # "new"
             /\ create[d].req \in NewOrders /\ create'[d].fills = <<>> /\ create'[d].settled = 0
             /\ create'[d].makers = {} /\ create'[d].dropped = <<>>
  <2>1. create'[d] = Bare("lost", create[d].req)
    BY <1>1, <1>2 DEF Req
  <2>2. create[d].pc # "new" /\ create[d].req \in NewOrders /\ "lost" \in CreatePcs
    BY <1>2 DEF Active, Inv, CallsSound, CallSound, CreatePcs
  <2> QED BY <2>1, <2>2, BareRecord
<1>3. ASSUME NEW d \in Calls, d \notin Active
      PROVE  /\ create'[d] = create[d] /\ create[d] \in CallRecs
             /\ create[d].pc \in CreateEnds \cup {"new"}
             /\ create[d].pc # "new" => create[d].req \in NewOrders
             /\ create[d].fills = <<>> /\ create[d].settled = 0
             /\ create[d].makers = {} /\ create[d].dropped = <<>>
  <2>1. create'[d] = create[d] /\ create[d] \in CallRecs /\ CallSound(d)
    BY <1>1, <1>3 DEF Inv, ServiceTypes, CallsSound
  <2>2. create[d].pc \in CreateEnds \cup {"new"}
    BY <1>3 DEF Active
  <2>3. create[d].pc \notin After
    BY <2>2 DEF CreateEnds, After, Applying
  <2> QED BY <2>1, <2>2, <2>3 DEF CallSound
<1>4. \A d \in Calls : /\ create'[d] \in CallRecs /\ create'[d].req = create[d].req
                       /\ create'[d].pc \in CreateEnds \cup {"new"}
                       /\ (create'[d].pc = "new" <=> create[d].pc = "new")
                       /\ create'[d].pc # "new" => create'[d].req \in NewOrders
                       /\ create'[d].fills = <<>> /\ create'[d].settled = 0
                       /\ create'[d].makers = {} /\ create'[d].dropped = <<>>
  BY <1>2, <1>3 DEF CreateEnds
<1>5. create' \in [Calls -> CallRecs]
  BY <1>1, <1>4
<1>6. /\ cancel' \in [Calls -> [pc : CancelPcs, copy : Rows \cup {NoRow}]]
      /\ \A d \in Calls : /\ cancel'[d].pc \notin {"engine", "write", "unlock"}
                          /\ cancel'[d].pc # "new" => cancel[d].pc # "new"
  <2>1. \A d \in Calls : cancel[d] \in [pc : CancelPcs, copy : Rows \cup {NoRow}]
    BY DEF Inv, ServiceTypes
  <2>2. ASSUME NEW d \in Calls
        PROVE  /\ cancel'[d] \in [pc : CancelPcs, copy : Rows \cup {NoRow}]
               /\ cancel'[d].pc \notin {"engine", "write", "unlock"}
               /\ cancel'[d].pc # "new" => cancel[d].pc # "new"
    <3>1. CASE d \in Cancelling
      BY <1>1, <2>1, <3>1 DEF Cancelling, CancelPcs
    <3>2. CASE d \notin Cancelling
      BY <1>1, <2>1, <3>2 DEF Cancelling
    <3> QED BY <3>1, <3>2
  <2> QED BY <1>1, <2>2
<1>7. BookSound'
  <2>1. EmptyResult \in Results
    BY EmptySeq DEF EmptyResult, Results
  <2>2. NoOrder \in 0..Len(orders)
    BY LenProperties DEF Inv, BookSound, NoOrder
  <2> QED BY <1>1, <2>1, <2>2 DEF Inv, BookSound
<1>8. ServiceTypes'
  <2>1. crashes' \in 0..MaxCrashes
    BY <1>1, BoundsAssumption DEF Inv, ServiceTypes
  <2>2. boot' \in [pc : {"up", "list", "next", "close"}, open : SUBSET Calls, at : Nat]
    BY <1>1
  <2> QED BY <1>1, <1>5, <1>6, <2>1, <2>2 DEF Inv, ServiceTypes
<1>9. \A d : (Known(d) => Known(d)') /\ ~ IsResting(d)' /\ EngineId(d)' = EngineId(d)
  <2>1. NoOrder \notin DOMAIN uuid
    BY Names DEF Inv, NoOrder
  <2> QED BY <1>1, <2>1 DEF Known, IsResting, EngineId
<1>10. NamesSound'
  <2>1. \A id \in DOMAIN uuid : uuid[id] \in Calls
    BY Names DEF Inv
  <2>2. ASSUME NEW d \in Calls, create[d].pc \notin Before PROVE create'[d].pc \notin Before
    <3>1. create[d].pc # "new"
      BY <2>2 DEF Before
    <3> QED BY <1>4, <3>1 DEF Before, CreateEnds
  <2>3. \A d \in Calls : create'[d].pc # "match"
    BY <1>4 DEF CreateEnds
  <2> QED BY <1>1, <1>4, <2>1, <2>2, <2>3 DEF Inv, NamesSound, Req
<1>11. MatchIsLive'
  BY <1>1 DEF MatchIsLive
<1>12. CallsSound'
  <2>1. ASSUME NEW d \in Calls PROVE CallSound(d)'
    <3>1. create'[d].pc \notin After /\ create'[d].pc \notin Applying
      BY <1>4 DEF After, Applying, CreateEnds
    <3>2. FillsOf(d)' = {} /\ Len(<<>>) = 0 /\ DOMAIN <<>> = {}
      BY <1>4, BareRecord DEF FillsOf
    <3>3. create'[d].pc \notin {"settle", "writeMaker", "writeDropped", "unlockDropped"}
      BY <1>4 DEF CreateEnds
    <3> QED BY <1>4, <3>1, <3>2, <3>3 DEF CallSound
  <2>2. \A f \in trades' : FairFill(f)'
    BY <1>1, <1>4, <1>9 DEF Inv, CallsSound, FairFill, Req, ServiceTypes, Fills
  <2> QED BY <2>1, <2>2 DEF CallsSound
<1>13. RowsSound'
  <2>1. \A d \in Calls : create'[d].pc \notin {"submit", "match"}
    BY <1>4 DEF CreateEnds
  <2> QED BY <1>1, <1>4, <1>6, <1>9, <2>1 DEF Inv, RowsSound
<1>14. BootSound'
  BY <1>1, <1>4, <1>6 DEF BootSound, Active, Cancelling
<1>15. FilledSound'
  <2>1. Booked' = trades
    <3>1. MatchFills' = {}
      BY <1>1 DEF MatchFills
    <3>2. \A d \in Calls : FillsOf(d)' = {}
      BY <1>4, BareRecord DEF FillsOf
    <3> QED BY <1>1, <3>1, <3>2 DEF Booked
  <2>2. /\ trades \subseteq Booked /\ IsFiniteSet(Booked) /\ Booked \subseteq Fills
        /\ IsFiniteSet(trades)
    BY BookedTyped, FS_Subset DEF Inv, FilledSound, Booked
  <2>3. ASSUME NEW id \in DOMAIN uuid
        PROVE  SumOver(Qty, Of(trades, uuid[id])) <= orders[id].filled
    BY <2>3, AppliedBound DEF Inv
  <2> QED BY <1>1, <2>1, <2>2, <2>3 DEF FilledSound, Of, Qty
<1>16. \A d \in Calls : /\ AppliedTo(d) <= AppliedTo(d)'
                        /\ AppliedTo(d) \in Nat /\ AppliedTo(d)' \in Nat
  <2> TAKE d \in Calls
  <2>1. PICK S : S = AppliedFills(d)'
    OBVIOUS
  <2>2. AppliedFills(d) \in SUBSET S /\ S \in SUBSET trades
    BY <1>1, <1>4, <2>1 DEF AppliedFills, Inv, ServiceTypes, Fills
  <2>3. IsFiniteSet(trades) /\ trades \subseteq Fills
    BY DEF Inv, ServiceTypes
  <2>4. IsFiniteSet(S) /\ S \subseteq Fills /\ SumOver(Qty, S) \in Nat
    BY <2>2, <2>3, QtySum
  <2>5. /\ SumOver(Qty, AppliedFills(d)) \in Nat
        /\ SumOver(Qty, AppliedFills(d)) <= SumOver(Qty, S)
    BY <2>2, <2>4, QtySum
  <2>6. AppliedTo(d)' = SumOver(Qty, S)
    BY <2>1 DEF AppliedTo, Qty
  <2> QED BY <2>4, <2>5, <2>6 DEF AppliedTo
<1>17. AppliedSound'
  <2>1. \A d \in Calls : rows[d].filled <= AppliedTo(d) /\ rows[d].filled \in Nat
    <3> TAKE d \in Calls
    <3>1. rows[d] \in Rows \cup {NoRow}
      BY DEF Inv, ServiceTypes
    <3> QED BY <3>1 DEF Inv, AppliedSound, Rows, NoRow
  <2>2. \A d \in Calls : rows'[d].filled <= AppliedTo(d)'
    <3> TAKE d \in Calls
    <3>1. PICK x : x = AppliedTo(d)'
      OBVIOUS
    <3> QED BY <1>1, <1>16, <2>1
  <2>3. \A d \in Calls : create'[d].pc \notin {"writeMaker", "writeDropped"}
    BY <1>4 DEF CreateEnds
  <2> QED BY <1>6, <2>2, <2>3 DEF AppliedSound
<1>18. MoneySum'
  BY <1>1, MoneyKept DEF Inv
<1> QED BY <1>7, <1>8, <1>10, <1>11, <1>12, <1>13, <1>14, <1>15, <1>17, <1>18 DEF Inv

-----------------------------------------------------------------------------
\* The invariant.

LEMMA InitInv ==
  ASSUME Init
  PROVE  Inv
<1>1. /\ orders = <<>> /\ resting = {} /\ taker = NoOrder /\ result = EmptyResult
      /\ uuid = <<>> /\ rows = [c \in Calls |-> NoRow] /\ trades = {}
      /\ bal = [u \in Users |-> [cur \in Currencies |-> Funds]]
      /\ locked = [u \in Users |-> [cur \in Currencies |-> 0]]
      /\ create = [c \in Calls |-> NewCall] /\ cancel = [c \in Calls |-> NewCancel]
      /\ boot = [pc |-> "up", open |-> {}, at |-> 0] /\ crashes = 0
  BY SameWords DEF Init, Book!Init
<1>2. \A c \in Calls : /\ create[c] \in CallRecs /\ create[c].pc = "new"
                       /\ create[c].fills = <<>> /\ create[c].settled = 0
                       /\ create[c].makers = {} /\ create[c].dropped = <<>>
  BY <1>1, BareRecord DEF NewCall
<1>3. \A c \in Calls : rows[c] = NoRow /\ cancel[c].pc = "new" /\ NoRow.filled = 0
                       /\ NoRow.status \notin OpenStatuses
  BY <1>1 DEF NewCancel, NoRow, OpenStatuses
<1>4. DOMAIN uuid = {} /\ Len(<<>>) = 0 /\ DOMAIN <<>> = {} /\ Range(<<>>) = {}
  BY <1>1, BareRecord
<1>5. BookSound
  BY <1>1, <1>4, EmptySeq DEF BookSound, EmptyResult, Results, NoOrder
<1>6. ServiceTypes
  <2>1. NewCancel \in [pc : CancelPcs, copy : Rows \cup {NoRow}]
    BY DEF NewCancel, CancelPcs
  <2>2. boot \in [pc : {"up", "list", "next", "close"}, open : SUBSET Calls, at : Nat]
    BY <1>1
  <2>3. crashes \in 0..MaxCrashes
    BY <1>1, BoundsAssumption
  <2>4. create \in [Calls -> CallRecs]
    BY <1>1, BareRecord
  <2>5. trades \subseteq Fills /\ IsFiniteSet(trades)
    BY <1>1, FS_EmptySet
  <2>6. uuid \in Seq(Calls) /\ Len(uuid) = Len(orders)
    BY <1>1, EmptySeq
  <2>7. /\ bal \in [Users -> [Currencies -> Int]] /\ locked \in [Users -> [Currencies -> Nat]]
    BY <1>1, FundsAssumption
  <2> QED BY <1>1, <2>1, <2>2, <2>3, <2>4, <2>5, <2>6, <2>7 DEF ServiceTypes
<1>7. NamesSound
  BY <1>1, <1>2, <1>4 DEF NamesSound
<1>8. MatchIsLive
  BY <1>1 DEF MatchIsLive
<1>9. CallsSound
  BY <1>1, <1>2, <1>4 DEF CallsSound, CallSound, FillsOf, After, Applying
<1>10. RowsSound
  BY <1>1, <1>2, <1>3, <1>4 DEF RowsSound, EngineId, IsResting
<1>11. BootSound
  BY <1>1, <1>2 DEF BootSound, Lost
<1>12. FilledSound
  <2>1. Booked = {}
    BY <1>1, <1>2, <1>4 DEF Booked, MatchFills, FillsOf
  <2> QED BY <1>4, <2>1, FS_EmptySet DEF FilledSound
<1>13. AppliedSound
  <2>1. \A c \in Calls : AppliedTo(c) = 0
    <3> TAKE c \in Calls
    <3>1. AppliedFills(c) = {}
      BY <1>1 DEF AppliedFills
    <3> QED BY <3>1, SumOfNone DEF AppliedTo
  <2> QED BY <1>2, <1>3, <2>1 DEF AppliedSound
<1>14. MoneySum
  <2> SUFFICES ASSUME NEW cur \in Currencies
               PROVE  Wealth(bal, cur) = Funds * Cardinality(Users)
    BY DEF MoneySum
  <2>1. PICK g : g = [u \in Users |-> bal[u][cur]]
    OBVIOUS
  <2>2. (\A u \in Users : g[u] = Funds) /\ Funds \in Int /\ IsFiniteSet(Users)
    BY <1>1, <2>1, UsersAssumption, FundsAssumption
  <2>3. SumOver(g, Users) = Funds * Cardinality(Users)
    BY ONLY <2>2, SumConstant
  <2> QED BY <2>1, <2>3 DEF Wealth
<1> QED BY <1>5, <1>6, <1>7, <1>8, <1>9, <1>10, <1>11, <1>12, <1>13, <1>14 DEF Inv

LEMMA CreateStepInv ==
  ASSUME Inv, NEW c \in Calls, CreateSteps(c)
  PROVE  Inv'
<1>1. CASE Check(c) \/ Lock(c) \/ Insert(c) \/ Undo(c)
  BY <1>1, CheckInv, LockInv, InsertInv, UndoInv
<1>2. CASE Submit(c) \/ Match(c) \/ Matched(c)
  BY <1>2, SubmitInv, MatchInv, MatchedInv
<1>3. CASE Settle(c) \/ SaveTrades(c) \/ ReadMaker(c) \/ WriteMaker(c)
  BY <1>3, SettleInv, SaveTradesInv, ReadMakerInv, WriteMakerInv
<1>4. CASE ReadDropped(c) \/ WriteDropped(c) \/ UnlockDropped(c) \/ WriteTaker(c)
  BY <1>4, ReadDroppedInv, WriteDroppedInv, UnlockDroppedInv, WriteTakerInv
<1> QED BY <1>1, <1>2, <1>3, <1>4 DEF CreateSteps

LEMMA NextInv ==
  ASSUME Inv, [Next]_vars
  PROVE  Inv'
<1>1. ASSUME NEW c \in Calls, \E o \in Inputs : StartCreate(c, o) PROVE Inv'
  BY <1>1, StartCreateInv
<1>2. ASSUME NEW c \in Calls, CreateSteps(c) \/ CreateFails(c) PROVE Inv'
  BY <1>2, CreateStepInv, CreateFailsInv
<1>3. ASSUME NEW c \in Calls, FindForCancel(c) \/ CancelSteps(c) PROVE Inv'
  BY <1>3, FindForCancelInv, EngineCancelInv, WriteCancelInv, UnlockCancelInv DEF CancelSteps
<1>4. CASE Crash
  BY <1>4, CrashInv
<1>5. CASE BootSteps
  BY <1>5, StartupInv, CleanUnlockInv, CleanCloseInv DEF BootSteps
<1>6. CASE UNCHANGED vars
  <2>1. /\ UNCHANGED <<orders, resting, taker, result, uuid, rows, trades, bal, locked, create, cancel, boot, crashes>>
    BY <1>6 DEF vars, book, wallets
  <2>2. BookSound' /\ ServiceTypes' /\ NamesSound' /\ MatchIsLive'
    BY <2>1 DEF Inv, BookSound, MatchSound, FillSound, ServiceTypes, NamesSound, Req, MatchIsLive, Lost
  <2>3. CallsSound'
    BY <2>1 DEF Inv, CallsSound, CallSound, Known, Gone, Lost, FillsOf, FairFill, Req
  <2>4. RowsSound' /\ BootSound'
    BY <2>1 DEF Inv, RowsSound, EngineId, IsResting, Gone, BootSound, Active, Cancelling, Lost
  <2>5. FilledSound'
    BY <2>1, FilledStays DEF Inv
  <2>6. AppliedSound'
    BY <2>1 DEF Inv, AppliedSound, AppliedTo, AppliedFills, Qty
  <2>7. MoneySum'
    BY <2>1, MoneyKept DEF Inv
  <2> QED BY <2>2, <2>3, <2>4, <2>5, <2>6, <2>7 DEF Inv
<1> QED BY <1>1, <1>2, <1>3, <1>4, <1>5, <1>6 DEF Next

LEMMA InvHolds == Spec => []Inv
<1>1. Init => Inv
  BY InitInv
<1>2. Inv /\ [Next]_vars => Inv'
  BY NextInv
<1> QED BY <1>1, <1>2, PTL DEF Spec

-----------------------------------------------------------------------------
\* What follows for every run of the service.

LEMMA TotalIsWealth ==
  \A w, cur : FoldFunction(+, 0, [u \in Users |-> w[u][cur]]) = Wealth(w, cur)
<1> TAKE w, cur
<1>1. DOMAIN [u \in Users |-> w[u][cur]] = Users
  OBVIOUS
<1> QED BY <1>1 DEF Wealth, FoldFunction, SumOver

\* Every wallet, row, call and order keeps its type, and the wallets of all
\* users together hold what they held at the start, in each currency: what
\* SettleTrade, UnlockBalance, a failed call or a restart does moves money
\* between users and never makes or destroys any.
THEOREM WalletsAlwaysSound == Spec => []WalletsSound
<1>1. ASSUME Inv PROVE TypeOK
  <2>1. Book!TypeOK
    BY <1>1, SameWords DEF Inv, BookSound, Results, Book!TypeOK
  <2>2. ASSUME NEW c \in Calls
        PROVE  /\ create[c].pc \in CreatePcs
               /\ create[c].pc # "new" => Req(c) \in NewOrders
               /\ create[c].fills \in Seq(Fills)
               /\ create[c].settled \in 0..Len(create[c].fills)
               /\ create[c].makers \subseteq Fills
               /\ create[c].dropped \in Seq(Calls)
               /\ create[c].copy \in Rows \cup {NoRow}
               /\ cancel[c].pc \in CancelPcs
               /\ cancel[c].copy \in Rows \cup {NoRow}
    <3>1. /\ create[c] \in CallRecs /\ CallSound(c)
          /\ cancel[c] \in [pc : CancelPcs, copy : Rows \cup {NoRow}]
      BY <1>1 DEF Inv, ServiceTypes, CallsSound
    <3>2. /\ create[c].pc \in CreatePcs /\ create[c].fills \in Seq(Fills)
          /\ create[c].settled \in Nat /\ create[c].makers \subseteq Fills
          /\ create[c].dropped \in Seq(Calls) /\ create[c].copy \in Rows \cup {NoRow}
      BY <3>1 DEF CallRecs
    <3>3. create[c].settled \in 0..Len(create[c].fills)
      BY <3>1, <3>2, LenProperties DEF CallSound
    <3>4. create[c].pc # "new" => Req(c) \in NewOrders
      BY <3>1 DEF CallSound, Req
    <3> QED BY <3>1, <3>2, <3>3, <3>4
  <2> QED BY <1>1, <2>1, <2>2 DEF Inv, ServiceTypes, TypeOK
<1>2. ASSUME Inv PROVE MoneyConserved
  BY <1>2, TotalIsWealth DEF Inv, MoneySum, MoneyConserved, Total
<1>3. Inv => WalletsSound
  BY <1>1, <1>2 DEF WalletsSound
<1> QED BY <1>3, InvHolds, PTL

LEMMA TradedIsSum ==
  ASSUME NEW c, IsFiniteSet(trades), trades \subseteq Fills
  PROVE  Traded(c) = SumOver(Qty, Of(trades, c))
<1>1. PICK g : g = [f \in trades |-> f.qty]
  OBVIOUS
<1>2. PICK S : S = Of(trades, c)
  OBVIOUS
<1>3. IsFiniteSet(S) /\ S \subseteq trades
  BY <1>2, FS_Subset DEF Of
<1>4. \A f \in S : g[f] = Qty[f]
  BY <1>1, <1>3 DEF Qty
<1>5. SumOver(g, S) = SumOver(Qty, S)
  BY <1>3, <1>4, SumSame
<1> QED BY <1>1, <1>2, <1>5 DEF Traded, SumOver, Of

\* A row of the orders table never shows more than the trades table backs, and
\* the trades table never more than the engine executed: rows that are read
\* and written back by several calls lose fills and never gain one, and the
\* trades of a call are saved once.
THEOREM RowsAreNeverAhead == Spec => []RowsNeverAhead
<1>1. ASSUME Inv, NEW c \in Calls PROVE rows[c].filled <= Traded(c) /\ Traded(c) <= EngineFilled(c)
  <2>1. /\ rows[c].filled \in Nat /\ rows[c].filled <= AppliedTo(c)
    <3>1. rows[c] \in Rows \cup {NoRow}
      BY <1>1 DEF Inv, ServiceTypes
    <3> QED BY <1>1, <3>1 DEF Inv, AppliedSound, Rows, NoRow
  <2>2. Traded(c) = SumOver(Qty, Of(trades, c))
    BY <1>1, TradedIsSum DEF Inv, ServiceTypes
  <2>3. PICK g : g = [id \in DOMAIN uuid |-> orders[id].filled]
    OBVIOUS
  <2>4. EngineFilled(c) = SumOver(g, EngineId(c))
    BY <2>3 DEF EngineFilled, SumOver
  <2>5. CASE EngineId(c) = {}
    <3>1. Of(trades, c) = {} /\ AppliedFills(c) = {}
      <4>1. \A f \in trades : Known(f.maker) /\ Known(f.taker)
        BY <1>1 DEF Inv, CallsSound, FairFill
      <4>2. ~ Known(c)
        BY <2>5 DEF Known, EngineId
      <4> QED BY <4>1, <4>2 DEF Of, AppliedFills
    <3>2. Traded(c) = 0 /\ AppliedTo(c) = 0 /\ EngineFilled(c) = 0
      BY <2>2, <2>4, <2>5, <3>1, SumOfNone DEF AppliedTo
    <3> QED BY <2>1, <3>2
  <2>6. CASE EngineId(c) # {}
    <3>1. PICK id \in DOMAIN uuid : uuid[id] = c
      BY <2>6 DEF EngineId
    <3>2. EngineId(c) = {id}
      BY <1>1, <3>1 DEF EngineId, Inv, NamesSound
    <3>3. /\ AppliedTo(c) \in Nat /\ Traded(c) \in Nat /\ orders[id].filled \in Nat
          /\ AppliedTo(c) <= Traded(c) /\ Traded(c) <= orders[id].filled
      BY <1>1, <2>2, <3>1, AppliedBound DEF Inv
    <3>4. EngineFilled(c) = orders[id].filled
      <4>1. g[id] = orders[id].filled
        BY <2>3
      <4>2. g[id] \in Int
        BY <3>3, <4>1
      <4>3. SumOver(g, {id}) = g[id]
        BY <4>2, SumOfOne
      <4> QED BY <2>4, <3>2, <4>1, <4>3
    <3> QED BY <2>1, <3>3, <3>4
  <2> QED BY <2>5, <2>6
<1>2. Inv => RowsNeverAhead
  BY <1>1 DEF RowsNeverAhead
<1> QED BY <1>2, InvHolds, PTL

\* An order whose row is filled or cancelled is not on the book, whatever calls,
\* cancellations and restarts did to the row: no closed order trades.
THEOREM ClosedRowsAreOffBook == Spec => []ClosedRowsOffBook
<1>1. Inv => ClosedRowsOffBook
  BY DEF Inv, RowsSound, ClosedRowsOffBook
<1> QED BY <1>1, InvHolds, PTL

\* Only the last step of the startup makes the server serve.
LEMMA OnlyServeStarts ==
  ASSUME Inv, [Next]_vars, boot.pc # "up", boot'.pc = "up"
  PROVE  Serve
<1>1. ASSUME NEW c \in Calls, NEW o \in Inputs, StartCreate(c, o) PROVE FALSE
  BY <1>1 DEF StartCreate, MayStart
<1>2. ASSUME NEW c \in Calls, CreateSteps(c) \/ CreateFails(c) PROVE boot' = boot
  <2>1. CASE Check(c) \/ Lock(c) \/ Insert(c) \/ Undo(c) \/ Submit(c) \/ Match(c) \/ Matched(c) \/ CreateFails(c)
    BY ZenonT(40), <2>1 DEF Check, Lock, Insert, Undo, Submit, Match, Matched, CreateFails
  <2>2. CASE \/ Settle(c) \/ SaveTrades(c) \/ ReadMaker(c) \/ WriteMaker(c)
             \/ ReadDropped(c) \/ WriteDropped(c) \/ UnlockDropped(c) \/ WriteTaker(c)
    BY <2>2 DEF Settle, SaveTrades, ReadMaker, WriteMaker, ReadDropped, WriteDropped, UnlockDropped, WriteTaker
  <2> QED BY SMTT(30), <1>2, <2>1, <2>2 DEF CreateSteps
<1>3. ASSUME NEW c \in Calls, FindForCancel(c) \/ CancelSteps(c) PROVE boot' = boot
  BY <1>3 DEF FindForCancel, CancelSteps, EngineCancel, WriteCancel, UnlockCancel
<1>4. ASSUME Crash PROVE boot'.pc = "list"
  BY <1>4 DEF Crash
<1>5. CASE BootSteps
  <2>1. ASSUME ListOpen PROVE boot'.pc = "next"
    BY <2>1 DEF ListOpen
  <2>2. ASSUME NEW c \in Calls, CleanUnlock(c) PROVE boot'.pc = "close"
    BY <2>2 DEF CleanUnlock, Inv, ServiceTypes
  <2>3. ASSUME CleanClose PROVE boot'.pc = "next"
    BY <2>3 DEF CleanClose, Inv, ServiceTypes
  <2> QED BY <1>5, <2>1, <2>2, <2>3 DEF BootSteps
<1>6. ~ UNCHANGED vars
  BY DEF vars
<1> QED BY <1>1, <1>2, <1>3, <1>4, <1>5, <1>6 DEF Next

\* When a restarted server begins to serve, no row is open and nothing rests,
\* and from then on the orders of the calls that the crash cut short stay
\* closed and off the book, however often the cleanup itself was cut short.
THEOREM LostOrdersAreClosed == Spec => LostOrdersClosed
<1>1. ASSUME Inv PROVE CutShortIsClosed
  <2>1. \A c \in Calls : Lost(c) => ~ IsResting(c)
    BY <1>1 DEF Inv, MatchIsLive, IsResting, EngineId, Lost
  <2> QED BY <1>1, <2>1 DEF Inv, BootSound, CutShortIsClosed, Lost
<1>2. ASSUME Inv, [Next]_vars PROVE NoneOpenAtStart
  <2> SUFFICES ASSUME boot.pc # "up", boot'.pc = "up", NEW c \in Calls
               PROVE  rows'[c].status \notin OpenStatuses /\ ~ IsResting(c)'
    BY DEF NoneOpenAtStart
  <2>1. boot.pc = "next" /\ boot.open = {} /\ rows' = rows /\ resting' = resting
    BY <1>2, OnlyServeStarts DEF Serve, book
  <2>2. rows[c].status \notin OpenStatuses /\ resting = {}
    BY <1>2, <2>1 DEF Inv, BootSound
  <2> QED BY <2>1, <2>2 DEF IsResting
<1>3. Inv /\ [Next]_vars => [NoneOpenAtStart]_vars
  BY <1>2
<1> QED BY <1>1, <1>3, InvHolds, PTL DEF Spec, LostOrdersClosed

-----------------------------------------------------------------------------
\* Calls that run one at a time, on a database that answers, and no order that
\* is taken without a look at the funds.  Then the rows tell what the engine
\* did, and the locks cover what the orders may still have to pay.
OneByOne ==
    /\ MaxInFlight = 1 /\ DbFaults = FALSE
    /\ \A o \in Inputs : o.type = "limit" \/ o.side = "sell"

\* At most one call is under way, and none has failed.
Lone ==
    /\ boot.pc = "up"
    /\ \A c, d \in Calls : /\ c \in Active /\ d \in Active => c = d
                           /\ c \in Cancelling /\ d \in Cancelling => c = d
                           /\ ~ (c \in Active /\ d \in Cancelling)
    /\ \A c \in Calls : /\ create[c].pc \notin {"undo", "failed", "lost"}
                        /\ cancel[c].pc \notin {"failed", "lost"}

\* Where a call is tells whether it has a row, and an order in the engine.
PlacedCall(c) ==
    /\ create[c].pc # "new" => Req(c).type = "limit" \/ Req(c).side = "sell"
    /\ create[c].pc = "lock" => Req(c).type = "limit"
    /\ rows[c] # NoRow => create[c].pc \in {"submit", "match", "done"} \cup After
    /\ create[c].pc = "done" => Known(c)
    /\ cancel[c].pc \in {"engine", "write", "unlock"} => create[c].pc = "done"
    /\ cancel[c].pc \in {"write", "unlock"} => Req(c).type = "limit" /\ Gone(c)
Placed == \A c \in Calls : PlacedCall(c)

\* The row of the engine's order id counts its fills, and shows where it is.
Counts(id) == rows[uuid[id]].filled = orders[id].filled
ShowsAs(status, id) ==
    /\ status \in {"pending", "open"} => id \in resting
    /\ status = "partially_filled" => (id \in resting <=> orders[id].type = "limit")
Shows(id) == ShowsAs(rows[uuid[id]].status, id)
Rests(id) == id \in resting <=> Remaining(orders[id]) > 0

Calm ==
    /\ \A id \in DOMAIN uuid :
          Counts(id) /\ (cancel[uuid[id]].pc # "write" => Shows(id))
    /\ \A c \in Calls :
          /\ cancel[c].pc \in {"engine", "write"} => cancel[c].copy = rows[c]
          /\ cancel[c].pc = "unlock" => cancel[c].copy.filled = rows[c].filled

\* What the running match has reported: the taker's fills add up, and the rows
\* of the makers it met lack one fill each.
Amounts(q) == [i \in DOMAIN q |-> q[i].qty]
Filled(q) == SumOver(Amounts(q), DOMAIN q)
Deal(m, t, price) ==
    /\ m.type = "limit" /\ m.user # t.user /\ price = m.price
    /\ t.type = "limit" /\ t.side = "buy" => price <= t.price
MatchedTrade(t) ==
    /\ Deal(orders[t.maker], orders[taker], t.price) /\ Rests(t.maker)
    /\ orders[t.maker].filled = rows[uuid[t.maker]].filled + t.qty
    /\ \A j \in DOMAIN result.canceled : result.canceled[j] # t.maker
Met(id) == \E i \in DOMAIN result.trades : result.trades[i].maker = id
Dropped(id) == \E i \in DOMAIN result.canceled : result.canceled[i] = id
Matching ==
    /\ orders[taker].filled = Filled(result.trades)
    /\ \A id \in DOMAIN uuid \ {taker} :
          ~ Met(id) => Counts(id) /\ (~ Dropped(id) => Shows(id))
    /\ \A i \in DOMAIN result.trades : MatchedTrade(result.trades[i])
    /\ \A i, j \in DOMAIN result.canceled :
          /\ orders[result.canceled[i]].type = "limit"
          /\ i # j => result.canceled[i] # result.canceled[j]

\* Call t has the fills of its match and is telling the rows.
At(t, pcs, c) == create[t].pc \in pcs /\ create[t].target = c
Awaits(t, c) == \E f \in create[t].makers : f.maker = c
Dropping(t, c) ==
    \/ c \in Range(create[t].dropped)
    \/ At(t, {"writeDropped", "unlockDropped"}, c)
TellsOwn(t, id) ==
    /\ orders[id].filled = Filled(create[t].fills)
    /\ create[t].rested <=> id \in resting
    /\ create[t].rested <=> orders[id].type = "limit" /\ Remaining(orders[id]) > 0
TellsMaker(t, id) ==
    /\ \A f \in create[t].makers : f.maker = uuid[id] =>
          orders[id].filled = rows[uuid[id]].filled + f.qty /\ Rests(id)
    /\ At(t, {"writeMaker"}, uuid[id]) =>
          orders[id].filled = create[t].copy.filled /\ Rests(id)
TellsOther(t, id) ==
    ~ Awaits(t, uuid[id]) /\ ~ At(t, {"writeMaker"}, uuid[id]) =>
       /\ Counts(id)
       /\ uuid[id] \in Range(create[t].dropped) \/ At(t, {"writeDropped"}, uuid[id])
          \/ Shows(id)
Tells(t, id) == IF uuid[id] = t THEN TellsOwn(t, id)
                ELSE TellsMaker(t, id) /\ TellsOther(t, id)
FillsDeal(t) ==
    /\ \A f \in FillsOf(t) : f.maker # t /\ Deal(Req(f.maker), Req(t), f.price)
    /\ \A f, g \in FillsOf(t) : f.maker = g.maker => f = g
DropsKnown(t) ==
    /\ \A c \in Calls : Dropping(t, c) =>
          c # t /\ Req(c).type = "limit" /\ Gone(c) /\ \A f \in FillsOf(t) : f.maker # c
    /\ \A i, j \in DOMAIN create[t].dropped :
          i # j => create[t].dropped[i] # create[t].dropped[j]
AtTarget(t) ==
    LET k == create[t] IN
    /\ k.pc = "writeMaker" => /\ k.target # t /\ Req(k.target).type = "limit"
                              /\ \A f \in k.makers : f.maker # k.target
    /\ k.pc \in {"writeDropped", "unlockDropped"} =>
          k.copy.filled = rows[k.target].filled /\ k.target \notin Range(k.dropped)
    /\ k.pc \in {"save"} \cup Applying => k.settled = Len(k.fills)
Telling(t) ==
    /\ \A id \in DOMAIN uuid : Tells(t, id)
    /\ FillsDeal(t) /\ DropsKnown(t) /\ AtTarget(t)

\* The rows between the calls, during a match and after it.
RowsTold ==
    /\ taker = NoOrder /\ (\A c \in Calls : create[c].pc \notin After) => Calm
    /\ taker # NoOrder => Matching
    /\ \A t \in Calls : create[t].pc \in After => Telling(t)

\* How many lots the lock of each call is for, at least: what its order has
\* left, and what was traded and not paid for.
Paid(c) == SumOver(Amounts(create[c].fills), 1..create[c].settled)
DueOf(due, id) == due[uuid[id]] >= Remaining(orders[id])
DueAtRest(due, id) ==
    id \in resting \/ cancel[uuid[id]].pc \in {"write", "unlock"} => DueOf(due, id)
DueInCall(due, c) ==
    create[c].pc \in {"insert", "submit", "match"} \cup After /\ Req(c).type = "limit" =>
       due[c] + Paid(c) >= Req(c).qty
DueInMatch(due) ==
    /\ \A i \in DOMAIN result.trades :
          LET t == result.trades[i] IN
          due[uuid[t.maker]] >= t.qty + Remaining(orders[t.maker])
    /\ \A i \in DOMAIN result.canceled : DueOf(due, result.canceled[i])
DueAfter(due, t, id) ==
    /\ Dropping(t, uuid[id]) => DueOf(due, id)
    /\ \A i \in (create[t].settled + 1)..Len(create[t].fills) :
          create[t].fills[i].maker = uuid[id] =>
             due[uuid[id]] >= create[t].fills[i].qty + Remaining(orders[id])
Due(due) ==
    /\ \A id \in DOMAIN uuid : DueAtRest(due, id)
    /\ \A c \in Calls : DueInCall(due, c)
    /\ taker # NoOrder => DueInMatch(due)
    /\ \A t \in Calls : create[t].pc \in After => \A id \in DOMAIN uuid : DueAfter(due, t, id)

\* The locks cover what is due, and the balances the locks.
Share(due, c, u, cur) ==
    IF create[c].pc # "new" /\ Req(c).type = "limit" /\ Req(c).user = u
         /\ Spends(Req(c)) = cur
    THEN Cost(Req(c), due[c], Req(c).price) ELSE 0
Debt(due, u, cur) == SumOver([c \in Calls |-> Share(due, c, u, cur)], Calls)
CoveredIn(due, u, cur) ==
    Debt(due, u, cur) <= locked[u][cur] /\ locked[u][cur] <= bal[u][cur]
Covered(due) == \A u \in Users, cur \in Currencies : CoveredIn(due, u, cur)
\* A market seller has what it sells: nobody else runs who could take it.
SellerFunded(c) ==
    create[c].pc \in {"insert", "submit", "match", "settle"} /\ Req(c).type = "market" =>
       Available(Req(c).user, "base") >= Req(c).qty - Paid(c)
SellersFunded == \A c \in Calls : SellerFunded(c)

Rowwise == Lone /\ Placed /\ RowsTold
Moneywise == SellersFunded /\ \E due \in [Calls -> Nat] : Due(due) /\ Covered(due)
OneByOneInv == crashes = 0 => Rowwise /\ Moneywise

\* Who runs alone.
Ended == {"new", "done", "rejected"}
CallAlone(c) ==
    /\ \A d \in Calls : d # c => create[d].pc \in Ended
    /\ \A d \in Calls : cancel[d].pc \in {"new", "done"}
CancelAlone(c) ==
    /\ \A d \in Calls : create[d].pc \in Ended
    /\ \A d \in Calls : d # c => cancel[d].pc \in {"new", "done"}

LEMMA PcTypes ==
  ASSUME ServiceTypes, NEW c \in Calls
  PROVE  create[c].pc \in CreatePcs /\ cancel[c].pc \in CancelPcs /\ create[c] \in CallRecs
BY DEF ServiceTypes, CallRecs

\* Who is in the book's mutex.
LEMMA TakerMatches ==
  ASSUME Inv, taker # NoOrder
  PROVE  uuid[taker] \in Calls /\ create[uuid[taker]].pc = "match"
BY Names DEF Inv, NamesSound

LEMMA ActiveAlone ==
  ASSUME Inv, Lone, NEW c \in Calls, create[c].pc \notin CreateEnds \cup {"new"}
  PROVE  /\ CallAlone(c) /\ boot.pc = "up" /\ create[c].pc # "undo"
         /\ create[c].pc # "match" => taker = NoOrder
<1>1. ASSUME NEW d \in Calls, d # c PROVE create[d].pc \in Ended
  <2>1. create[d].pc \in CreatePcs
    BY PcTypes DEF Inv
  <2> QED BY <1>1, <2>1 DEF Lone, Active, CreateEnds, CreatePcs, Ended
<1>2. ASSUME NEW d \in Calls PROVE cancel[d].pc \in {"new", "done"}
  <2>1. cancel[d].pc \in CancelPcs
    BY PcTypes DEF Inv
  <2> QED BY <2>1 DEF Lone, Active, Cancelling, CreateEnds, CancelPcs
<1>3. create[c].pc # "match" => taker = NoOrder
  BY <1>1, TakerMatches DEF Ended
<1> QED BY <1>1, <1>2, <1>3 DEF CallAlone, Lone

LEMMA CancelIsAlone ==
  ASSUME Inv, Lone, NEW c \in Calls, cancel[c].pc \in {"engine", "write", "unlock"}
  PROVE  CancelAlone(c) /\ boot.pc = "up" /\ taker = NoOrder
<1>1. ASSUME NEW d \in Calls PROVE create[d].pc \in Ended
  <2>1. create[d].pc \in CreatePcs
    BY PcTypes DEF Inv
  <2> QED BY <2>1 DEF Lone, Active, Cancelling, CreateEnds, CreatePcs, Ended
<1>2. ASSUME NEW d \in Calls, d # c PROVE cancel[d].pc \in {"new", "done"}
  <2>1. cancel[d].pc \in CancelPcs
    BY PcTypes DEF Inv
  <2> QED BY <1>2, <2>1 DEF Lone, Cancelling, CancelPcs
<1>3. taker = NoOrder
  BY <1>1, TakerMatches DEF Ended
<1> QED BY <1>1, <1>2, <1>3 DEF CancelAlone, Lone

\* When a call may start, nobody runs.
LEMMA NobodyRuns ==
  ASSUME Inv, Lone, OneByOne, MayStart
  PROVE  /\ taker = NoOrder /\ boot.pc = "up"
         /\ \A d \in Calls : create[d].pc \in Ended /\ cancel[d].pc \in {"new", "done"}
<1>1. IsFiniteSet(Active) /\ IsFiniteSet(Cancelling)
  <2>1. IsFiniteSet(Calls)
    BY MaxOrdersAssumption, FS_Interval DEF Calls
  <2>2. Active \subseteq Calls /\ Cancelling \subseteq Calls
    BY DEF Active, Cancelling
  <2> QED BY <2>1, <2>2, FS_Subset
<1>2. Cardinality(Active) + Cardinality(Cancelling) < 1
  BY DEF MayStart, OneByOne
<1>3. Active = {} /\ Cancelling = {}
  <2>1. Cardinality(Active) \in Nat /\ Cardinality(Cancelling) \in Nat
    BY <1>1, FS_CardinalityType
  <2>2. Cardinality(Active) = 0 /\ Cardinality(Cancelling) = 0
    BY <1>2, <2>1
  <2> QED BY <1>1, <2>2, FS_EmptySet
<1>4. ASSUME NEW d \in Calls
      PROVE  create[d].pc \in Ended /\ cancel[d].pc \in {"new", "done"}
  <2>1. create[d].pc \in CreatePcs /\ cancel[d].pc \in CancelPcs
    BY PcTypes DEF Inv
  <2> QED BY <1>3, <2>1 DEF Lone, Active, Cancelling, CreateEnds, CreatePcs, CancelPcs, Ended
<1>5. taker = NoOrder
  BY <1>4, TakerMatches DEF Ended
<1> QED BY <1>4, <1>5 DEF Lone

\* One call more, or one step of it.
LEMMA LoneCall ==
  ASSUME NEW c \in Calls, boot'.pc = "up", create'[c].pc \notin {"undo", "failed", "lost"},
         \A d \in Calls : d # c => create'[d].pc \in Ended,
         \A d \in Calls : cancel'[d].pc \in {"new", "done"}
  PROVE  Lone'
BY DEF Lone, Active, Cancelling, CreateEnds, Ended

LEMMA LoneCancel ==
  ASSUME NEW c \in Calls, boot'.pc = "up", cancel'[c].pc \notin {"failed", "lost"},
         \A d \in Calls : create'[d].pc \in Ended,
         \A d \in Calls : d # c => cancel'[d].pc \in {"new", "done"}
  PROVE  Lone'
BY DEF Lone, Active, Cancelling, CreateEnds, Ended

\* A call takes a step and leaves the others, the cancellations and the server.
LEMMA LoneStep ==
  ASSUME Inv, Lone, NEW c \in Calls, CallAlone(c), NEW k, create' = [create EXCEPT ![c] = k],
         k.pc \notin {"undo", "failed", "lost"}, UNCHANGED <<cancel, boot>>
  PROVE  /\ Lone' /\ create'[c] = k
         /\ \A d \in Calls : d # c => create'[d] = create[d]
<1>1. create'[c] = k /\ \A d \in Calls : d # c => create'[d] = create[d]
  BY DEF Inv, ServiceTypes
<1>2. boot'.pc = "up"
  BY DEF Lone
<1> QED BY <1>1, <1>2, LoneCall DEF CallAlone

-----------------------------------------------------------------------------
\* Sums of fills.

LEMMA PartOfFills ==
  ASSUME NEW S, \A x \in S : x.qty \in Nat, NEW q \in Seq(S), NEW n \in 0..Len(q)
  PROVE  /\ SumOver(Amounts(q), 1..n) \in Nat /\ Filled(q) \in Nat
         /\ SumOver(Amounts(q), 1..n) <= Filled(q)
         /\ n = Len(q) => SumOver(Amounts(q), 1..n) = Filled(q)
<1>1. PICK f, l : f = Amounts(q) /\ l = Len(q)
  OBVIOUS
<1>2. l \in Nat /\ DOMAIN q = 1..l /\ \A i \in 1..l : q[i] \in S
  BY <1>1, LenProperties, ElementOfSeq
<1>3. \A i \in 1..l : f[i] \in Nat
  BY <1>1, <1>2 DEF Amounts
<1>4. n \in Nat /\ 1..n \subseteq 1..l
  BY <1>1, <1>2
<1>5. IsFiniteSet(1..l) /\ IsFiniteSet(1..n)
  BY <1>2, <1>4, FS_Interval
<1>6. SumOver(f, 1..n) \in Nat /\ SumOver(f, 1..l) \in Nat
  BY <1>3, <1>4, <1>5, SumNat
<1>7. SumOver(f, 1..n) <= SumOver(f, 1..l)
  BY <1>3, <1>4, <1>5, SumMonotone
<1> QED BY <1>1, <1>2, <1>6, <1>7 DEF Filled

\* The next fill is added.
LEMMA NextFill ==
  ASSUME NEW S, \A x \in S : x.qty \in Nat, NEW q \in Seq(S), NEW n \in Nat, n < Len(q)
  PROVE  /\ SumOver(Amounts(q), 1..(n + 1)) = SumOver(Amounts(q), 1..n) + q[n + 1].qty
         /\ SumOver(Amounts(q), 1..n) + q[n + 1].qty <= Filled(q)
         /\ SumOver(Amounts(q), 1..n) \in Nat /\ q[n + 1].qty \in Nat
<1>1. PICK f, l : f = Amounts(q) /\ l = Len(q)
  OBVIOUS
<1>2. l \in Nat /\ DOMAIN q = 1..l /\ \A i \in 1..l : q[i] \in S
  BY <1>1, LenProperties, ElementOfSeq
<1>3. \A i \in 1..l : f[i] \in Nat /\ f[i] = q[i].qty
  BY <1>1, <1>2 DEF Amounts
<1>4. n + 1 \in 1..l /\ n \in 0..l /\ n + 1 \in 0..l
  BY <1>1, <1>2
<1>5. 1..(n + 1) = (1..n) \cup {n + 1} /\ n + 1 \notin 1..n /\ 1..(n + 1) \subseteq 1..l
  BY <1>2, <1>4
<1>6. SumOver(f, (1..n) \cup {n + 1}) = f[n + 1] + SumOver(f, 1..n)
  <2>1. IsFiniteSet(1..n)
    BY FS_Interval
  <2>2. \A y \in (1..n) \cup {n + 1} : f[y] \in Int
    BY <1>3, <1>5
  <2> QED BY <1>5, <2>1, <2>2, SumAdd
<1>7. SumOver(f, 1..n) \in Nat /\ SumOver(f, 1..(n + 1)) <= Filled(q)
  BY <1>1, <1>4, PartOfFills
<1>8. f[n + 1] = q[n + 1].qty /\ f[n + 1] \in Nat
  BY <1>3, <1>4
<1>9. SumOver(f, 1..(n + 1)) = SumOver(f, 1..n) + q[n + 1].qty
  <2>1. SumOver(f, 1..(n + 1)) = SumOver(f, (1..n) \cup {n + 1})
    BY <1>5
  <2> QED BY <1>6, <1>7, <1>8, <2>1
<1> QED BY <1>1, <1>7, <1>8, <1>9

LEMMA NothingFilled ==
  /\ SumOver(Amounts(<<>>), 1..0) = 0 /\ Filled(<<>>) = 0
  /\ \A f : SumOver(f, 1..0) = 0
<1>1. 1..0 = {} /\ DOMAIN <<>> = {}
  BY EmptySeq
<1> QED BY <1>1, SumOfNone DEF Filled

LEMMA OneMoreFill ==
  ASSUME NEW S, \A x \in S : x.qty \in Nat, NEW q \in Seq(S), NEW x \in S
  PROVE  Filled(Append(q, x)) = Filled(q) + x.qty /\ Filled(q) \in Nat
<1>1. PICK p : p = Append(q, x)
  OBVIOUS
<1>2. PICK l \in Nat : l = Len(q) /\ DOMAIN q = 1..l
  BY LenProperties
<1>3. /\ p \in Seq(S) /\ Len(p) = l + 1 /\ p[l + 1] = x /\ DOMAIN p = 1..(l + 1)
      /\ \A i \in 1..l : p[i] = q[i]
  BY <1>1, <1>2, AppendProperties, LenProperties
<1>4. SumOver(Amounts(p), 1..(l + 1)) = SumOver(Amounts(p), 1..l) + x.qty
  <2>1. p \in Seq(S) /\ l \in Nat /\ l < Len(p)
    BY <1>2, <1>3
  <2>2. SumOver(Amounts(p), 1..(l + 1)) = SumOver(Amounts(p), 1..l) + p[l + 1].qty
    BY <2>1, NextFill
  <2> QED BY <1>3, <2>2
<1>5. SumOver(Amounts(p), 1..l) = SumOver(Amounts(q), 1..l)
  <2>1. PICK f, g : f = Amounts(p) /\ g = Amounts(q)
    OBVIOUS
  <2>2. \A i \in 1..l : f[i] = g[i]
    BY <1>2, <1>3, <2>1 DEF Amounts
  <2>3. IsFiniteSet(1..l)
    BY FS_Interval
  <2> QED BY <2>1, <2>2, <2>3, SumSame
<1>6. Filled(q) \in Nat
  <2>1. l \in 0..Len(q)
    BY <1>2
  <2> QED BY <2>1, PartOfFills
<1> QED BY <1>1, <1>2, <1>3, <1>4, <1>5, <1>6 DEF Filled

\* What WriteTaker adds up is what was filled.
LEMMA SumOfIsFilled ==
  ASSUME NEW q
  PROVE  SumOf(q) = Filled(q)
<1>1. DOMAIN [i \in DOMAIN q |-> q[i].qty] = DOMAIN q
  OBVIOUS
<1> QED BY <1>1 DEF SumOf, Filled, Amounts, SumOver, FoldFunction

\* The fills of a call, as numbers.
LEMMA FillsType ==
  ASSUME Inv, NEW c \in Calls
  PROVE  /\ create[c].fills \in Seq(Fills) /\ create[c].settled \in 0..Len(create[c].fills)
         /\ \A f \in Fills : f.qty \in Nat
         /\ Paid(c) \in Nat /\ Paid(c) <= Filled(create[c].fills) /\ Filled(create[c].fills) \in Nat
         /\ create[c].settled = Len(create[c].fills) => Paid(c) = Filled(create[c].fills)
         /\ create[c].pc \notin After => Paid(c) = 0
         /\ create[c].settled = 0 => Paid(c) = 0
<1>1. create[c] \in CallRecs /\ CallSound(c)
  BY DEF Inv, CallsSound, ServiceTypes
<1>2. /\ create[c].fills \in Seq(Fills) /\ create[c].settled \in Nat
      /\ create[c].settled <= Len(create[c].fills)
  BY <1>1 DEF CallRecs, CallSound
<1>3. create[c].settled \in 0..Len(create[c].fills)
  BY <1>2, LenProperties
<1>4. \A f \in Fills : f.qty \in Nat
  BY DEF Fills
<1>5. create[c].settled = 0 => Paid(c) = 0
  BY NothingFilled DEF Paid
<1>6. create[c].pc \notin After => create[c].settled = 0
  BY <1>1 DEF CallSound
<1> QED BY <1>2, <1>3, <1>4, <1>5, <1>6, PartOfFills DEF Paid

-----------------------------------------------------------------------------
\* Amounts.

LEMMA TimesSplits ==
  ASSUME NEW n \in Nat, NEW q \in Nat, q <= n, NEW p \in Nat
  PROVE  (n - q) * p = n * p - q * p /\ q * p <= n * p /\ n * p \in Nat /\ q * p \in Nat
<1>1. PICK d \in Nat : d = n - q
  OBVIOUS
<1>2. n = d + q
  BY <1>1
<1>3. (d + q) * p = d * p + q * p
  OBVIOUS
<1>4. d * p \in Nat /\ q * p \in Nat /\ n * p \in Nat
  OBVIOUS
<1> QED BY <1>1, <1>2, <1>3, <1>4

LEMMA CostSplits ==
  ASSUME NEW o, NEW n \in Nat, NEW q \in Nat, q <= n, NEW p \in Nat
  PROVE  /\ Cost(o, n - q, p) = Cost(o, n, p) - Cost(o, q, p)
         /\ Cost(o, q, p) <= Cost(o, n, p) /\ Cost(o, q, p) \in Nat /\ Cost(o, n, p) \in Nat
BY TimesSplits DEF Cost

LEMMA CostOfPrice ==
  ASSUME NEW o, NEW n \in Nat, NEW p \in Nat, NEW r \in Nat, p <= r
  PROVE  Cost(o, n, p) <= Cost(o, n, r)
<1>1. p * n <= r * n /\ p * n = n * p /\ r * n = n * r
  BY TimesSplits
<1> QED BY <1>1 DEF Cost

LEMMA CostOfNothing ==
  ASSUME NEW o, NEW p \in Nat
  PROVE  Cost(o, 0, p) = 0
BY DEF Cost

-----------------------------------------------------------------------------
\* Debts.

LEMMA ShareType ==
  ASSUME Inv, NEW due \in [Calls -> Nat], NEW c \in Calls, NEW u \in Users, NEW cur \in Currencies
  PROVE  Share(due, c, u, cur) \in Nat
<1>1. create[c].pc # "new" => Req(c).price \in Nat
  BY Requested, NewOrderFields
<1>2. due[c] \in Nat
  OBVIOUS
<1>3. create[c].pc # "new" => Cost(Req(c), due[c], Req(c).price) \in Nat
  BY <1>1, <1>2, CostType
<1> QED BY <1>3 DEF Share

SharesAreNat ==
    Inv => \A due \in [Calls -> Nat], c \in Calls, u \in Users, cur \in Currencies :
        Share(due, c, u, cur) \in Nat
LEMMA SharesTyped == SharesAreNat
BY ShareType DEF SharesAreNat

LEMMA ShareTypeLater ==
  ASSUME Inv', NEW due \in [Calls -> Nat], NEW c \in Calls, NEW u \in Users, NEW cur \in Currencies
  PROVE  Share(due, c, u, cur)' \in Nat
<1>1. SharesAreNat'
  BY SharesTyped, PTL
<1> QED BY <1>1 DEF SharesAreNat

LEMMA CallsFinite == IsFiniteSet(Calls)
BY MaxOrdersAssumption, FS_Interval DEF Calls

LEMMA DebtType ==
  ASSUME Inv, NEW due \in [Calls -> Nat], NEW u \in Users, NEW cur \in Currencies
  PROVE  /\ Debt(due, u, cur) \in Nat
         /\ \A c \in Calls : Share(due, c, u, cur) <= Debt(due, u, cur)
<1>1. PICK f : f = [c \in Calls |-> Share(due, c, u, cur)]
  OBVIOUS
<1>2. \A c \in Calls : f[c] \in Nat /\ f[c] = Share(due, c, u, cur)
  BY <1>1, ShareType
<1>3. SumOver(f, Calls) \in Nat /\ \A c \in Calls : f[c] <= SumOver(f, Calls)
  BY <1>2, CallsFinite, SumNat
<1> QED BY <1>1, <1>2, <1>3 DEF Debt

\* One share changes, and the debt by as much.
LEMMA DebtMoves ==
  ASSUME Inv, Inv', NEW due \in [Calls -> Nat], NEW late \in [Calls -> Nat], NEW u \in Users, NEW cur \in Currencies,
         NEW x \in Calls, \A d \in Calls \ {x} : Share(late, d, u, cur)' = Share(due, d, u, cur)
  PROVE  Debt(late, u, cur)' = Debt(due, u, cur) + (Share(late, x, u, cur)' - Share(due, x, u, cur))
<1>1. PICK f, g : /\ f = [c \in Calls |-> Share(due, c, u, cur)]
                  /\ g = [c \in Calls |-> Share(late, c, u, cur)']
  OBVIOUS
<1>2. ASSUME NEW c \in Calls PROVE f[c] \in Int /\ f[c] = Share(due, c, u, cur)
  BY <1>1, ShareType
<1>3. ASSUME NEW c \in Calls PROVE g[c] \in Int /\ g[c] = Share(late, c, u, cur)'
  BY <1>1, ShareTypeLater
<1>4. \A y \in Calls \ {x} : f[y] = g[y]
  BY <1>2, <1>3
<1>5. SumOver(g, Calls) = SumOver(f, Calls) + (g[x] - f[x])
  BY <1>2, <1>3, <1>4, CallsFinite, SumChange
<1>6. Debt(late, u, cur)' = SumOver(g, Calls)
  BY <1>1 DEF Debt
<1> QED BY <1>1, <1>2, <1>3, <1>5, <1>6 DEF Debt

LEMMA DebtStays ==
  ASSUME NEW due \in [Calls -> Nat], NEW late \in [Calls -> Nat], NEW u \in Users, NEW cur \in Currencies,
         \A d \in Calls : Share(late, d, u, cur)' = Share(due, d, u, cur)
  PROVE  Debt(late, u, cur)' = Debt(due, u, cur)
<1>1. PICK f : f = [c \in Calls |-> Share(due, c, u, cur)]
  OBVIOUS
<1>2. PICK g : g = [c \in Calls |-> Share(late, c, u, cur)']
  OBVIOUS
<1>3. f = g
  BY <1>1, <1>2
<1> QED BY <1>1, <1>2, <1>3 DEF Debt

\* A call asks for what it asked for.
SameAsk(d) ==
    /\ create'[d].pc = "new" <=> create[d].pc = "new"
    /\ create'[d].req = create[d].req

LEMMA ShareStays ==
  ASSUME NEW due \in [Calls -> Nat], NEW late \in [Calls -> Nat], NEW d \in Calls, late[d] = due[d], SameAsk(d),
         NEW u \in Users, NEW cur \in Currencies
  PROVE  Share(late, d, u, cur)' = Share(due, d, u, cur)
BY DEF SameAsk, Share, Req

\* The part of r lots in a share.
PartOf(d, r, u, cur) ==
    IF create[d].pc # "new" /\ Req(d).type = "limit" /\ Req(d).user = u
         /\ Spends(Req(d)) = cur
    THEN Cost(Req(d), r, Req(d).price) ELSE 0

LEMMA ShareFalls ==
  ASSUME Inv, NEW due \in [Calls -> Nat], NEW late \in [Calls -> Nat], NEW d \in Calls, NEW r \in Nat,
         due[d] = late[d] + r, SameAsk(d), NEW u \in Users, NEW cur \in Currencies
  PROVE  /\ Share(late, d, u, cur)' = Share(due, d, u, cur) - PartOf(d, r, u, cur)
         /\ PartOf(d, r, u, cur) \in Nat /\ PartOf(d, r, u, cur) <= Share(due, d, u, cur)
         /\ Share(due, d, u, cur) \in Nat
<1>1. create[d].pc # "new" => Req(d).price \in Nat
  BY Requested, NewOrderFields
<1>2. due[d] \in Nat /\ late[d] \in Nat /\ late[d] = due[d] - r /\ r <= due[d]
  OBVIOUS
<1>3. create[d].pc # "new" =>
        /\ Cost(Req(d), late[d], Req(d).price) = Cost(Req(d), due[d], Req(d).price) - Cost(Req(d), r, Req(d).price)
        /\ Cost(Req(d), r, Req(d).price) \in Nat /\ Cost(Req(d), due[d], Req(d).price) \in Nat
        /\ Cost(Req(d), r, Req(d).price) <= Cost(Req(d), due[d], Req(d).price)
  BY <1>1, <1>2, CostSplits
<1> QED BY <1>3 DEF Share, PartOf, SameAsk, Req

LEMMA ShareRises ==
  ASSUME Inv, NEW due \in [Calls -> Nat], NEW late \in [Calls -> Nat], NEW d \in Calls, NEW r \in Nat,
         late[d] = due[d] + r, SameAsk(d), NEW u \in Users, NEW cur \in Currencies
  PROVE  /\ Share(late, d, u, cur)' = Share(due, d, u, cur) + PartOf(d, r, u, cur)
         /\ PartOf(d, r, u, cur) \in Nat /\ Share(due, d, u, cur) \in Nat
<1>1. create[d].pc # "new" => Req(d).price \in Nat
  BY Requested, NewOrderFields
<1>2. due[d] \in Nat /\ late[d] \in Nat /\ due[d] = late[d] - r /\ r <= late[d]
  OBVIOUS
<1>3. create[d].pc # "new" =>
        /\ Cost(Req(d), due[d], Req(d).price) = Cost(Req(d), late[d], Req(d).price) - Cost(Req(d), r, Req(d).price)
        /\ Cost(Req(d), r, Req(d).price) \in Nat /\ Cost(Req(d), late[d], Req(d).price) \in Nat
        /\ Cost(Req(d), due[d], Req(d).price) \in Nat
  <2>1. due[d] = due[d] - 0 /\ 0 <= due[d]
    BY <1>2
  <2> QED BY <1>1, <1>2, <2>1, CostSplits
<1> QED BY <1>3 DEF Share, PartOf, SameAsk, Req

LEMMA CoveredStays ==
  ASSUME NEW due \in [Calls -> Nat], Covered(due), UNCHANGED wallets, \A d \in Calls : SameAsk(d)
  PROVE  Covered(due)'
<1>1. ASSUME NEW d \in Calls, NEW u \in Users, NEW cur \in Currencies PROVE Share(due, d, u, cur)' = Share(due, d, u, cur)
  BY DEF SameAsk, Share, Req
<1>2. \A u \in Users, cur \in Currencies : Debt(due, u, cur)' = Debt(due, u, cur)
  BY <1>1, DebtStays
<1> QED BY <1>2 DEF Covered, CoveredIn, wallets

\* A lock is released by what is due no longer.
LEMMA CoveredRelease ==
  ASSUME Inv, Inv', NEW due \in [Calls -> Nat], Covered(due), NEW m \in Calls,
         create[m].pc # "new", Req(m).type = "limit", NEW r \in Nat,
         NEW late \in [Calls -> Nat], due[m] = late[m] + r, \A d \in Calls \ {m} : late[d] = due[d],
         \A d \in Calls : SameAsk(d),
         Unlock(Req(m).user, Spends(Req(m)), Cost(Req(m), r, Req(m).price))
  PROVE  Covered(late)'
<1>1. PICK v, c0, amount : v = Req(m).user /\ c0 = Spends(Req(m)) /\ amount = Cost(Req(m), r, Req(m).price)
  OBVIOUS
<1>2. /\ locked \in [Users -> [Currencies -> Nat]] /\ bal \in [Users -> [Currencies -> Int]]
      /\ v \in Users /\ c0 \in Currencies
      /\ locked' = [locked EXCEPT ![v][c0] = Floor0(@ - amount)] /\ bal' = bal
  <2>1. v \in Users /\ c0 \in Currencies
    <3>1. Req(m) \in NewOrders /\ 0 \in Nat
      BY Requested
    <3> QED BY <1>1, <3>1, LockOfType
  <2> QED BY <1>1, <2>1 DEF Unlock, Inv, ServiceTypes
<1>4. SUFFICES ASSUME NEW u \in Users, NEW cur \in Currencies PROVE CoveredIn(late, u, cur)'
  BY DEF Covered
<1>5. /\ Share(late, m, u, cur)' = Share(due, m, u, cur) - PartOf(m, r, u, cur)
      /\ PartOf(m, r, u, cur) \in Nat /\ PartOf(m, r, u, cur) <= Share(due, m, u, cur)
      /\ Share(due, m, u, cur) \in Nat
  <2>1. due[m] = late[m] + r /\ SameAsk(m)
    OBVIOUS
  <2> QED BY <2>1, ShareFalls
<1>6. ASSUME NEW d \in Calls \ {m} PROVE Share(late, d, u, cur)' = Share(due, d, u, cur)
  <2>1. late[d] = due[d] /\ SameAsk(d)
    OBVIOUS
  <2> QED BY <2>1, ShareStays
<1>7. Debt(late, u, cur)' = Debt(due, u, cur) - PartOf(m, r, u, cur)
  <2>0. Inv /\ Inv' /\ m \in Calls
    OBVIOUS
  <2>1. Debt(late, u, cur)' = Debt(due, u, cur) + (Share(late, m, u, cur)' - Share(due, m, u, cur))
    BY <1>6, <2>0, DebtMoves
  <2>2. Debt(due, u, cur) \in Nat
    BY DebtType
  <2> QED BY <1>5, <2>1, <2>2
<1>8. /\ Debt(due, u, cur) <= locked[u][cur] /\ locked[u][cur] <= bal[u][cur]
      /\ Debt(due, u, cur) \in Nat /\ Share(due, m, u, cur) <= Debt(due, u, cur)
      /\ locked[u][cur] \in Nat /\ bal[u][cur] \in Int
  BY <1>2, DebtType DEF Covered, CoveredIn
<1>9. CASE u = v /\ cur = c0
  <2>1. PartOf(m, r, u, cur) = amount
    BY <1>1, <1>9 DEF PartOf
  <2>2. locked'[u][cur] = Floor0(locked[u][cur] - amount)
    BY <1>2, <1>9
  <2>3. locked'[u][cur] = locked[u][cur] - amount
    BY <1>5, <1>8, <2>1, <2>2 DEF Floor0
  <2> QED BY <1>2, <1>5, <1>7, <1>8, <2>1, <2>3 DEF CoveredIn
<1>10. CASE ~ (u = v /\ cur = c0)
  <2>1. PartOf(m, r, u, cur) = 0
    BY <1>1, <1>10 DEF PartOf
  <2>2. locked'[u][cur] = locked[u][cur]
    BY <1>2, <1>10
  <2> QED BY <1>2, <1>7, <1>8, <2>1, <2>2 DEF CoveredIn
<1> QED BY <1>9, <1>10

LEMMA SameAsks ==
  ASSUME UNCHANGED create
  PROVE  \A d \in Calls : SameAsk(d)
BY DEF SameAsk

\* What an order has left is what the service works out from its row.
LEMMA LeftByRow ==
  ASSUME Inv, NEW id \in DOMAIN uuid
  PROVE  /\ uuid[id] \in Calls /\ create[uuid[id]].pc # "new" /\ id \in 1..Len(orders)
         /\ Req(uuid[id]).qty - orders[id].filled = Remaining(orders[id])
         /\ Remaining(orders[id]) \in Nat
         /\ orders[id].qty = Req(uuid[id]).qty /\ orders[id].type = Req(uuid[id]).type
         /\ orders[id].filled \in Nat /\ orders[id].qty \in Nat /\ orders[id].filled <= orders[id].qty
<1>1. id \in 1..Len(orders) /\ uuid[id] \in Calls /\ orders \in Seq(Orders)
  BY Names DEF Inv, BookSound
<1>2. /\ orders[id].qty = Req(uuid[id]).qty /\ orders[id].type = Req(uuid[id]).type
      /\ create[uuid[id]].pc # "new"
  BY DEF Inv, NamesSound, Before
<1>3. orders[id].qty \in Nat /\ orders[id].filled \in Nat /\ orders[id].filled <= orders[id].qty
  BY <1>1, OrderFields DEF Inv, BookSound
<1> QED BY <1>1, <1>2, <1>3 DEF Remaining

-----------------------------------------------------------------------------
\* CreateOrder up to the book: nobody's row and nobody's order change.

LEMMA NotYetPlaced ==
  ASSUME Inv, NEW c \in Calls, create[c].pc \in Before
  PROVE  \A id \in DOMAIN uuid : uuid[id] \in Calls \ {c}
BY Names DEF Inv, NamesSound

LEMMA PaidNothing ==
  ASSUME Inv', NEW c \in Calls, create'[c].pc \notin After
  PROVE  Paid(c)' = 0
<1>1. create'[c].settled = 0
  BY DEF Inv, CallsSound, CallSound
<1>2. PICK f : f = Amounts(create[c].fills)'
  OBVIOUS
<1>3. SumOver(f, 1..0) = 0
  BY NothingFilled
<1> QED BY <1>1, <1>2, <1>3 DEF Paid

LEMMA BeforeRows ==
  ASSUME Inv, Rowwise, NEW c \in Calls, CallAlone(c), taker = NoOrder,
         create[c].pc \in Before, NEW k, create' = [create EXCEPT ![c] = k],
         k.pc \in {"check", "lock", "insert", "submit", "rejected"},
         k.req.type = "limit" \/ k.req.side = "sell", k.pc = "lock" => k.req.type = "limit",
         NEW r, rows' = [rows EXCEPT ![c] = r], r # NoRow => k.pc = "submit",
         UNCHANGED <<book, uuid, cancel, boot>>
  PROVE  Rowwise'
<1>1. /\ Lone' /\ create'[c] = k
      /\ \A d \in Calls : d # c => create'[d] = create[d]
  BY LoneStep DEF Rowwise
<1>2. rows'[c] = r /\ \A d \in Calls : d # c => rows'[d] = rows[d]
  BY DEF Inv, ServiceTypes
<1>3. \A id \in DOMAIN uuid : uuid[id] \in Calls \ {c}
  BY NotYetPlaced
<1>4. UNCHANGED <<orders, resting, taker, result, uuid, cancel>>
  BY DEF book
<1>5. \A d : (Known(d)' <=> Known(d)) /\ (Gone(d)' <=> Gone(d))
  BY <1>4 DEF Known, Gone
<1>6. Placed'
  <2>1. ASSUME NEW d \in Calls, d # c PROVE PlacedCall(d)'
    <3>1. PlacedCall(d)
      BY DEF Rowwise, Placed
    <3> QED BY <1>1, <1>2, <1>4, <1>5, <2>1, <3>1 DEF PlacedCall, Req
  <2>2. PlacedCall(c)'
    <3>1. cancel'[c].pc \in {"new", "done"}
      BY <1>4 DEF CallAlone
    <3> QED BY <1>1, <1>2, <3>1 DEF PlacedCall, Req
  <2> QED BY <2>1, <2>2 DEF Placed
<1>7. Calm
  <2>1. \A d \in Calls : create[d].pc \notin After
    BY DEF CallAlone, Ended, Before, After, Applying
  <2> QED BY <2>1 DEF Rowwise, RowsTold
<1>8. Calm'
  <2>1. ASSUME NEW id \in DOMAIN uuid
        PROVE  Counts(id)' /\ (cancel'[uuid[id]].pc # "write" => Shows(id)')
    <3>1. Counts(id) /\ (cancel[uuid[id]].pc # "write" => Shows(id))
      BY <1>7 DEF Calm
    <3>2. rows'[uuid[id]] = rows[uuid[id]]
      BY <1>2, <1>3
    <3> QED BY <1>4, <3>1, <3>2 DEF Counts, Shows, ShowsAs
  <2>2. \A d \in Calls : cancel'[d].pc \in {"new", "done"}
    BY <1>4 DEF CallAlone
  <2> QED BY <1>4, <2>1, <2>2 DEF Calm
<1>9. \A d \in Calls : create'[d].pc \notin After
  BY <1>1 DEF CallAlone, Ended, After, Applying
<1>10. RowsTold'
  BY <1>4, <1>8, <1>9 DEF RowsTold
<1> QED BY <1>1, <1>6, <1>10 DEF Rowwise

LEMMA BeforeDue ==
  ASSUME Inv, Inv', NEW c \in Calls, CallAlone(c), taker = NoOrder,
         create[c].pc \in Before, NEW k, create' = [create EXCEPT ![c] = k],
         k.pc \in {"check", "lock", "insert", "submit", "rejected"},
         UNCHANGED <<book, uuid, cancel>>,
         NEW due \in [Calls -> Nat], Due(due), NEW late \in [Calls -> Nat],
         \A d \in Calls \ {c} : late[d] = due[d],
         k.pc \in {"insert", "submit"} /\ k.req.type = "limit" => late[c] >= k.req.qty
  PROVE  Due(late)'
<1>1. create'[c] = k /\ \A d \in Calls : d # c => create'[d] = create[d]
  BY DEF Inv, ServiceTypes
<1>2. \A id \in DOMAIN uuid : uuid[id] \in Calls \ {c}
  BY NotYetPlaced
<1>3. UNCHANGED <<orders, resting, taker, uuid, cancel>>
  BY DEF book
<1>4. ASSUME NEW id \in DOMAIN uuid PROVE DueAtRest(late, id)'
  <2>1. late[uuid[id]] = due[uuid[id]]
    BY <1>2
  <2>2. DueAtRest(due, id)
    BY DEF Due
  <2> QED BY <1>3, <2>1, <2>2 DEF DueAtRest, DueOf
<1>5. \A d \in Calls : create'[d].pc \notin After
  BY <1>1 DEF CallAlone, Ended, After, Applying
<1>6. ASSUME NEW d \in Calls PROVE DueInCall(late, d)'
  <2>1. CASE d = c
    <3>1. Paid(c)' = 0
      BY <1>5, PaidNothing
    <3>2. late[c] \in Nat
      OBVIOUS
    <3> QED BY <1>1, <1>5, <2>1, <3>1, <3>2 DEF DueInCall, Req, After, Applying
  <2>2. CASE d # c
    BY <1>1, <1>5, <2>2 DEF DueInCall, CallAlone, Ended
  <2> QED BY <2>1, <2>2
<1> QED BY <1>3, <1>4, <1>5, <1>6 DEF Due

\* A seller at the market is alone.
LEMMA BeforeSellers ==
  ASSUME Inv, Inv', NEW c \in Calls, CallAlone(c), NEW k, create' = [create EXCEPT ![c] = k],
         k.pc \in {"check", "lock", "insert", "submit", "rejected"},
         k.pc \in {"insert", "submit"} /\ k.req.type = "market" =>
            UNCHANGED wallets /\ Available(k.req.user, "base") >= k.req.qty
  PROVE  SellersFunded'
<1>1. create'[c] = k /\ \A d \in Calls : d # c => create'[d] = create[d]
  BY DEF Inv, ServiceTypes
<1>2. ASSUME NEW d \in Calls PROVE SellerFunded(d)'
  <2>1. CASE d = c
    <3>1. Paid(c)' = 0
      BY <1>1, PaidNothing DEF After, Applying
    <3>2. ASSUME create'[c].pc \in {"insert", "submit", "match", "settle"}, Req(c)'.type = "market"
          PROVE  Available(Req(c).user, "base")' >= Req(c)'.qty - Paid(c)'
      <4>1. k.pc \in {"insert", "submit"} /\ k.req.type = "market" /\ Req(c)' = k.req
        BY <1>1, <3>2 DEF Req
      <4>2. k.req.qty \in Nat
        <5>1. k.req \in NewOrders
          BY <1>1, <4>1 DEF Inv, CallsSound, CallSound
        <5> QED BY <5>1, NewOrderFields
      <4>3. Available(Req(c).user, "base")' = Available(k.req.user, "base")
        BY <4>1 DEF Available, wallets
      <4> QED BY <3>1, <4>1, <4>2, <4>3
    <3> QED BY <2>1, <3>2 DEF SellerFunded
  <2>2. CASE d # c
    BY <1>1, <2>2 DEF SellerFunded, CallAlone, Ended
  <2> QED BY <2>1, <2>2
<1> QED BY <1>2 DEF SellersFunded

LEMMA StartCreateKeeps ==
  ASSUME Inv, Inv', Rowwise, Moneywise, OneByOne, NEW c \in Calls, NEW o \in Inputs, StartCreate(c, o)
  PROVE  Rowwise' /\ Moneywise'
<1>0. PICK k : k = Bare("check", o)
  OBVIOUS
<1>1. /\ create[c].pc = "new" /\ MayStart /\ create' = [create EXCEPT ![c] = k]
      /\ UNCHANGED <<book, uuid, rows, trades, wallets, cancel, boot, crashes>>
  BY <1>0 DEF StartCreate, Bare
<1>2. k.pc = "check" /\ k.req = o /\ (o.type = "limit" \/ o.side = "sell")
  <2>1. k.pc = "check" /\ k.req = o
    BY <1>0, BareRecord
  <2> QED BY <2>1 DEF OneByOne
<1>3. taker = NoOrder /\ CallAlone(c)
  BY <1>1, NobodyRuns DEF Rowwise, CallAlone
<1>4. rows' = [rows EXCEPT ![c] = rows[c]] /\ rows[c] = NoRow
  BY <1>1 DEF Inv, ServiceTypes, RowsSound
<1>5. create[c].pc \in Before
  BY <1>1 DEF Before
<1>6. Rowwise'
  BY <1>1, <1>2, <1>3, <1>4, <1>5, BeforeRows
<1>7. SellersFunded'
  BY <1>1, <1>2, <1>3, BeforeSellers
<1>8. PICK due \in [Calls -> Nat] : Due(due) /\ Covered(due)
  BY DEF Moneywise
<1>9. PICK late \in [Calls -> Nat] : late[c] = 0 /\ \A d \in Calls \ {c} : late[d] = due[d]
  <2>1. [due EXCEPT ![c] = 0] \in [Calls -> Nat]
    OBVIOUS
  <2> QED BY <2>1
<1>10. Due(late)'
  BY <1>1, <1>2, <1>3, <1>5, <1>8, <1>9, BeforeDue
<1>11. create'[c] = k /\ \A d \in Calls \ {c} : SameAsk(d)
  BY <1>1 DEF Inv, ServiceTypes, SameAsk
<1>12. ASSUME NEW u \in Users, NEW cur \in Currencies PROVE Debt(late, u, cur)' = Debt(due, u, cur)
  <2> SUFFICES ASSUME NEW d \in Calls PROVE Share(late, d, u, cur)' = Share(due, d, u, cur)
    BY DebtStays
  <2>1. CASE d = c
    <3>1. Share(due, d, u, cur) = 0
      BY <1>1, <2>1 DEF Share
    <3>2. k.req.price \in Nat
      BY <1>2, InputsAssumption, NewOrderFields
    <3>3. Cost(k.req, 0, k.req.price) = 0
      BY <3>2, CostOfNothing
    <3>4. Share(late, d, u, cur)' = 0
      BY <1>9, <1>11, <2>1, <3>3 DEF Share, Req
    <3> QED BY <3>1, <3>4
  <2>2. CASE d # c
    <3>1. late[d] = due[d] /\ SameAsk(d)
      BY <1>9, <1>11, <2>2
    <3> QED BY <3>1, ShareStays
  <2> QED BY <2>1, <2>2
<1>13. Covered(late)'
  BY <1>1, <1>8, <1>12 DEF Covered, CoveredIn, wallets
<1> QED BY <1>6, <1>7, <1>10, <1>13 DEF Moneywise

\* A call goes on to k, and the wallets stay.
LEMMA BeforeKeeps ==
  ASSUME Inv, Inv', Rowwise, Moneywise, NEW c \in Calls, CallAlone(c), taker = NoOrder,
         create[c].pc \in Before \ {"new"}, NEW k, create' = [create EXCEPT ![c] = k],
         k.pc \in {"insert", "lock", "submit", "rejected"}, k.req = create[c].req,
         k.pc = "lock" => Req(c).type = "limit",
         k.pc \in {"insert", "submit"} /\ Req(c).type = "limit" =>
            create[c].pc \in {"insert", "submit"},
         k.pc \in {"insert", "submit"} /\ Req(c).type = "market" =>
            Available(Req(c).user, "base") >= Req(c).qty,
         NEW r, rows' = [rows EXCEPT ![c] = r], r # NoRow => k.pc = "submit",
         UNCHANGED <<book, uuid, cancel, boot, wallets>>
  PROVE  Rowwise' /\ Moneywise'
<1>1. k.req = Req(c) /\ (Req(c).type = "limit" \/ Req(c).side = "sell") /\ create[c].pc \in Before
  BY DEF Rowwise, Placed, PlacedCall, Req
<1>2. Rowwise'
  BY <1>1, BeforeRows
<1>3. SellersFunded'
  BY <1>1, BeforeSellers
<1>4. PICK due \in [Calls -> Nat] : Due(due) /\ Covered(due)
  BY DEF Moneywise
<1>5. k.pc \in {"insert", "submit"} /\ k.req.type = "limit" => due[c] >= k.req.qty
  <2>1. DueInCall(due, c) /\ Paid(c) = 0 /\ due[c] \in Nat
    BY <1>1, <1>4, FillsType DEF Due, Before, After, Applying
  <2> QED BY <1>1, <2>1 DEF DueInCall
<1>6. Due(due)'
  BY <1>1, <1>4, <1>5, BeforeDue
<1>7. \A d \in Calls : SameAsk(d)
  <2>1. create'[c] = k /\ \A d \in Calls : d # c => create'[d] = create[d]
    BY DEF Inv, ServiceTypes
  <2> QED BY <1>1, <2>1 DEF SameAsk, Before, Req
<1>8. Covered(due)'
  BY <1>4, <1>7, CoveredStays
<1> QED BY <1>2, <1>3, <1>4, <1>6, <1>8 DEF Moneywise

LEMMA CheckKeeps ==
  ASSUME Inv, Inv', Rowwise, Moneywise, NEW c \in Calls, Check(c)
  PROVE  Rowwise' /\ Moneywise'
<1> DEFINE o == Req(c)
           short == /\ o.type = "limit" \/ o.side = "sell"
                    /\ Available(o.user, Spends(o)) < Cost(o, o.qty, o.price)
<1>1. /\ create[c].pc = "check"
      /\ UNCHANGED <<book, uuid, rows, trades, wallets, cancel, boot, crashes>>
      /\ IF short THEN End(c, "rejected") ELSE Goto(c, IF o.type = "limit" THEN "lock" ELSE "insert")
  BY DEF Check
<1>2. o \in NewOrders /\ o.qty \in Nat
  BY <1>1, Requested, NewOrderFields
<1>3. CallAlone(c) /\ taker = NoOrder
  BY <1>1, ActiveAlone DEF Rowwise, CreateEnds
<1>4. rows' = [rows EXCEPT ![c] = rows[c]] /\ rows[c] = NoRow
  BY <1>1 DEF Inv, ServiceTypes, Rowwise, Placed, PlacedCall, After, Applying
<1>5. create[c].pc \in Before \ {"new"}
  BY <1>1 DEF Before
<1>6. PICK k : /\ create' = [create EXCEPT ![c] = k] /\ k.req = create[c].req
               /\ k.pc = IF short THEN "rejected" ELSE IF o.type = "limit" THEN "lock" ELSE "insert"
  <2>1. CASE short
    <3>1. PICK k : k = Bare("rejected", o)
      OBVIOUS
    <3>2. k.pc = "rejected" /\ k.req = create[c].req
      BY <3>1, BareRecord DEF Req
    <3> QED BY <1>1, <2>1, <3>1, <3>2 DEF End, Bare
  <2>2. CASE ~ short
    <3>1. PICK q : q = IF o.type = "limit" THEN "lock" ELSE "insert"
      OBVIOUS
    <3>2. PICK k : k = [create[c] EXCEPT !.pc = q]
      OBVIOUS
    <3>3. create[c] \in CallRecs
      BY DEF Inv, ServiceTypes
    <3>4. k.pc = q /\ k.req = create[c].req
      BY <3>2, <3>3 DEF CallRecs
    <3> QED BY <1>1, <2>2, <3>1, <3>2, <3>4 DEF Goto
  <2> QED BY <2>1, <2>2
<1>7. k.pc \in {"insert", "submit"} => o.type = "market" /\ Available(o.user, "base") >= o.qty
  <2>1. ASSUME k.pc \in {"insert", "submit"}
        PROVE  o.type = "market" /\ Available(o.user, "base") >= o.qty
    <3>1. ~ short /\ o.type # "limit"
      BY <1>6, <2>1
    <3>2. o.type = "market" /\ o.side = "sell"
      <4>1. o.type \in Types /\ (o.type = "limit" \/ o.side = "sell")
        BY <1>1, <1>2 DEF NewOrders, Rowwise, Placed, PlacedCall
      <4> QED BY <3>1, <4>1 DEF Types
    <3>3. Spends(o) = "base" /\ Cost(o, o.qty, o.price) = o.qty
      BY <3>2 DEF Spends, Cost
    <3>4. Available(o.user, "base") \in Int
      <4>1. o.user \in Users /\ "base" \in Currencies
        BY <1>2, NewOrderFields DEF Currencies
      <4> QED BY <4>1 DEF Available, Inv, ServiceTypes
    <3> HIDE DEF o
    <3> QED BY <1>2, <3>1, <3>2, <3>3, <3>4
  <2> QED BY <2>1
<1>8. /\ k.pc \in {"insert", "lock", "submit", "rejected"} /\ (k.pc = "lock" => o.type = "limit")
      /\ rows[c] # NoRow => k.pc = "submit"
  BY <1>4, <1>6
<1> HIDE DEF short
<1> QED BY <1>1, <1>3, <1>4, <1>5, <1>6, <1>7, <1>8, BeforeKeeps

LEMMA LockKeeps ==
  ASSUME Inv, Inv', Rowwise, Moneywise, NEW c \in Calls, Lock(c)
  PROVE  Rowwise' /\ Moneywise'
<1> DEFINE o == Req(c)
<1>1. create[c].pc = "lock" /\ UNCHANGED <<book, uuid, rows, trades, bal, cancel, boot, crashes>>
  BY DEF Lock
<1>2. o \in NewOrders /\ o.qty \in Nat /\ o.price \in Nat /\ o.user \in Users /\ o.type = "limit"
  BY <1>1, Requested, NewOrderFields DEF Rowwise, Placed, PlacedCall
<1>3. CallAlone(c) /\ taker = NoOrder /\ create[c].pc \in Before \ {"new"}
  BY <1>1, ActiveAlone DEF Rowwise, CreateEnds, Before
<1>4. rows' = [rows EXCEPT ![c] = rows[c]] /\ rows[c] = NoRow
  BY <1>1 DEF Inv, ServiceTypes, Rowwise, Placed, PlacedCall, After, Applying
<1>5. CASE End(c, "rejected") /\ UNCHANGED locked
  <2>1. PICK k : k = Bare("rejected", o)
    OBVIOUS
  <2>2. k.pc = "rejected" /\ k.req = create[c].req /\ create' = [create EXCEPT ![c] = k]
    <3>1. k.pc = "rejected" /\ k.req = create[c].req
      BY <2>1, BareRecord DEF Req
    <3> QED BY <1>5, <2>1, <3>1 DEF End, Bare
  <2>3. UNCHANGED wallets
    BY <1>1, <1>5 DEF wallets
  <2> QED BY <1>1, <1>3, <1>4, <2>2, <2>3, BeforeKeeps
<1>6. CASE /\ ~ Available(o.user, Spends(o)) < LockOf(c, 0)
           /\ locked' = [locked EXCEPT ![o.user][Spends(o)] = @ + LockOf(c, 0)]
           /\ Goto(c, "insert")
  <2>1. PICK k : k = [create[c] EXCEPT !.pc = "insert"]
    OBVIOUS
  <2>2. k.pc = "insert" /\ k.req = create[c].req /\ create' = [create EXCEPT ![c] = k]
    <3>1. create[c] \in CallRecs
      BY DEF Inv, ServiceTypes
    <3>2. k.pc = "insert" /\ k.req = create[c].req
      BY <2>1, <3>1 DEF CallRecs
    <3> QED BY <1>6, <2>1, <3>2 DEF Goto
  <2>3. Rowwise'
    BY <1>1, <1>2, <1>3, <1>4, <2>2, BeforeRows DEF Req
  <2>4. SellersFunded'
    <3>1. k.req.type # "market"
      BY <1>2, <2>2 DEF Req
    <3> QED BY <1>3, <2>2, <3>1, BeforeSellers
  <2>5. PICK due \in [Calls -> Nat] : Due(due) /\ Covered(due)
    BY DEF Moneywise
  <2>6. PICK late \in [Calls -> Nat] : /\ late[c] = due[c] + o.qty
                                       /\ \A d \in Calls \ {c} : late[d] = due[d]
    <3>1. [due EXCEPT ![c] = @ + o.qty] \in [Calls -> Nat]
      BY <1>2
    <3> QED BY <3>1
  <2>7. Due(late)'
    <3>1. late[c] >= k.req.qty
      BY <1>2, <2>2, <2>6 DEF Req
    <3> QED BY <1>1, <1>3, <2>2, <2>5, <2>6, <3>1, BeforeDue
  <2>8. \A d \in Calls : SameAsk(d)
    BY <1>1, <2>2 DEF Inv, ServiceTypes, SameAsk
  <2>9. PICK v, c0, amount : v = o.user /\ c0 = Spends(o) /\ amount = LockOf(c, 0)
    OBVIOUS
  <2>10. /\ locked \in [Users -> [Currencies -> Nat]] /\ bal \in [Users -> [Currencies -> Int]]
         /\ v \in Users /\ c0 \in Currencies /\ amount \in Nat /\ bal' = bal
         /\ locked' = [locked EXCEPT ![v][c0] = @ + amount]
         /\ bal[v][c0] - locked[v][c0] >= amount
    <3>1. v \in Users /\ c0 \in Currencies /\ amount \in Nat
      <4>1. 0 \in Nat
        OBVIOUS
      <4> QED BY <1>2, <2>9, <4>1, LockOfType
    <3>2. locked \in [Users -> [Currencies -> Nat]] /\ bal \in [Users -> [Currencies -> Int]]
      BY DEF Inv, ServiceTypes
    <3>3. ~ bal[v][c0] - locked[v][c0] < amount
      BY <1>6, <2>9 DEF Available
    <3> HIDE DEF o
    <3> QED BY <1>1, <1>6, <2>9, <3>1, <3>2, <3>3
  <2> HIDE DEF o
  <2>11. ASSUME NEW u \in Users, NEW cur \in Currencies PROVE CoveredIn(late, u, cur)'
    <3>1. /\ Share(late, c, u, cur)' = Share(due, c, u, cur) + PartOf(c, o.qty, u, cur)
          /\ PartOf(c, o.qty, u, cur) \in Nat /\ Share(due, c, u, cur) \in Nat
      BY <1>2, <2>6, <2>8, ShareRises
    <3>2. ASSUME NEW d \in Calls \ {c} PROVE Share(late, d, u, cur)' = Share(due, d, u, cur)
      <4>1. late[d] = due[d] /\ SameAsk(d)
        BY <2>6, <2>8
      <4> QED BY <4>1, ShareStays
    <3>3. Debt(late, u, cur)' = Debt(due, u, cur) + PartOf(c, o.qty, u, cur)
      <4>1. Debt(late, u, cur)' = Debt(due, u, cur) + (Share(late, c, u, cur)' - Share(due, c, u, cur))
        BY <3>2, DebtMoves
      <4>2. Debt(due, u, cur) \in Nat
        BY DebtType
      <4> QED BY <3>1, <4>1, <4>2
    <3>4. /\ Debt(due, u, cur) <= locked[u][cur] /\ locked[u][cur] <= bal[u][cur]
          /\ Debt(due, u, cur) \in Nat /\ locked[u][cur] \in Nat /\ bal[u][cur] \in Int
      BY <2>5, <2>10, DebtType DEF Covered, CoveredIn
    <3>5. CASE u = v /\ cur = c0
      <4>1. PartOf(c, o.qty, u, cur) = amount
        <5>1. o.qty - 0 = o.qty /\ Req(c) = o
          BY <1>2 DEF o
        <5> QED BY <1>1, <1>2, <2>9, <3>5, <5>1 DEF PartOf, LockOf
      <4>2. locked'[u][cur] = locked[u][cur] + amount
        BY <2>10, <3>5
      <4> QED BY <2>10, <3>3, <3>4, <3>5, <4>1, <4>2 DEF CoveredIn
    <3>6. CASE ~ (u = v /\ cur = c0)
      <4>1. PartOf(c, o.qty, u, cur) = 0
        BY <2>9, <3>6 DEF PartOf, o
      <4>2. locked'[u][cur] = locked[u][cur]
        BY <2>10, <3>6
      <4> QED BY <2>10, <3>3, <3>4, <4>1, <4>2 DEF CoveredIn
    <3> QED BY <3>5, <3>6
  <2> QED BY <2>3, <2>4, <2>7, <2>11 DEF Moneywise, Covered
<1> QED BY <1>5, <1>6 DEF Lock

LEMMA InsertKeeps ==
  ASSUME Inv, Inv', Rowwise, Moneywise, OneByOne, NEW c \in Calls, Insert(c)
  PROVE  Rowwise' /\ Moneywise'
<1>1. PICK r : r = [status |-> "pending", filled |-> 0]
  OBVIOUS
<1>2. /\ create[c].pc = "insert" /\ Goto(c, "submit") /\ rows' = [rows EXCEPT ![c] = r]
      /\ UNCHANGED <<book, uuid, trades, wallets, cancel, boot, crashes>>
  BY <1>1 DEF Insert, OneByOne
<1>3. CallAlone(c) /\ taker = NoOrder /\ create[c].pc \in Before \ {"new"}
  BY <1>2, ActiveAlone DEF Rowwise, CreateEnds, Before
<1>4. PICK k : k = [create[c] EXCEPT !.pc = "submit"]
  OBVIOUS
<1>5. k.pc = "submit" /\ k.req = create[c].req /\ create' = [create EXCEPT ![c] = k]
  <2>1. create[c] \in CallRecs
    BY DEF Inv, ServiceTypes
  <2>2. k.pc = "submit" /\ k.req = create[c].req
    BY <1>4, <2>1 DEF CallRecs
  <2> QED BY <1>2, <1>4, <2>2 DEF Goto
<1>6. Req(c).type = "market" => Available(Req(c).user, "base") >= Req(c).qty
  <2>1. SellerFunded(c) /\ Paid(c) = 0 /\ Req(c).qty \in Nat
    BY <1>2, FillsType, Requested, NewOrderFields DEF Moneywise, SellersFunded, After, Applying
  <2> QED BY <1>2, <2>1 DEF SellerFunded
<1> QED BY <1>2, <1>3, <1>5, <1>6, BeforeKeeps

-----------------------------------------------------------------------------
\* CancelOrder, when no CreateOrder runs.

LEMMA QuietRows ==
  ASSUME Lone', Placed', Calm', taker' = NoOrder, \A d \in Calls : create'[d].pc \in Ended
  PROVE  Rowwise'
<1>1. \A d \in Calls : create'[d].pc \notin After
  BY DEF Ended, After, Applying
<1> QED BY <1>1 DEF Rowwise, RowsTold

LEMMA QuietMoney ==
  ASSUME \A d \in Calls : create[d].pc \in Ended, UNCHANGED <<create, uuid, taker>>, taker = NoOrder,
         NEW late \in [Calls -> Nat], Covered(late)', \A id \in DOMAIN uuid : DueAtRest(late, id)'
  PROVE  Moneywise'
<1>1. \A d \in Calls : create'[d].pc \in Ended
  OBVIOUS
<1>2. \A d \in Calls : DueInCall(late, d)' /\ SellerFunded(d)'
  BY <1>1 DEF DueInCall, SellerFunded, Ended, After, Applying
<1>3. \A d \in Calls : create'[d].pc \notin After
  BY <1>1 DEF Ended, After, Applying
<1>4. Due(late)'
  BY <1>2, <1>3 DEF Due
<1> QED BY <1>2, <1>4 DEF Moneywise, SellersFunded

LEMMA QuietIsCalm ==
  ASSUME RowsTold, \A d \in Calls : create[d].pc \in Ended, taker = NoOrder
  PROVE  Calm
<1>1. \A d \in Calls : create[d].pc \notin After
  BY DEF Ended, After, Applying
<1> QED BY <1>1 DEF RowsTold

LEMMA FindForCancelKeeps ==
  ASSUME Inv, Inv', Rowwise, Moneywise, OneByOne, NEW c \in Calls, FindForCancel(c)
  PROVE  Rowwise' /\ Moneywise'
<1>1. /\ MayStart /\ cancel[c].pc = "new" /\ rows[c].status \in OpenStatuses
      /\ cancel' = [cancel EXCEPT ![c] = [pc |-> "engine", copy |-> rows[c]]]
      /\ UNCHANGED <<book, uuid, rows, trades, wallets, create, boot, crashes>>
  BY DEF FindForCancel
<1>2. /\ taker = NoOrder /\ boot.pc = "up"
      /\ \A d \in Calls : create[d].pc \in Ended /\ cancel[d].pc \in {"new", "done"}
  BY <1>1, NobodyRuns DEF Rowwise
<1>3. UNCHANGED <<orders, resting, taker, uuid, rows, create, boot>>
  BY <1>1 DEF book
<1>4. /\ cancel'[c].pc = "engine" /\ cancel'[c].copy = rows[c]
      /\ \A d \in Calls : d # c => cancel'[d] = cancel[d]
  BY <1>1 DEF Inv, ServiceTypes
<1>5. \A d \in Calls : d # c => cancel'[d].pc \in {"new", "done"}
  BY <1>2, <1>4
<1>6. Lone'
  BY <1>2, <1>3, <1>4, <1>5, LoneCancel
<1>7. create[c].pc = "done"
  <2>1. rows[c] # NoRow
    BY <1>1 DEF OpenStatuses, NoRow
  <2> QED BY <1>2, <2>1 DEF Rowwise, Placed, PlacedCall, Ended, After, Applying
<1>8. Placed'
  <2>1. \A d : (Known(d)' <=> Known(d)) /\ (Gone(d)' <=> Gone(d))
    BY <1>3 DEF Known, Gone
  <2>2. ASSUME NEW d \in Calls PROVE PlacedCall(d)'
    <3>1. PlacedCall(d)
      BY DEF Rowwise, Placed
    <3> QED BY <1>3, <1>4, <1>7, <2>1, <3>1 DEF PlacedCall, Req
  <2> QED BY <2>2 DEF Placed
<1>9. Calm
  BY <1>2, QuietIsCalm DEF Rowwise
<1>10. Calm'
  <2>1. ASSUME NEW id \in DOMAIN uuid
        PROVE  Counts(id)' /\ (cancel'[uuid[id]].pc # "write" => Shows(id)')
    <3>1. uuid[id] \in Calls
      BY Names DEF Inv
    <3>2. Counts(id) /\ Shows(id)
      BY <1>2, <1>9, <3>1 DEF Calm
    <3> QED BY <1>3, <3>2 DEF Counts, Shows, ShowsAs
  <2>2. ASSUME NEW d \in Calls
        PROVE  /\ cancel'[d].pc \in {"engine", "write"} => cancel'[d].copy = rows'[d]
               /\ cancel'[d].pc = "unlock" => cancel'[d].copy.filled = rows'[d].filled
    BY <1>3, <1>4, <1>5
  <2> QED BY <1>3, <2>1, <2>2 DEF Calm
<1>11. Rowwise'
  BY <1>2, <1>3, <1>6, <1>8, <1>10, QuietRows
<1>12. PICK due \in [Calls -> Nat] : Due(due) /\ Covered(due)
  BY DEF Moneywise
<1>13. Covered(due)'
  <2>1. \A d \in Calls : SameAsk(d)
    BY <1>3, SameAsks
  <2> QED BY <1>1, <1>12, <2>1, CoveredStays
<1>14. ASSUME NEW id \in DOMAIN uuid PROVE DueAtRest(due, id)'
  <2>1. DueAtRest(due, id) /\ uuid[id] \in Calls
    BY <1>12, Names DEF Inv, Due
  <2> QED BY <1>3, <1>4, <2>1 DEF DueAtRest, DueOf
<1>15. Moneywise'
  BY <1>2, <1>3, <1>13, <1>14, QuietMoney
<1> QED BY <1>11, <1>15

LEMMA EngineCancelKeeps ==
  ASSUME Inv, Inv', Rowwise, Moneywise, NEW c \in Calls, EngineCancel(c)
  PROVE  Rowwise' /\ Moneywise'
<1>1. /\ cancel[c].pc = "engine" /\ taker = NoOrder
      /\ UNCHANGED <<uuid, rows, trades, wallets, create, boot, crashes>>
      /\ \/ /\ \E id \in resting : uuid[id] = c /\ Book!Withdraw(id)
            /\ cancel' = [cancel EXCEPT ![c].pc = "write"]
         \/ /\ cancel' = [cancel EXCEPT ![c] = NewCancel]
            /\ UNCHANGED book
  BY DEF EngineCancel
<1>2. CancelAlone(c) /\ boot.pc = "up"
  BY <1>1, CancelIsAlone DEF Rowwise
<1>3. \A d \in Calls : create[d].pc \in Ended /\ (d # c => cancel[d].pc \in {"new", "done"})
  BY <1>2 DEF CancelAlone
<1>4. Calm
  BY <1>1, <1>3, QuietIsCalm DEF Rowwise
<1>5. PICK gone \in SUBSET resting :
        /\ orders' = orders /\ taker' = taker /\ resting' = resting \ gone
        /\ \A d \in Calls : d # c => cancel'[d] = cancel[d]
        /\ \A id \in gone : uuid[id] = c
        /\ \/ cancel'[c].pc = "write" /\ cancel'[c].copy = cancel[c].copy /\ gone # {}
           \/ cancel'[c].pc = "new" /\ gone = {}
  <2>1. ASSUME NEW id \in resting, uuid[id] = c, Book!Withdraw(id),
               cancel' = [cancel EXCEPT ![c].pc = "write"]
        PROVE  /\ orders' = orders /\ taker' = taker /\ resting' = resting \ {id}
               /\ \A d \in Calls : d # c => cancel'[d] = cancel[d]
               /\ cancel'[c].pc = "write" /\ cancel'[c].copy = cancel[c].copy
    BY <2>1, WithdrawSound DEF Inv, ServiceTypes
  <2>2. ASSUME cancel' = [cancel EXCEPT ![c] = NewCancel], UNCHANGED book
        PROVE  /\ orders' = orders /\ taker' = taker /\ resting' = resting \ {}
               /\ \A d \in Calls : d # c => cancel'[d] = cancel[d]
               /\ cancel'[c].pc = "new"
    BY <2>2 DEF Inv, ServiceTypes, NewCancel, book
  <2>3. CASE \E id \in resting : uuid[id] = c /\ Book!Withdraw(id) /\ cancel' = [cancel EXCEPT ![c].pc = "write"]
    <3>1. PICK id \in resting : uuid[id] = c /\ Book!Withdraw(id)
      BY <2>3
    <3>2. {id} \in SUBSET resting /\ \A x \in {id} : uuid[x] = c
      BY <3>1
    <3> QED BY <2>1, <2>3, <3>1, <3>2
  <2>4. CASE cancel' = [cancel EXCEPT ![c] = NewCancel] /\ UNCHANGED book
    <3>1. {} \in SUBSET resting
      OBVIOUS
    <3> QED BY <2>2, <2>4, <3>1
  <2> QED BY <1>1, <2>3, <2>4
<1>6. \A d \in Calls : d # c => cancel'[d].pc \in {"new", "done"}
  BY <1>3, <1>5
<1>7. Lone'
  BY <1>1, <1>2, <1>3, <1>5, <1>6, LoneCancel
<1>8. /\ DOMAIN uuid = 1..Len(orders) /\ resting \subseteq DOMAIN uuid /\ taker \notin resting
      /\ \A id \in DOMAIN uuid : uuid[id] \in Calls
      /\ \A id \in resting : orders[id].type = "limit" /\ Req(uuid[id]).type = "limit"
  <2>1. /\ DOMAIN uuid = 1..Len(orders) /\ resting \subseteq 1..Len(orders) /\ taker \notin resting
        /\ \A id \in DOMAIN uuid : uuid[id] \in Calls
        /\ \A id \in resting : orders[id].type = "limit"
    BY Names DEF Inv, BookSound
  <2> QED BY <2>1 DEF Inv, NamesSound
<1>9. Placed'
  <2>1. \A d : (Known(d)' <=> Known(d)) /\ (Gone(d) => Gone(d)')
    BY <1>1, <1>5 DEF Known, Gone
  <2>2. gone # {} => Gone(c)' /\ Req(c).type = "limit"
    BY <1>1, <1>5, <1>8 DEF Gone
  <2>3. ASSUME NEW d \in Calls PROVE PlacedCall(d)'
    <3>1. PlacedCall(d)
      BY DEF Rowwise, Placed
    <3> QED BY <1>1, <1>5, <2>1, <2>2, <3>1 DEF PlacedCall, Req
  <2> QED BY <2>3 DEF Placed
<1>10. Calm'
  <2>1. ASSUME NEW id \in DOMAIN uuid
        PROVE  Counts(id)' /\ (cancel'[uuid[id]].pc # "write" => Shows(id)')
    <3>1. uuid[id] \in Calls
      BY <1>8
    <3>2. Counts(id) /\ Shows(id)
      BY <1>1, <1>3, <1>4, <3>1 DEF Calm
    <3>3. cancel'[uuid[id]].pc # "write" => (id \in resting' <=> id \in resting)
      BY <1>5
    <3> QED BY <1>1, <1>5, <3>2, <3>3 DEF Counts, Shows, ShowsAs
  <2>2. ASSUME NEW d \in Calls
        PROVE  /\ cancel'[d].pc \in {"engine", "write"} => cancel'[d].copy = rows'[d]
               /\ cancel'[d].pc = "unlock" => cancel'[d].copy.filled = rows'[d].filled
    BY <1>1, <1>4, <1>5, <1>6 DEF Calm
  <2> QED BY <1>1, <2>1, <2>2 DEF Calm
<1>11. Rowwise'
  BY <1>1, <1>3, <1>5, <1>7, <1>9, <1>10, QuietRows
<1>12. PICK due \in [Calls -> Nat] : Due(due) /\ Covered(due)
  BY DEF Moneywise
<1>13. Covered(due)'
  <2>1. \A d \in Calls : SameAsk(d)
    BY <1>1, SameAsks
  <2> QED BY <1>1, <1>12, <2>1, CoveredStays
<1>14. ASSUME NEW id \in DOMAIN uuid PROVE DueAtRest(due, id)'
  <2>1. DueAtRest(due, id) /\ uuid[id] \in Calls
    BY <1>8, <1>12 DEF Due
  <2>2. cancel'[uuid[id]].pc = "write" => id \in resting
    <3>1. ASSUME cancel'[uuid[id]].pc = "write" PROVE id \in resting
      <4>1. uuid[id] = c /\ gone # {}
        BY <1>5, <1>6, <2>1, <3>1
      <4> QED BY <1>5, <1>8, <4>1 DEF Inv, NamesSound
    <3> QED BY <3>1
  <2>3. cancel'[uuid[id]].pc # "unlock"
    BY <1>5, <1>6, <2>1
  <2> QED BY <1>1, <1>5, <2>1, <2>2, <2>3 DEF DueAtRest, DueOf
<1>15. Moneywise'
  BY <1>1, <1>3, <1>5, <1>13, <1>14, QuietMoney
<1> QED BY <1>11, <1>15

LEMMA WriteCancelKeeps ==
  ASSUME Inv, Inv', Rowwise, Moneywise, OneByOne, NEW c \in Calls, WriteCancel(c)
  PROVE  Rowwise' /\ Moneywise'
<1>1. PICK r : r = [cancel[c].copy EXCEPT !.status = "cancelled"]
  OBVIOUS
<1>2. /\ cancel[c].pc = "write" /\ rows' = [rows EXCEPT ![c] = r]
      /\ cancel' = [cancel EXCEPT ![c].pc = "unlock"]
      /\ UNCHANGED <<book, uuid, trades, wallets, create, boot, crashes>>
  BY <1>1 DEF WriteCancel, OneByOne
<1>3. CancelAlone(c) /\ boot.pc = "up" /\ taker = NoOrder
  BY <1>2, CancelIsAlone DEF Rowwise
<1>4. \A d \in Calls : create[d].pc \in Ended /\ (d # c => cancel[d].pc \in {"new", "done"})
  BY <1>3 DEF CancelAlone
<1>5. Calm
  BY <1>3, <1>4, QuietIsCalm DEF Rowwise
<1>6. UNCHANGED <<orders, resting, taker, uuid, create, boot>>
  BY <1>2 DEF book
<1>7. /\ cancel'[c].pc = "unlock" /\ cancel'[c].copy = cancel[c].copy
      /\ \A d \in Calls : d # c => cancel'[d] = cancel[d]
      /\ rows'[c] = r /\ \A d \in Calls : d # c => rows'[d] = rows[d]
  BY <1>2 DEF Inv, ServiceTypes
<1>8. r.status = "cancelled" /\ r.filled = rows[c].filled /\ r.filled = cancel[c].copy.filled
  <2>1. cancel[c].copy = rows[c]
    BY <1>2, <1>5 DEF Calm
  <2>2. rows[c] \in Rows \cup {NoRow}
    BY DEF Inv, ServiceTypes
  <2> QED BY <1>1, <2>1, <2>2 DEF Rows, NoRow
<1>9. \A d \in Calls : d # c => cancel'[d].pc \in {"new", "done"}
  BY <1>4, <1>7
<1>10. Lone'
  BY <1>3, <1>4, <1>6, <1>7, <1>9, LoneCancel
<1>11. create[c].pc = "done" /\ Req(c).type = "limit" /\ Gone(c)
  BY <1>2 DEF Rowwise, Placed, PlacedCall
<1>12. Placed'
  <2>1. \A d : (Known(d)' <=> Known(d)) /\ (Gone(d)' <=> Gone(d))
    BY <1>6 DEF Known, Gone
  <2>2. ASSUME NEW d \in Calls PROVE PlacedCall(d)'
    <3>1. PlacedCall(d)
      BY DEF Rowwise, Placed
    <3> QED BY <1>6, <1>7, <1>11, <2>1, <3>1 DEF PlacedCall, Req
  <2> QED BY <2>2 DEF Placed
<1>13. Calm'
  <2>1. ASSUME NEW id \in DOMAIN uuid
        PROVE  Counts(id)' /\ (cancel'[uuid[id]].pc # "write" => Shows(id)')
    <3>1. uuid[id] \in Calls
      BY Names DEF Inv
    <3>2. Counts(id) /\ (uuid[id] # c => Shows(id))
      BY <1>4, <1>5, <3>1 DEF Calm
    <3>3. Counts(id)'
      BY <1>6, <1>7, <1>8, <3>1, <3>2 DEF Counts
    <3>4. Shows(id)'
      BY <1>6, <1>7, <1>8, <3>1, <3>2 DEF Shows, ShowsAs
    <3> QED BY <3>3, <3>4
  <2>2. ASSUME NEW d \in Calls
        PROVE  /\ cancel'[d].pc \in {"engine", "write"} => cancel'[d].copy = rows'[d]
               /\ cancel'[d].pc = "unlock" => cancel'[d].copy.filled = rows'[d].filled
    BY <1>7, <1>8, <1>9
  <2> QED BY <1>6, <2>1, <2>2 DEF Calm
<1>14. Rowwise'
  BY <1>3, <1>4, <1>6, <1>10, <1>12, <1>13, QuietRows
<1>15. PICK due \in [Calls -> Nat] : Due(due) /\ Covered(due)
  BY DEF Moneywise
<1>16. Covered(due)'
  <2>1. \A d \in Calls : SameAsk(d)
    BY <1>6, SameAsks
  <2> QED BY <1>2, <1>15, <2>1, CoveredStays
<1>17. ASSUME NEW id \in DOMAIN uuid PROVE DueAtRest(due, id)'
  <2>1. DueAtRest(due, id) /\ uuid[id] \in Calls
    BY <1>15, Names DEF Inv, Due
  <2> QED BY <1>2, <1>6, <1>7, <2>1 DEF DueAtRest, DueOf
<1>18. Moneywise'
  BY <1>3, <1>4, <1>6, <1>16, <1>17, QuietMoney
<1> QED BY <1>14, <1>18

LEMMA UnlockCancelKeeps ==
  ASSUME Inv, Inv', Rowwise, Moneywise, OneByOne, NEW c \in Calls, UnlockCancel(c)
  PROVE  Rowwise' /\ Moneywise'
<1>1. /\ cancel[c].pc = "unlock" /\ cancel' = [cancel EXCEPT ![c].pc = "done"]
      /\ Unlock(Req(c).user, Spends(Req(c)), LockOf(c, cancel[c].copy.filled))
      /\ UNCHANGED <<book, uuid, rows, trades, create, boot, crashes>>
  BY DEF UnlockCancel, OneByOne
<1>2. CancelAlone(c) /\ boot.pc = "up" /\ taker = NoOrder
  BY <1>1, CancelIsAlone DEF Rowwise
<1>3. \A d \in Calls : create[d].pc \in Ended /\ (d # c => cancel[d].pc \in {"new", "done"})
  BY <1>2 DEF CancelAlone
<1>4. Calm
  BY <1>2, <1>3, QuietIsCalm DEF Rowwise
<1>5. UNCHANGED <<orders, resting, taker, uuid, rows, create, boot>>
  BY <1>1 DEF book
<1>6. cancel'[c].pc = "done" /\ \A d \in Calls : d # c => cancel'[d] = cancel[d]
  BY <1>1 DEF Inv, ServiceTypes
<1>7. \A d \in Calls : cancel'[d].pc \in {"new", "done"}
  BY <1>3, <1>6
<1>8. Lone'
  BY <1>2, <1>3, <1>5, <1>7, LoneCancel
<1>9. create[c].pc = "done" /\ Req(c).type = "limit" /\ Gone(c)
  BY <1>1 DEF Rowwise, Placed, PlacedCall
<1>10. Placed'
  <2>1. \A d : (Known(d)' <=> Known(d)) /\ (Gone(d)' <=> Gone(d))
    BY <1>5 DEF Known, Gone
  <2>2. ASSUME NEW d \in Calls PROVE PlacedCall(d)'
    <3>1. PlacedCall(d)
      BY DEF Rowwise, Placed
    <3> QED BY <1>5, <1>7, <2>1, <3>1 DEF PlacedCall, Req
  <2> QED BY <2>2 DEF Placed
<1>11. Calm'
  <2>1. ASSUME NEW id \in DOMAIN uuid PROVE Counts(id)' /\ Shows(id)'
    <3>1. uuid[id] \in Calls
      BY Names DEF Inv
    <3>2. Counts(id) /\ Shows(id)
      BY <1>1, <1>3, <1>4, <3>1 DEF Calm
    <3> QED BY <1>5, <3>2 DEF Counts, Shows, ShowsAs
  <2> QED BY <1>5, <1>7, <2>1 DEF Calm
<1>12. Rowwise'
  BY <1>2, <1>3, <1>5, <1>8, <1>10, <1>11, QuietRows
<1>13. PICK due \in [Calls -> Nat] : Due(due) /\ Covered(due)
  BY DEF Moneywise
<1>14. PICK my \in DOMAIN uuid : uuid[my] = c /\ my \notin resting
  BY <1>9 DEF Gone
<1>15. PICK r \in Nat : r = Remaining(orders[my]) /\ Req(c).qty - cancel[c].copy.filled = r /\ due[c] >= r
  <2>1. Counts(my) /\ cancel[c].copy.filled = rows[c].filled
    BY <1>1, <1>4, <1>14 DEF Calm
  <2>2. DueAtRest(due, my)
    BY <1>13 DEF Due
  <2>3. DueOf(due, my)
    BY <1>1, <1>14, <2>2 DEF DueAtRest
  <2>4. Remaining(orders[my]) \in Nat /\ Req(c).qty - orders[my].filled = Remaining(orders[my])
    BY <1>14, LeftByRow
  <2> QED BY <1>14, <2>1, <2>3, <2>4 DEF Counts, DueOf
<1>16. PICK late \in [Calls -> Nat] : due[c] = late[c] + r /\ \A d \in Calls \ {c} : late[d] = due[d]
  <2>1. due[c] \in Nat
    OBVIOUS
  <2>2. PICK n \in Nat : due[c] = n + r
    <3>1. due[c] - r \in Nat /\ due[c] = (due[c] - r) + r
      BY <1>15, <2>1
    <3> QED BY <3>1
  <2>3. [due EXCEPT ![c] = n] \in [Calls -> Nat]
    OBVIOUS
  <2> QED BY <2>2, <2>3
<1>17. Covered(late)'
  <2>1. \A d \in Calls : SameAsk(d)
    BY <1>5, SameAsks
  <2>2. Unlock(Req(c).user, Spends(Req(c)), Cost(Req(c), r, Req(c).price))
    BY <1>1, <1>15 DEF LockOf
  <2>3. create[c].pc # "new"
    BY <1>9
  <2> QED BY <1>9, <1>13, <1>16, <2>1, <2>2, <2>3, CoveredRelease
<1>18. ASSUME NEW id \in DOMAIN uuid PROVE DueAtRest(late, id)'
  <2>1. DueAtRest(due, id) /\ uuid[id] \in Calls
    BY <1>13, Names DEF Inv, Due
  <2>2. CASE uuid[id] = c
    <3>1. id = my
      BY <1>14, <2>2 DEF Inv, NamesSound
    <3> QED BY <1>5, <1>7, <1>14, <2>1, <3>1 DEF DueAtRest
  <2>3. CASE uuid[id] # c
    BY <1>5, <1>6, <1>16, <2>1, <2>3 DEF DueAtRest, DueOf
  <2> QED BY <2>2, <2>3
<1>19. Moneywise'
  BY <1>2, <1>3, <1>5, <1>17, <1>18, QuietMoney
<1> QED BY <1>12, <1>19

-----------------------------------------------------------------------------
\* CreateOrder in the book.

\* What a call has paid, when its record says nothing new.
LEMMA PaidLater ==
  ASSUME NEW c \in Calls, create'[c].settled = 0
  PROVE  Paid(c)' = 0
<1>1. PICK f : f = Amounts(create[c].fills)'
  OBVIOUS
<1>2. SumOver(f, 1..0) = 0
  BY NothingFilled
<1> QED BY <1>1, <1>2 DEF Paid

LEMMA PaidStays ==
  ASSUME NEW c \in Calls, create'[c].fills = create[c].fills, create'[c].settled = create[c].settled
  PROVE  Paid(c)' = Paid(c)
BY DEF Paid

\* The parts of the money that speak of the calls alone.
Selling == {"insert", "submit", "match", "settle"}
Locking == {"insert", "submit", "match"} \cup After

LEMMA SellersStay ==
  ASSUME SellersFunded, UNCHANGED wallets,
         \A d \in Calls : create'[d].pc \in Selling =>
            create[d].pc \in Selling /\ create'[d].req = create[d].req /\ Paid(d)' = Paid(d)
  PROVE  SellersFunded'
<1>1. ASSUME NEW d \in Calls PROVE SellerFunded(d)'
  <2>1. SellerFunded(d)
    BY DEF SellersFunded
  <2> QED BY <2>1 DEF SellerFunded, Selling, Req, Available, wallets
<1> QED BY <1>1 DEF SellersFunded

LEMMA InCallStays ==
  ASSUME NEW due \in [Calls -> Nat], NEW d \in Calls, DueInCall(due, d),
         create'[d].pc \in Locking =>
            create[d].pc \in Locking /\ create'[d].req = create[d].req /\ Paid(d)' = Paid(d)
  PROVE  DueInCall(due, d)'
BY DEF DueInCall, Locking, Req

\* A call that is alone leaves the others where they ended.
LEMMA OthersEnded ==
  ASSUME NEW c \in Calls, CallAlone(c), \A d \in Calls : d # c => create'[d] = create[d]
  PROVE  \A d \in Calls : d # c => create'[d].pc \in Ended /\ create'[d].pc \notin Selling \cup Locking
BY DEF CallAlone, Ended, Selling, Locking, After, Applying

LEMMA SubmitKeeps ==
  ASSUME Inv, Inv', Rowwise, Moneywise, NEW c \in Calls, Submit(c)
  PROVE  Rowwise' /\ Moneywise'
<1> DEFINE n == Len(orders)
<1>1. /\ create[c].pc = "submit" /\ Book!Arrive(Req(c)) /\ uuid' = Append(uuid, c)
      /\ create' = [create EXCEPT ![c].pc = "match"]
      /\ UNCHANGED <<rows, trades, wallets, cancel, boot, crashes>>
  BY DEF Submit, Goto
<1>2. Req(c) \in NewOrders /\ Req(c).filled = 0
  BY <1>1, Requested, NewOrderFields
<1>3. /\ taker = NoOrder /\ taker' = n + 1 /\ Len(orders') = n + 1
      /\ orders'[n + 1] = Req(c) /\ \A k \in 1..n : orders'[k] = orders[k]
      /\ resting' = resting /\ result' = EmptyResult
  BY <1>1, <1>2, ArriveSound DEF Inv
<1>4. /\ DOMAIN uuid = 1..n /\ \A id \in DOMAIN uuid : uuid[id] \in Calls
      /\ resting \subseteq 1..n /\ n \in Nat
  BY Names, LenProperties DEF Inv, BookSound
<1>5. /\ DOMAIN uuid' = 1..(n + 1)
      /\ \A id \in 1..n : uuid'[id] = uuid[id]
      /\ uuid'[n + 1] = c
  <2>1. uuid \in Seq(Calls) /\ Len(uuid) = n
    BY DEF Inv, ServiceTypes
  <2>2. /\ Append(uuid, c) \in Seq(Calls) /\ Len(Append(uuid, c)) = n + 1
        /\ \A id \in 1..n : Append(uuid, c)[id] = uuid[id]
        /\ Append(uuid, c)[n + 1] = c
    BY <2>1, AppendProperties
  <2>3. DOMAIN Append(uuid, c) = 1..(n + 1)
    BY <2>2, LenProperties
  <2> QED BY <1>1, <2>2, <2>3
<1> HIDE DEF n
<1>6. 1..(n + 1) = (1..n) \cup {n + 1} /\ n + 1 \notin 1..n /\ n + 1 # NoOrder /\ NoOrder \notin 1..n
  BY <1>4 DEF NoOrder
<1>7. CallAlone(c)
  BY <1>1, ActiveAlone DEF Rowwise, CreateEnds
<1>8. PICK k : k = [create[c] EXCEPT !.pc = "match"]
  OBVIOUS
<1>9. /\ k.pc = "match" /\ k.req = create[c].req /\ k.fills = create[c].fills /\ k.settled = create[c].settled
      /\ create' = [create EXCEPT ![c] = k]
  <2>1. create[c] \in CallRecs
    BY DEF Inv, ServiceTypes
  <2>2. k.pc = "match" /\ k.req = create[c].req /\ k.fills = create[c].fills /\ k.settled = create[c].settled
    BY <1>8, <2>1 DEF CallRecs
  <2> QED BY <1>1, <1>8, <2>2
<1>10. Lone' /\ create'[c] = k /\ \A d \in Calls : d # c => create'[d] = create[d]
  <2>1. k.pc \notin {"undo", "failed", "lost"}
    BY <1>9
  <2> QED BY <1>1, <1>7, <1>9, <2>1, LoneStep DEF Rowwise
<1>11. \A d \in Calls : d # c => create'[d].pc \in Ended /\ create'[d].pc \notin Selling \cup Locking
  BY <1>7, <1>10, OthersEnded
<1>12. \A d : (Known(d) => Known(d)') /\ (Gone(d) => Gone(d)')
  BY <1>3, <1>4, <1>5, <1>6 DEF Known, Gone
<1>13. Placed'
  <2>1. ASSUME NEW d \in Calls PROVE PlacedCall(d)'
    <3>1. PlacedCall(d) /\ cancel[d].pc \in {"new", "done"}
      BY <1>7 DEF Rowwise, Placed, CallAlone
    <3> QED BY <1>1, <1>9, <1>10, <1>12, <3>1 DEF PlacedCall, Req
  <2> QED BY <2>1 DEF Placed
<1>14. Calm
  <2>1. \A d \in Calls : create[d].pc \notin After
    BY <1>1, <1>7 DEF CallAlone, Ended, After, Applying
  <2> QED BY <1>3, <2>1 DEF Rowwise, RowsTold
<1>15. Matching'
  <2>1. result'.trades = <<>> /\ result'.canceled = <<>> /\ DOMAIN result'.trades = {} /\ DOMAIN result'.canceled = {}
    BY <1>3, EmptySeq DEF EmptyResult
  <2>2. orders'[taker'].filled = Filled(result'.trades)
    BY <1>2, <1>3, <2>1, NothingFilled
  <2>3. ASSUME NEW id \in DOMAIN uuid' \ {taker'} PROVE Counts(id)' /\ Shows(id)'
    <3>1. id \in 1..n
      BY <1>3, <1>5, <1>6
    <3>2. uuid[id] \in Calls
      BY <1>4, <3>1
    <3>3. Counts(id) /\ Shows(id)
      BY <1>4, <1>7, <1>14, <3>1, <3>2 DEF Calm, CallAlone
    <3>4. uuid'[id] = uuid[id] /\ orders'[id] = orders[id] /\ rows' = rows /\ resting' = resting
      BY <1>1, <1>3, <1>5, <3>1
    <3> QED BY <3>3, <3>4 DEF Counts, Shows, ShowsAs
  <2> QED BY <2>1, <2>2, <2>3 DEF Matching
<1>16. Rowwise'
  <2>1. \A d \in Calls : create'[d].pc \notin After
    BY <1>9, <1>10, <1>11 DEF Locking, After, Applying
  <2>2. taker' # NoOrder
    BY <1>3, <1>6
  <2> QED BY <1>10, <1>13, <1>15, <2>1, <2>2 DEF Rowwise, RowsTold
<1>17. Paid(c)' = Paid(c)
  BY <1>9, <1>10, PaidStays
<1>18. SellersFunded'
  BY <1>1, <1>9, <1>10, <1>11, <1>17, SellersStay DEF Moneywise, Selling
<1>19. PICK due \in [Calls -> Nat] : Due(due) /\ Covered(due)
  BY DEF Moneywise
<1>20. Due(due)'
  <2>1. ASSUME NEW id \in DOMAIN uuid' PROVE DueAtRest(due, id)'
    <3>1. CASE id \in 1..n
      <4>1. DueAtRest(due, id)
        BY <1>4, <1>19, <3>1 DEF Due
      <4>2. uuid'[id] = uuid[id] /\ orders'[id] = orders[id] /\ cancel' = cancel /\ resting' = resting
        BY <1>1, <1>3, <1>5, <3>1
      <4> QED BY <4>1, <4>2 DEF DueAtRest, DueOf
    <3>2. CASE id = n + 1
      <4>1. id \notin resting' /\ cancel'[uuid'[id]].pc \notin {"write", "unlock"}
        BY <1>1, <1>3, <1>4, <1>5, <1>6, <1>7, <3>2 DEF CallAlone
      <4> QED BY <4>1 DEF DueAtRest
    <3> QED BY <1>5, <1>6, <3>1, <3>2
  <2>2. ASSUME NEW d \in Calls PROVE DueInCall(due, d)'
    <3>1. DueInCall(due, d)
      BY <1>19 DEF Due
    <3> QED BY <1>1, <1>9, <1>10, <1>11, <1>17, <3>1, InCallStays DEF Locking
  <2>3. DueInMatch(due)'
    <3>1. DOMAIN result'.trades = {} /\ DOMAIN result'.canceled = {}
      BY <1>3, EmptySeq DEF EmptyResult
    <3> QED BY <3>1 DEF DueInMatch
  <2>4. \A d \in Calls : create'[d].pc \notin After
    BY <1>9, <1>10, <1>11 DEF Locking, After, Applying
  <2> QED BY <2>1, <2>2, <2>3, <2>4 DEF Due
<1>21. Covered(due)'
  <2>1. \A d \in Calls : SameAsk(d)
    BY <1>1, <1>9, <1>10 DEF SameAsk
  <2> QED BY <1>1, <1>19, <2>1, CoveredStays
<1> QED BY <1>16, <1>18, <1>20, <1>21 DEF Moneywise

\* During a match nobody is telling the rows.
LEMMA NobodyAfter ==
  ASSUME Inv, Lone, taker # NoOrder
  PROVE  \A d \in Calls : create[d].pc \notin After
<1>1. uuid[taker] \in Calls /\ create[uuid[taker]].pc = "match"
  BY TakerMatches
<1>2. CallAlone(uuid[taker])
  BY <1>1, ActiveAlone DEF CreateEnds
<1> QED BY <1>1, <1>2 DEF CallAlone, Ended, After, Applying

\* The book moves, and nobody else.
LEMMA MatchRows ==
  ASSUME Inv, Rowwise, taker # NoOrder, taker' = taker, resting' \subseteq resting, Len(orders') = Len(orders),
         UNCHANGED <<uuid, rows, create, cancel, boot>>, Matching'
  PROVE  Rowwise'
<1>1. Lone'
  BY DEF Rowwise, Lone, Active, Cancelling
<1>2. \A d : (Known(d) => Known(d)') /\ (Gone(d) => Gone(d)')
  BY DEF Known, Gone
<1>3. Placed'
  <2>1. ASSUME NEW d \in Calls PROVE PlacedCall(d)'
    <3>1. PlacedCall(d)
      BY DEF Rowwise, Placed
    <3> QED BY <1>2, <3>1 DEF PlacedCall, Req
  <2> QED BY <2>1 DEF Placed
<1>4. \A d \in Calls : create'[d].pc \notin After
  BY NobodyAfter DEF Rowwise
<1> QED BY <1>1, <1>3, <1>4 DEF Rowwise, RowsTold

\* No order has more left than it had, and what rested was covered.
LEMMA MatchMoney ==
  ASSUME Inv, Moneywise, taker # NoOrder, taker' = taker, resting' \subseteq resting,
         UNCHANGED <<uuid, wallets, create, cancel>>,
         \A d \in Calls : create[d].pc \notin After,
         \A id \in DOMAIN uuid : Remaining(orders'[id]) <= Remaining(orders[id]),
         \A id \in DOMAIN uuid : Remaining(orders'[id]) \in Nat,
         \A due \in [Calls -> Nat] : Due(due) => DueInMatch(due)'
  PROVE  Moneywise'
<1>1. SellersFunded'
  BY PaidStays, SellersStay DEF Moneywise
<1>2. PICK due \in [Calls -> Nat] : Due(due) /\ Covered(due)
  BY DEF Moneywise
<1>3. ASSUME NEW id \in DOMAIN uuid PROVE DueAtRest(due, id)'
  <2>1. DueAtRest(due, id) /\ uuid[id] \in Calls
    BY <1>2, Names DEF Inv, Due
  <2>2. due[uuid[id]] \in Nat /\ Remaining(orders[id]) \in Nat
    BY <2>1, LeftByRow
  <2>3. Remaining(orders'[id]) <= Remaining(orders[id]) /\ Remaining(orders'[id]) \in Nat
    OBVIOUS
  <2>4. DueOf(due, id) => DueOf(due, id)'
    BY <2>2, <2>3 DEF DueOf
  <2> QED BY <2>1, <2>4 DEF DueAtRest
<1>4. ASSUME NEW d \in Calls PROVE DueInCall(due, d)'
  <2>1. DueInCall(due, d) /\ Paid(d)' = Paid(d)
    BY <1>2, PaidStays DEF Due
  <2> QED BY <2>1, InCallStays
<1>5. Due(due)'
  BY <1>2, <1>3, <1>4 DEF Due
<1>6. Covered(due)'
  BY <1>2, SameAsks, CoveredStays
<1> QED BY <1>1, <1>5, <1>6 DEF Moneywise

\* Whom the running match met is off the book as long as it goes on.
LEMMA MetIsOff ==
  ASSUME Inv, taker # NoOrder
  PROVE  /\ \A i \in DOMAIN result.trades :
               LET t == result.trades[i] IN
               /\ t \in Trades /\ t.maker \in DOMAIN uuid \ {taker}
               /\ Remaining(orders[taker]) > 0 => t.maker \notin resting
         /\ \A i \in DOMAIN result.canceled :
               result.canceled[i] \in DOMAIN uuid \ {taker} /\ result.canceled[i] \notin resting
         /\ \A id \in resting : id \in DOMAIN uuid \ {taker}
<1>1. /\ MatchSound /\ result \in Results /\ taker \notin resting /\ resting \subseteq 1..Len(orders)
      /\ DOMAIN uuid = 1..Len(orders)
  BY Names DEF Inv, BookSound
<1>2. \A i \in DOMAIN result.trades : result.trades[i] \in Trades
  BY <1>1, ElementOfSeq, LenProperties DEF Results
<1> QED BY <1>1, <1>2 DEF MatchSound, FillSound

LEMMA OwnMakerKeeps ==
  ASSUME Inv, Rowwise, Moneywise, NEW m \in resting, Book!CancelOwnMaker(m),
         UNCHANGED <<uuid, rows, wallets, create, cancel, boot>>
  PROVE  Rowwise' /\ Moneywise'
<1>1. /\ resting' = resting \ {m} /\ orders' = orders /\ taker' = taker /\ taker # NoOrder
      /\ result'.trades = result.trades
  BY CancelOwnMakerSound DEF Inv
<1>2. Book!MayMatch(m) /\ result' = [result EXCEPT !.canceled = Append(@, m)]
  BY DEF Book!CancelOwnMaker
<1>3. Remaining(orders[taker]) > 0 /\ m \in DOMAIN uuid \ {taker} /\ orders[m].type = "limit"
  BY <1>1, <1>2, MayMatchFacts, MetIsOff DEF Inv, BookSound
<1>4. PICK l \in Nat : /\ DOMAIN result.canceled = 1..l /\ DOMAIN result'.canceled = 1..(l + 1)
                       /\ result'.canceled[l + 1] = m
                       /\ \A i \in 1..l : result'.canceled[i] = result.canceled[i]
  <2>1. result.canceled \in Seq(Nat) /\ m \in Nat /\ result \in Results
    BY <1>3, Names DEF Inv, BookSound, Results
  <2>2. result'.canceled = Append(result.canceled, m)
    BY <1>2, <2>1 DEF Results
  <2>3. PICK q \in Seq(Nat) : q = result.canceled
    BY <2>1
  <2>4. PICK p : p = Append(q, m)
    OBVIOUS
  <2>5. PICK l \in Nat : l = Len(q) /\ DOMAIN q = 1..l
    BY LenProperties
  <2>6. p \in Seq(Nat) /\ Len(p) = l + 1 /\ p[l + 1] = m /\ \A i \in 1..l : p[i] = q[i]
    BY <2>1, <2>4, <2>5, AppendProperties
  <2>7. DOMAIN p = 1..(l + 1)
    BY <2>6, LenProperties
  <2> QED BY <2>2, <2>3, <2>4, <2>5, <2>6, <2>7
<1>5. 1..(l + 1) = (1..l) \cup {l + 1} /\ l + 1 \notin 1..l
  BY <1>4
<1>6. \A i \in DOMAIN result'.canceled : result'.canceled[i] = m \/ \E j \in 1..l : result'.canceled[i] = result.canceled[j]
  BY <1>4, <1>5
<1>7. /\ \A i \in DOMAIN result.trades : result.trades[i].maker \in DOMAIN uuid \ {taker} /\ result.trades[i].maker # m
      /\ \A i \in 1..l : result.canceled[i] # m
  BY <1>1, <1>3, <1>4, MetIsOff
<1>8. Matching
  BY <1>1 DEF Rowwise, RowsTold
<1>9. Matching'
  <2>1. orders'[taker'].filled = Filled(result'.trades)
    BY <1>1, <1>8 DEF Matching
  <2>2. ASSUME NEW id \in DOMAIN uuid \ {taker}
        PROVE  ~ Met(id)' => Counts(id)' /\ (~ Dropped(id)' => Shows(id)')
    <3>1. ~ Met(id) => Counts(id) /\ (~ Dropped(id) => Shows(id))
      BY <1>8 DEF Matching
    <3>2. Met(id)' <=> Met(id)
      BY <1>1 DEF Met
    <3>3. ~ Dropped(id)' => ~ Dropped(id) /\ id # m
      BY <1>4, <1>5 DEF Dropped
    <3>4. id # m => (id \in resting' <=> id \in resting)
      BY <1>1
    <3> QED BY <1>1, <3>1, <3>2, <3>3, <3>4 DEF Counts, Shows, ShowsAs
  <2>3. ASSUME NEW i \in DOMAIN result.trades PROVE MatchedTrade(result.trades[i])'
    <3>1. PICK t : t = result.trades[i]
      OBVIOUS
    <3>2. MatchedTrade(t) /\ t.maker # m
      BY <1>7, <1>8, <3>1 DEF Matching
    <3>3. MatchedTrade(t)'
      <4>1. Deal(orders'[t.maker], orders'[taker'], t.price) /\ Rests(t.maker)'
        BY <1>1, <3>2 DEF MatchedTrade, Rests
      <4>2. \A j \in DOMAIN result'.canceled : result'.canceled[j] # t.maker
        BY <1>4, <1>6, <3>2 DEF MatchedTrade
      <4> QED BY <1>1, <3>2, <4>1, <4>2 DEF MatchedTrade
    <3> QED BY <1>1, <3>1, <3>3 DEF MatchedTrade
  <2>4. ASSUME NEW i \in DOMAIN result'.canceled PROVE orders'[result'.canceled[i]].type = "limit"
    <3>1. \A j \in 1..l : orders[result.canceled[j]].type = "limit"
      BY <1>4, <1>8 DEF Matching
    <3> QED BY <1>1, <1>3, <1>6, <3>1
  <2>5. ASSUME NEW i \in DOMAIN result'.canceled, NEW j \in DOMAIN result'.canceled, i # j
        PROVE  result'.canceled[i] # result'.canceled[j]
    <3>1. \A x, y \in 1..l : x # y => result.canceled[x] # result.canceled[y]
      BY <1>4, <1>8 DEF Matching
    <3>2. (i \in 1..l \/ i = l + 1) /\ (j \in 1..l \/ j = l + 1)
      BY <1>4, <1>5
    <3> QED BY <1>4, <1>7, <2>5, <3>1, <3>2
  <2> QED BY <1>1, <2>1, <2>2, <2>3, <2>4, <2>5 DEF Matching
<1>10. Rowwise'
  BY <1>1, <1>9, MatchRows
<1>11. \A d \in Calls : create[d].pc \notin After
  BY <1>1, NobodyAfter DEF Rowwise
<1>12. ASSUME NEW due \in [Calls -> Nat], Due(due) PROVE DueInMatch(due)'
  <2>1. DueInMatch(due) /\ DueAtRest(due, m)
    BY <1>1, <1>3, <1>12 DEF Due
  <2>2. DueOf(due, m)
    BY <2>1 DEF DueAtRest
  <2>3. ASSUME NEW i \in DOMAIN result'.canceled PROVE DueOf(due, result.canceled[i])'
    <3>1. PICK x : x = result'.canceled[i]
      OBVIOUS
    <3>2. DueOf(due, x)
      BY <1>4, <1>6, <2>1, <2>2, <3>1 DEF DueInMatch
    <3>3. DueOf(due, x)'
      BY <1>1, <3>2 DEF DueOf
    <3> QED BY <3>1, <3>3 DEF DueOf
  <2> QED BY <1>1, <2>1, <2>3 DEF DueInMatch
<1>13. \A id \in DOMAIN uuid : Remaining(orders'[id]) <= Remaining(orders[id]) /\ Remaining(orders'[id]) \in Nat
  <2> TAKE id \in DOMAIN uuid
  <2>1. Remaining(orders[id]) \in Nat
    BY LeftByRow
  <2> QED BY <1>1, <2>1
<1>14. Moneywise'
  BY <1>1, <1>11, <1>12, <1>13, MatchMoney
<1> QED BY <1>10, <1>14

LEMMA TradeKeeps ==
  ASSUME Inv, Inv', Rowwise, Moneywise, NEW m \in resting, Book!Execute(m),
         UNCHANGED <<uuid, rows, wallets, create, cancel, boot>>
  PROVE  Rowwise' /\ Moneywise'
<1>0. PICK price : price = orders[m].price
  OBVIOUS
<1>1. PICK qty \in Nat :
        /\ taker' = taker /\ taker # NoOrder /\ m # taker
        /\ m \in 1..Len(orders) /\ taker \in 1..Len(orders) /\ Len(orders') = Len(orders)
        /\ \A k \in 1..Len(orders) :
              orders'[k] = [orders[k] EXCEPT !.filled = IF k \in {taker, m} THEN @ + qty ELSE @]
        /\ result' = [result EXCEPT !.trades = Append(@, Trade(m, taker, price, qty))]
        /\ price \in Prices
        /\ resting' = IF Remaining(orders[m]) = qty THEN resting \ {m} ELSE resting
        /\ qty <= Remaining(orders[m]) /\ orders[m].user # orders[taker].user
        /\ Crosses(orders[taker], price)
  BY <1>0, ExecuteSound DEF Inv
<1>2. /\ Book!MayMatch(m) /\ DOMAIN uuid = 1..Len(orders)
      /\ Remaining(orders[taker]) > 0 /\ m \in DOMAIN uuid \ {taker} /\ orders[m].type = "limit"
  <2>1. Book!MayMatch(m)
    BY DEF Book!Execute
  <2> QED BY <1>1, <2>1, MayMatchFacts, Names DEF Inv, BookSound
<1>3. \A k \in DOMAIN uuid :
         /\ orders'[k].type = orders[k].type /\ orders'[k].side = orders[k].side
         /\ orders'[k].user = orders[k].user /\ orders'[k].price = orders[k].price
         /\ orders'[k].qty = orders[k].qty
         /\ orders'[k].filled = IF k \in {taker, m} THEN orders[k].filled + qty ELSE orders[k].filled
  <2> TAKE k \in DOMAIN uuid
  <2>1. PICK o \in Orders : o = orders[k]
    BY <1>2, OrderFields DEF Inv, BookSound
  <2>2. PICK x : x = IF k \in {taker, m} THEN o.filled + qty ELSE o.filled
    OBVIOUS
  <2>3. orders'[k] = [o EXCEPT !.filled = x]
    BY <1>1, <1>2, <2>1, <2>2
  <2> QED BY <2>1, <2>2, <2>3 DEF Orders
<1>4. PICK fill \in Trades : /\ fill = Trade(m, taker, price, qty)
                             /\ fill.maker = m /\ fill.price = price /\ fill.qty = qty
  BY <1>1 DEF Trade, Trades
<1>5. result.trades \in Seq(Trades) /\ result'.trades = Append(result.trades, fill)
      /\ result'.canceled = result.canceled
  BY <1>1, <1>4 DEF Inv, BookSound, Results
<1>6. PICK l \in Nat : /\ DOMAIN result.trades = 1..l /\ DOMAIN result'.trades = 1..(l + 1)
                       /\ result'.trades[l + 1] = fill
                       /\ \A i \in 1..l : result'.trades[i] = result.trades[i]
  <2>1. PICK q \in Seq(Trades) : q = result.trades
    BY <1>5
  <2>2. PICK p : p = Append(q, fill)
    OBVIOUS
  <2>3. PICK l \in Nat : l = Len(q) /\ DOMAIN q = 1..l
    BY LenProperties
  <2>4. p \in Seq(Trades) /\ Len(p) = l + 1 /\ p[l + 1] = fill /\ \A i \in 1..l : p[i] = q[i]
    BY <2>2, <2>3, AppendProperties
  <2>5. DOMAIN p = 1..(l + 1)
    BY <2>4, LenProperties
  <2> QED BY <1>5, <2>1, <2>2, <2>3, <2>4, <2>5
<1>7. 1..(l + 1) = (1..l) \cup {l + 1} /\ l + 1 \notin 1..l
  BY <1>6
<1>8. /\ \A i \in 1..l : /\ result.trades[i].maker \in DOMAIN uuid \ {taker, m}
                         /\ result.trades[i].maker \notin resting
      /\ \A i \in DOMAIN result.canceled : /\ result.canceled[i] \in DOMAIN uuid \ {taker, m}
      /\ \A id \in DOMAIN uuid \ {m} : id \in resting' <=> id \in resting
  BY <1>1, <1>2, <1>6, MetIsOff
<1>9. Matching
  BY <1>1 DEF Rowwise, RowsTold
<1>10. /\ orders[m].filled \in Nat /\ orders[m].qty \in Nat /\ Remaining(orders'[m]) = Remaining(orders[m]) - qty
       /\ Remaining(orders[m]) \in Nat
  <2>1. orders[m].filled \in Nat /\ orders[m].qty \in Nat /\ Remaining(orders[m]) \in Nat
    BY <1>2, LeftByRow
  <2> QED BY SMTT(30), <1>2, <1>3, <2>1 DEF Remaining
<1>11. ~ Met(m) /\ Counts(m) /\ uuid[m] \in Calls
  <2>1. ~ Met(m)
    BY <1>6, <1>8 DEF Met
  <2> QED BY <1>2, <1>9, <2>1, LeftByRow DEF Matching
<1>12. Matching'
  <2>1. orders'[taker'].filled = Filled(result'.trades)
    <3>1. \A x \in Trades : x.qty \in Nat
      BY DEF Trades
    <3>2. Filled(result'.trades) = Filled(result.trades) + qty
      BY <1>4, <1>5, <3>1, OneMoreFill
    <3> QED BY <1>1, <1>2, <1>3, <1>9, <3>2 DEF Matching
  <2>2. ASSUME NEW id \in DOMAIN uuid \ {taker}
        PROVE  ~ Met(id)' => Counts(id)' /\ (~ Dropped(id)' => Shows(id)')
    <3>1. ~ Met(id) => Counts(id) /\ (~ Dropped(id) => Shows(id))
      BY <1>9 DEF Matching
    <3>2. ~ Met(id)' => ~ Met(id) /\ id # m
      BY <1>4, <1>6, <1>7 DEF Met
    <3>3. Dropped(id)' <=> Dropped(id)
      BY <1>5 DEF Dropped
    <3>4. id # m => /\ orders'[id].filled = orders[id].filled /\ orders'[id].type = orders[id].type
                    /\ (id \in resting' <=> id \in resting)
      BY <1>3, <1>8
    <3> QED BY <3>1, <3>2, <3>3, <3>4 DEF Counts, Shows, ShowsAs
  <2>3. ASSUME NEW t, t.maker \in DOMAIN uuid \ {taker, m}, MatchedTrade(t)
        PROVE  MatchedTrade(t)'
    <3>1. /\ orders'[t.maker].filled = orders[t.maker].filled /\ orders'[t.maker].qty = orders[t.maker].qty
          /\ orders'[t.maker].type = orders[t.maker].type /\ orders'[t.maker].user = orders[t.maker].user
          /\ orders'[t.maker].price = orders[t.maker].price
          /\ orders'[taker].type = orders[taker].type /\ orders'[taker].user = orders[taker].user
          /\ orders'[taker].side = orders[taker].side /\ orders'[taker].price = orders[taker].price
      BY <1>1, <1>2, <1>3, <2>3
    <3>2. t.maker \in resting' <=> t.maker \in resting
      BY <1>8, <2>3
    <3> QED BY <1>1, <1>5, <2>3, <3>1, <3>2 DEF MatchedTrade, Deal, Rests, Remaining
  <2>4. MatchedTrade(fill)'
    <3>1. Deal(orders'[m], orders'[taker'], price)
      <4>1. orders[taker].type = "limit" /\ orders[taker].side = "buy" => price <= orders[taker].price
        BY <1>1 DEF Crosses
      <4>2. /\ orders'[m].type = "limit" /\ orders'[m].user = orders[m].user /\ price = orders'[m].price
            /\ orders'[taker].user = orders[taker].user /\ orders'[taker].type = orders[taker].type
            /\ orders'[taker].side = orders[taker].side /\ orders'[taker].price = orders[taker].price
        BY <1>0, <1>1, <1>2, <1>3
      <4> QED BY <1>1, <4>1, <4>2 DEF Deal
    <3>2. Rests(m)'
      BY <1>1, <1>10 DEF Rests
    <3>3. orders'[m].filled = rows'[uuid'[m]].filled + qty
      BY <1>2, <1>3, <1>11 DEF Counts
    <3>4. \A j \in DOMAIN result'.canceled : result'.canceled[j] # m
      BY <1>5, <1>8
    <3> QED BY <1>4, <3>1, <3>2, <3>3, <3>4 DEF MatchedTrade
  <2>5. ASSUME NEW i \in DOMAIN result'.trades PROVE MatchedTrade(result.trades[i])'
    <3>1. PICK t : t = result'.trades[i]
      OBVIOUS
    <3>2. t = fill \/ (t.maker \in DOMAIN uuid \ {taker, m} /\ MatchedTrade(t))
      <4>1. i \in 1..l \/ i = l + 1
        BY <1>6, <1>7
      <4> QED BY <1>6, <1>8, <1>9, <3>1, <4>1 DEF Matching
    <3>3. MatchedTrade(t)'
      BY <2>3, <2>4, <3>2
    <3> QED BY <3>1, <3>3 DEF MatchedTrade
  <2>6. ASSUME NEW i \in DOMAIN result'.canceled, NEW j \in DOMAIN result'.canceled
        PROVE  /\ orders'[result'.canceled[i]].type = "limit"
               /\ i # j => result'.canceled[i] # result'.canceled[j]
    BY <1>3, <1>5, <1>8, <1>9 DEF Matching
  <2> QED BY <1>1, <2>1, <2>2, <2>5, <2>6 DEF Matching
<1>13. resting' \subseteq resting
  BY <1>1
<1>14. Rowwise'
  BY <1>1, <1>12, <1>13, MatchRows
<1>15. \A d \in Calls : create[d].pc \notin After
  BY <1>1, NobodyAfter DEF Rowwise
<1>16. \A id \in DOMAIN uuid : Remaining(orders'[id]) <= Remaining(orders[id]) /\ Remaining(orders'[id]) \in Nat
  <2> TAKE id \in DOMAIN uuid
  <2>1. orders[id].filled \in Nat /\ orders[id].qty \in Nat /\ Remaining(orders[id]) \in Nat
    BY LeftByRow
  <2>2. orders'[id].qty = orders[id].qty /\ orders'[id].filled \in Nat /\ orders'[id].filled >= orders[id].filled
    BY <1>3, <2>1
  <2>3. orders'[id].filled <= orders'[id].qty
    BY <1>1, <1>2 DEF Inv, BookSound
  <2> QED BY <2>1, <2>2, <2>3 DEF Remaining
<1>17. ASSUME NEW due \in [Calls -> Nat], Due(due) PROVE DueInMatch(due)'
  <2>1. DueInMatch(due) /\ DueAtRest(due, m)
    BY <1>1, <1>2, <1>17 DEF Due
  <2>2. DueOf(due, m)
    BY <2>1 DEF DueAtRest
  <2>3. ASSUME NEW i \in DOMAIN result'.canceled PROVE DueOf(due, result.canceled[i])'
    <3>1. PICK x : x = result'.canceled[i]
      OBVIOUS
    <3>2. DueOf(due, x) /\ x \in DOMAIN uuid \ {taker, m}
      BY <1>5, <1>8, <2>1, <3>1 DEF DueInMatch
    <3>3. DueOf(due, x)'
      BY <1>3, <3>2 DEF DueOf, Remaining
    <3> QED BY <3>1, <3>3 DEF DueOf
  <2>4. ASSUME NEW i \in DOMAIN result'.trades
        PROVE  due[uuid[result'.trades[i].maker]] >= result'.trades[i].qty + Remaining(orders'[result'.trades[i].maker])
    <3>1. CASE i = l + 1
      <4>1. due[uuid[m]] >= qty + Remaining(orders'[m])
        <5>1. due[uuid[m]] >= Remaining(orders[m]) /\ due[uuid[m]] \in Nat
          BY <1>11, <2>2 DEF DueOf
        <5> QED BY <1>10, <5>1
      <4> QED BY <1>4, <1>6, <3>1, <4>1
    <3>2. CASE i \in 1..l
      <4>1. PICK t : t = result.trades[i] /\ t = result'.trades[i]
        BY <1>6, <3>2
      <4>2. due[uuid[t.maker]] >= t.qty + Remaining(orders[t.maker])
        BY <1>6, <2>1, <3>2, <4>1 DEF DueInMatch
      <4>3. Remaining(orders'[t.maker]) = Remaining(orders[t.maker])
        BY <1>3, <1>8, <3>2, <4>1 DEF Remaining
      <4> QED BY <4>1, <4>2, <4>3
    <3> QED BY <1>6, <1>7, <3>1, <3>2
  <2> QED BY <2>3, <2>4 DEF DueInMatch
<1>18. Moneywise'
  BY <1>1, <1>13, <1>15, <1>16, <1>17, MatchMoney
<1> QED BY <1>14, <1>18

LEMMA MatchKeeps ==
  ASSUME Inv, Inv', Rowwise, Moneywise, NEW c \in Calls, Match(c)
  PROVE  Rowwise' /\ Moneywise'
<1>1. PICK m \in resting : Book!CancelOwnMaker(m) \/ Book!Execute(m)
  BY DEF Match
<1>2. UNCHANGED <<uuid, rows, wallets, create, cancel, boot>>
  BY DEF Match
<1> QED BY <1>1, <1>2, OwnMakerKeeps, TradeKeeps

\* What Submit hands back.
LEMMA MatchedCall ==
  ASSUME Inv, NEW c \in Calls, Matched(c)
  PROVE  /\ create[c].pc = "match" /\ taker # NoOrder /\ uuid[taker] = c /\ taker \in DOMAIN uuid
         /\ UNCHANGED <<uuid, rows, trades, wallets, cancel, boot, crashes>>
         /\ taker' = NoOrder /\ orders' = orders
         /\ result'.rested = (orders[taker].type = "limit" /\ Remaining(orders[taker]) > 0)
         /\ resting' = IF result'.rested THEN resting \cup {taker} ELSE resting
         /\ \E k \in CallRecs :
              /\ create' = [create EXCEPT ![c] = k]
              /\ k.pc = (IF k.fills = <<>> THEN "apply" ELSE "settle")
              /\ k.req = create[c].req /\ k.settled = 0 /\ k.rested = result'.rested
              /\ DOMAIN k.fills = DOMAIN result.trades /\ k.makers = Range(k.fills)
              /\ \A i \in DOMAIN k.fills : LET t == result.trades[i]
                                               f == k.fills[i]
                                           IN  /\ f \in Fills /\ f.maker = uuid[t.maker] /\ f.taker = c
                                               /\ f.price = t.price /\ f.qty = t.qty
              /\ DOMAIN k.dropped = DOMAIN result.canceled
              /\ \A i \in DOMAIN k.dropped : k.dropped[i] = uuid[result.canceled[i]]
<1>1. /\ create[c].pc = "match" /\ taker # NoOrder /\ uuid[taker] = c /\ Book!Complete
      /\ UNCHANGED <<uuid, rows, trades, wallets, cancel, boot, crashes>>
  BY DEF Matched, Holds
<1>2. /\ taker' = NoOrder /\ orders' = orders /\ taker \in DOMAIN uuid /\ result \in Results
      /\ resting' = IF result'.rested THEN resting \cup {taker} ELSE resting
      /\ result'.rested \in BOOLEAN
  BY <1>1, CompleteSound, Names DEF Inv, BookSound
<1>3. result'.rested = (orders[taker].type = "limit" /\ Remaining(orders[taker]) > 0)
  <2>1. PICK rests \in BOOLEAN : rests = (orders[taker].type = "limit" /\ Remaining(orders[taker]) > 0)
    OBVIOUS
  <2>2. result' = [result EXCEPT !.rested = rests]
    BY <1>1, <2>1, SameWords DEF Book!Complete
  <2> QED BY <1>2, <2>1, <2>2 DEF Results
<1>4. \A id \in DOMAIN uuid : uuid[id] \in Calls
  BY Names DEF Inv
<1>5. PICK fills : fills = [i \in DOMAIN result.trades |-> ByCall(result.trades[i])]
  OBVIOUS
<1>6. PICK drops : drops = [i \in DOMAIN result.canceled |-> uuid[result.canceled[i]]]
  OBVIOUS
<1>7. ASSUME NEW i \in DOMAIN result.trades
      PROVE  LET t == result.trades[i]
                 f == fills[i]
             IN  /\ f \in Fills /\ f.maker = uuid[t.maker] /\ f.taker = c
                 /\ f.price = t.price /\ f.qty = t.qty
  <2>1. PICK t : t = result.trades[i]
    OBVIOUS
  <2>2. t \in Trades /\ t.maker \in DOMAIN uuid /\ t.price \in Prices
    BY <1>1, <2>1, MetIsOff DEF Inv, BookSound, MatchSound, FillSound
  <2>3. PICK f : f = ByCall(t)
    OBVIOUS
  <2>4. f \in Fills /\ f.maker = uuid[t.maker] /\ f.taker = c /\ f.price = t.price /\ f.qty = t.qty
    BY <1>1, <1>2, <1>4, <2>2, <2>3 DEF ByCall, Fills, Trades
  <2>5. fills[i] = f
    BY <1>5, <2>1, <2>3
  <2> QED BY <2>1, <2>4, <2>5
<1>8. fills \in Seq(Fills)
  <2>1. PICK l \in Nat : DOMAIN result.trades = 1..l
    BY <1>2, LenProperties DEF Results
  <2>2. fills \in [1..l -> Fills]
    BY <1>5, <1>7, <2>1
  <2> QED BY <2>1, <2>2, IsASeq
<1>9. drops \in Seq(Calls)
  <2>1. PICK p \in Nat : DOMAIN result.canceled = 1..p
    BY <1>2, LenProperties DEF Results
  <2>2. \A i \in 1..p : result.canceled[i] \in DOMAIN uuid
    BY <1>1, <2>1, MetIsOff
  <2>3. drops \in [1..p -> Calls]
    BY <1>4, <1>6, <2>1, <2>2
  <2> QED BY <2>1, <2>3, IsASeq
<1>10. PICK pc \in {"apply", "settle"} :
         /\ pc = IF fills = <<>> THEN "apply" ELSE "settle"
         /\ create' = [create EXCEPT ![c].pc = pc, ![c].fills = fills, ![c].makers = Range(fills),
                                     ![c].dropped = drops, ![c].rested = result'.rested]
  <2>1. fills = [i \in DOMAIN result.trades |->
                    [result.trades[i] EXCEPT !.maker = uuid[@], !.taker = c]]
    BY <1>1, <1>5 DEF ByCall
  <2>2. create' = [create EXCEPT ![c].pc = IF fills = <<>> THEN "apply" ELSE "settle",
                                 ![c].fills = fills, ![c].makers = Range(fills),
                                 ![c].dropped = drops, ![c].rested = result'.rested]
    BY <1>6, <2>1 DEF Matched
  <2> QED BY <2>2
<1>11. PICK k : k = [create[c] EXCEPT !.pc = pc, !.fills = fills, !.makers = Range(fills),
                                      !.dropped = drops, !.rested = result'.rested]
  OBVIOUS
<1>12. create' = [create EXCEPT ![c] = k]
  <2>1. create \in [Calls -> CallRecs]
    BY DEF Inv, ServiceTypes
  <2> QED BY <1>10, <1>11, <2>1
<1>13. create[c] \in CallRecs /\ create[c].settled = 0 /\ pc \in CreatePcs
  BY <1>1 DEF Inv, ServiceTypes, CallsSound, CallSound, After, Applying, CreatePcs
<1>14. /\ k \in CallRecs /\ k.pc = pc /\ k.fills = fills /\ k.makers = Range(fills)
       /\ k.dropped = drops /\ k.rested = result'.rested
       /\ k.req = create[c].req /\ k.settled = 0
  <2>1. Range(fills) \in SUBSET Fills
    BY <1>8, SeqRangeFinite
  <2>2. PICK R \in SUBSET Fills : R = Range(fills)
    BY <2>1
  <2>3. PICK rested \in BOOLEAN : rested = result'.rested
    BY <1>2
  <2>4. k = [create[c] EXCEPT !.pc = pc, !.fills = fills, !.makers = R, !.dropped = drops, !.rested = rested]
    BY <1>11, <2>2, <2>3
  <2>5. /\ k \in CallRecs /\ k.pc = pc /\ k.fills = fills /\ k.makers = R
        /\ k.dropped = drops /\ k.rested = rested
        /\ k.req = create[c].req /\ k.settled = 0
    BY <1>8, <1>9, <1>13, <2>4 DEF CallRecs
  <2> QED BY <2>2, <2>3, <2>5
<1>15. DOMAIN fills = DOMAIN result.trades /\ DOMAIN drops = DOMAIN result.canceled
  BY <1>5, <1>6
<1>16. \A i \in DOMAIN drops : drops[i] = uuid[result.canceled[i]]
  BY <1>6
<1>17. /\ k.pc = (IF k.fills = <<>> THEN "apply" ELSE "settle")
       /\ DOMAIN k.fills = DOMAIN result.trades /\ k.makers = Range(k.fills)
       /\ DOMAIN k.dropped = DOMAIN result.canceled
       /\ \A i \in DOMAIN k.dropped : k.dropped[i] = uuid[result.canceled[i]]
  BY <1>10, <1>14, <1>15, <1>16
<1>18. \A i \in DOMAIN k.fills : LET t == result.trades[i]
                                     f == k.fills[i]
                                 IN  /\ f \in Fills /\ f.maker = uuid[t.maker] /\ f.taker = c
                                     /\ f.price = t.price /\ f.qty = t.qty
  BY <1>7, <1>14, <1>15
<1>19. \E r \in CallRecs :
              /\ create' = [create EXCEPT ![c] = r]
              /\ r.pc = (IF r.fills = <<>> THEN "apply" ELSE "settle")
              /\ r.req = create[c].req /\ r.settled = 0 /\ r.rested = result'.rested
              /\ DOMAIN r.fills = DOMAIN result.trades /\ r.makers = Range(r.fills)
              /\ \A i \in DOMAIN r.fills : LET t == result.trades[i]
                                               f == r.fills[i]
                                           IN  /\ f \in Fills /\ f.maker = uuid[t.maker] /\ f.taker = c
                                               /\ f.price = t.price /\ f.qty = t.qty
              /\ DOMAIN r.dropped = DOMAIN result.canceled
              /\ \A i \in DOMAIN r.dropped : r.dropped[i] = uuid[result.canceled[i]]
  <2>1. k \in CallRecs /\ k.req = create[c].req /\ k.settled = 0 /\ k.rested = result'.rested
    BY <1>14
  <2> QED BY ONLY <2>1, <1>12, <1>17, <1>18
<1> QED BY <1>1, <1>2, <1>3, <1>19

LEMMA MatchedKeeps ==
  ASSUME Inv, Inv', Rowwise, Moneywise, NEW c \in Calls, Matched(c)
  PROVE  Rowwise' /\ Moneywise'
<1>1. /\ create[c].pc = "match" /\ taker # NoOrder /\ uuid[taker] = c /\ taker \in DOMAIN uuid
      /\ UNCHANGED <<uuid, rows, trades, wallets, cancel, boot, crashes>>
      /\ taker' = NoOrder /\ orders' = orders
      /\ result'.rested = (orders[taker].type = "limit" /\ Remaining(orders[taker]) > 0)
      /\ resting' = IF result'.rested THEN resting \cup {taker} ELSE resting
  BY MatchedCall
<1>2. PICK k \in CallRecs :
        /\ create' = [create EXCEPT ![c] = k]
        /\ k.pc = (IF k.fills = <<>> THEN "apply" ELSE "settle")
        /\ k.req = create[c].req /\ k.settled = 0 /\ k.rested = result'.rested
        /\ DOMAIN k.fills = DOMAIN result.trades /\ k.makers = Range(k.fills)
        /\ \A i \in DOMAIN k.fills : LET t == result.trades[i]
                                         f == k.fills[i]
                                     IN  /\ f \in Fills /\ f.maker = uuid[t.maker] /\ f.taker = c
                                         /\ f.price = t.price /\ f.qty = t.qty
        /\ DOMAIN k.dropped = DOMAIN result.canceled
        /\ \A i \in DOMAIN k.dropped : k.dropped[i] = uuid[result.canceled[i]]
  BY MatchedCall
<1>3. k.pc \in After /\ k.pc \in {"apply", "settle"}
  BY <1>2 DEF After, Applying
<1>4. CallAlone(c)
  BY <1>1, ActiveAlone DEF Rowwise, CreateEnds
<1>5. Lone' /\ create'[c] = k /\ \A d \in Calls : d # c => create'[d] = create[d]
  <2>1. k.pc \notin {"undo", "failed", "lost"}
    BY <1>3
  <2> QED BY <1>1, <1>2, <1>4, <2>1, LoneStep DEF Rowwise
<1>6. \A d \in Calls : d # c => create'[d].pc \in Ended /\ create'[d].pc \notin Selling \cup Locking
  BY <1>4, <1>5, OthersEnded
<1>7. /\ DOMAIN uuid = 1..Len(orders) /\ NoOrder \notin DOMAIN uuid /\ taker \notin resting
      /\ \A i, j \in DOMAIN uuid : uuid[i] = uuid[j] => i = j
      /\ \A id \in DOMAIN uuid : uuid[id] \in Calls /\ (uuid[id] = c <=> id = taker)
  BY <1>1, Names DEF Inv, NamesSound, BookSound, NoOrder
<1>8. /\ \A i \in DOMAIN k.fills : result.trades[i].maker \in DOMAIN uuid \ {taker}
      /\ \A i \in DOMAIN k.dropped : result.canceled[i] \in DOMAIN uuid \ {taker}
                                       /\ result.canceled[i] \notin resting
      /\ \A i, j \in DOMAIN k.fills : i # j => result.trades[i].maker # result.trades[j].maker
  BY <1>1, <1>2, MetIsOff DEF Inv, BookSound, MatchSound
<1>9. \A id \in DOMAIN uuid \ {taker} : id \in resting' <=> id \in resting
  BY <1>1
<1>10. \A d : (Known(d) => Known(d)') /\ (Gone(d) => Gone(d)')
  BY <1>1, <1>7, <1>9 DEF Known, Gone
<1>11. Placed'
  <2>1. ASSUME NEW d \in Calls PROVE PlacedCall(d)'
    <3>1. PlacedCall(d) /\ cancel[d].pc \in {"new", "done"}
      BY <1>4 DEF Rowwise, Placed, CallAlone
    <3> QED BY <1>1, <1>2, <1>3, <1>5, <1>10, <3>1 DEF PlacedCall, Req
  <2> QED BY <2>1 DEF Placed
<1>12. Matching
  BY <1>1 DEF Rowwise, RowsTold
<1>13. \A d \in Calls : Req(d)' = Req(d)
  BY <1>2, <1>5 DEF Req
<1>14. \A id \in DOMAIN uuid :
          LET o == orders[id]
              r == Req(uuid[id])
          IN  o.user = r.user /\ o.side = r.side /\ o.type = r.type /\ o.price = r.price /\ o.qty = r.qty
  BY DEF Inv, NamesSound
<1>15. /\ FillsOf(c)' = Range(k.fills)
       /\ create'[c].makers = Range(k.fills)
       /\ \A f \in Range(k.fills) : \E i \in DOMAIN k.fills : f = k.fills[i]
       /\ \A i \in DOMAIN k.fills : k.fills[i] \in Range(k.fills)
  BY <1>2, <1>5 DEF FillsOf, Range
<1>16. \A id \in DOMAIN uuid : Met(id) <=> \E f \in Range(k.fills) : f.maker = uuid[id]
  <2> TAKE id \in DOMAIN uuid
  <2>1. ASSUME Met(id) PROVE \E f \in Range(k.fills) : f.maker = uuid[id]
    <3>1. PICK i \in DOMAIN k.fills : result.trades[i].maker = id
      BY <1>2, <2>1 DEF Met
    <3>2. k.fills[i].maker = uuid[result.trades[i].maker]
      BY <1>2, <3>1
    <3>3. PICK f \in Range(k.fills) : f = k.fills[i]
      BY <3>1 DEF Range
    <3> QED BY <3>1, <3>2, <3>3
  <2>2. ASSUME NEW f \in Range(k.fills), f.maker = uuid[id] PROVE Met(id)
    <3>1. PICK i \in DOMAIN k.fills : f = k.fills[i]
      BY <1>15
    <3>2. uuid[result.trades[i].maker] = uuid[id]
      BY <1>2, <2>2, <3>1
    <3>3. result.trades[i].maker = id
      BY <1>7, <1>8, <3>2
    <3> QED BY <1>2, <3>3 DEF Met
  <2> QED BY <2>1, <2>2
<1>17. \A id \in DOMAIN uuid : Dropped(id) <=> uuid[id] \in Range(k.dropped)
  <2> TAKE id \in DOMAIN uuid
  <2>1. ASSUME Dropped(id) PROVE uuid[id] \in Range(k.dropped)
    <3>1. PICK i \in DOMAIN k.dropped : result.canceled[i] = id
      BY <1>2, <2>1 DEF Dropped
    <3> QED BY <1>2, <3>1 DEF Range
  <2>2. ASSUME uuid[id] \in Range(k.dropped) PROVE Dropped(id)
    <3>1. PICK i \in DOMAIN k.dropped : uuid[id] = k.dropped[i]
      BY <2>2 DEF Range
    <3>2. uuid[result.canceled[i]] = uuid[id]
      BY <1>2, <3>1
    <3>3. result.canceled[i] = id
      BY <1>7, <1>8, <3>2
    <3> QED BY <1>2, <3>3 DEF Dropped
  <2> QED BY <2>1, <2>2
<1>18. \A id \in DOMAIN uuid : Tells(c, id)'
  <2> TAKE id \in DOMAIN uuid
  <2>1. CASE id = taker
    <3>1. orders[taker].filled = Filled(k.fills)
      <4>1. Amounts(k.fills) = Amounts(result.trades)
        <5>1. PICK D : D = DOMAIN k.fills /\ D = DOMAIN result.trades
          BY <1>2
        <5>2. \A i \in D : k.fills[i].qty = result.trades[i].qty
          BY <1>2, <5>1
        <5>3. [i \in D |-> k.fills[i].qty] = [i \in D |-> result.trades[i].qty]
          BY <5>2
        <5> QED BY <5>1, <5>3 DEF Amounts
      <4> QED BY <1>2, <1>12, <4>1 DEF Matching, Filled
    <3>2. k.rested <=> taker \in resting'
      BY <1>1, <1>2, <1>7
    <3> QED BY <1>1, <1>2, <1>5, <1>7, <2>1, <3>1, <3>2 DEF Tells, TellsOwn
  <2>2. CASE id # taker
    <3>1. ~ Met(id) => Counts(id) /\ (~ Dropped(id) => Shows(id))
      BY <1>12, <2>2 DEF Matching
    <3>2. TellsMaker(c, id)'
      <4>1. ASSUME NEW f \in Range(k.fills), f.maker = uuid[id]
            PROVE  orders[id].filled = rows[uuid[id]].filled + f.qty /\ Rests(id)'
        <5>1. PICK i \in DOMAIN k.fills : f = k.fills[i]
          BY <1>15
        <5>2. uuid[result.trades[i].maker] = uuid[id]
          BY <1>2, <4>1, <5>1
        <5>3. result.trades[i].maker = id
          BY <1>7, <1>8, <5>2
        <5>4. MatchedTrade(result.trades[i])
          BY <1>2, <1>12 DEF Matching
        <5> QED BY <1>1, <1>2, <1>9, <2>2, <5>1, <5>3, <5>4 DEF MatchedTrade, Rests
      <4> QED BY <1>1, <1>3, <1>5, <1>15, <4>1 DEF TellsMaker, At
    <3>3. TellsOther(c, id)'
      <4>1. Awaits(c, uuid[id])' <=> Met(id)
        BY <1>1, <1>15, <1>16 DEF Awaits
      <4>2. uuid[id] \in Range(create'[c].dropped) <=> Dropped(id)
        BY <1>5, <1>17
      <4>3. (Counts(id) => Counts(id)') /\ (Shows(id) => Shows(id)')
        BY <1>1, <1>9, <2>2 DEF Counts, Shows, ShowsAs
      <4> QED BY <1>1, <3>1, <4>1, <4>2, <4>3 DEF TellsOther
    <3> QED BY <1>1, <1>7, <2>2, <3>2, <3>3 DEF Tells
  <2> QED BY <2>1, <2>2
<1>19. FillsDeal(c)'
  <2>1. ASSUME NEW f \in Range(k.fills)
        PROVE  f.maker # c /\ Deal(Req(f.maker), Req(c), f.price)
    <3>1. PICK i \in DOMAIN k.fills : f = k.fills[i]
      BY <1>15
    <3>2. PICK t : t = result.trades[i]
      OBVIOUS
    <3>3. t.maker \in DOMAIN uuid \ {taker} /\ f.maker = uuid[t.maker] /\ f.price = t.price
      BY <1>2, <1>8, <3>1, <3>2
    <3>4. Deal(orders[t.maker], orders[taker], t.price)
      BY <1>2, <1>12, <3>2 DEF Matching, MatchedTrade
    <3>5. Deal(Req(uuid[t.maker]), Req(c), t.price)
      BY <1>1, <1>14, <3>3, <3>4 DEF Deal
    <3> QED BY <1>7, <3>3, <3>5
  <2>2. ASSUME NEW f \in Range(k.fills), NEW g \in Range(k.fills), f.maker = g.maker PROVE f = g
    <3>1. PICK i \in DOMAIN k.fills : f = k.fills[i]
      BY <1>15
    <3>2. PICK j \in DOMAIN k.fills : g = k.fills[j]
      BY <1>15
    <3>3. result.trades[i].maker = result.trades[j].maker
      BY <1>2, <1>7, <1>8, <2>2, <3>1, <3>2
    <3> QED BY <1>8, <3>1, <3>2, <3>3
  <2>3. \A f \in Range(k.fills) : f.maker \in Calls
    BY <1>2, <1>15 DEF Fills
  <2> QED BY <1>13, <1>15, <2>1, <2>2, <2>3 DEF FillsDeal
<1>20. \A d \in Calls : Dropping(c, d)' <=> d \in Range(k.dropped)
  BY <1>3, <1>5 DEF Dropping, At
<1>21. DropsKnown(c)'
  <2>1. ASSUME NEW d \in Calls, d \in Range(k.dropped)
        PROVE  d # c /\ Req(d).type = "limit" /\ Gone(d)' /\ \A f \in Range(k.fills) : f.maker # d
    <3>1. PICK i \in DOMAIN k.dropped : d = k.dropped[i]
      BY <2>1 DEF Range
    <3>2. PICK id \in DOMAIN uuid \ {taker} : id = result.canceled[i] /\ d = uuid[id] /\ id \notin resting
      BY <1>2, <1>8, <3>1
    <3>3. orders[id].type = "limit" /\ ~ Met(id)
      BY <1>2, <1>12, <3>1, <3>2 DEF Matching, MatchedTrade, Met
    <3>4. Gone(d)'
      BY <1>1, <1>7, <1>9, <3>2 DEF Gone
    <3> QED BY <1>7, <1>14, <1>16, <3>2, <3>3, <3>4
  <2>2. ASSUME NEW i \in DOMAIN k.dropped, NEW j \in DOMAIN k.dropped, i # j
        PROVE  k.dropped[i] # k.dropped[j]
    <3>1. result.canceled[i] # result.canceled[j]
      BY <1>2, <1>12, <2>2 DEF Matching
    <3> QED BY <1>2, <1>7, <1>8, <3>1
  <2> QED BY <1>5, <1>13, <1>15, <1>20, <2>1, <2>2 DEF DropsKnown
<1>22. AtTarget(c)'
  <2>1. Len(<<>>) = 0
    BY BareRecord
  <2>2. k.pc = "apply" => k.settled = Len(k.fills)
    BY <1>2, <2>1
  <2> QED BY <1>3, <1>5, <2>2 DEF AtTarget, Applying
<1>23. Rowwise'
  <2>1. Telling(c)'
    BY <1>1, <1>18, <1>19, <1>21, <1>22 DEF Telling
  <2>2. \A d \in Calls : create'[d].pc \in After => d = c
    BY <1>6 DEF Locking
  <2> QED BY <1>1, <1>3, <1>5, <1>11, <2>1, <2>2 DEF Rowwise, RowsTold
<1>24. Paid(c)' = 0 /\ Paid(c) = 0
  BY <1>1, <1>2, <1>5, PaidLater, FillsType DEF After, Applying
<1>25. SellersFunded'
  BY <1>1, <1>2, <1>5, <1>6, <1>24, SellersStay DEF Moneywise, Selling
<1>26. PICK due \in [Calls -> Nat] : Due(due) /\ Covered(due)
  BY DEF Moneywise
<1>27. ASSUME NEW id \in DOMAIN uuid PROVE DueAtRest(due, id)'
  <2>1. DueAtRest(due, id) /\ cancel'[uuid[id]].pc \in {"new", "done"}
    BY <1>1, <1>4, <1>7, <1>26 DEF Due, CallAlone
  <2>2. CASE id # taker
    BY <1>1, <1>9, <2>1, <2>2 DEF DueAtRest, DueOf
  <2>3. CASE id = taker
    <3>1. orders[taker].type = "limit" => due[c] >= Remaining(orders[taker])
      <4>1. DueInCall(due, c) /\ due[c] \in Nat
        BY <1>26 DEF Due
      <4>2. /\ orders[taker].qty = Req(c).qty /\ orders[taker].type = Req(c).type
            /\ orders[taker].filled \in Nat /\ orders[taker].qty \in Nat
        BY <1>1, LeftByRow
      <4> QED BY <1>1, <1>24, <4>1, <4>2 DEF DueInCall, Remaining
    <3> QED BY <1>1, <2>1, <2>3, <3>1 DEF DueAtRest, DueOf
  <2> QED BY <2>2, <2>3
<1>28. ASSUME NEW d \in Calls PROVE DueInCall(due, d)'
  <2>1. DueInCall(due, d)
    BY <1>26 DEF Due
  <2> QED BY <1>1, <1>2, <1>5, <1>6, <1>24, <2>1, InCallStays DEF Locking
<1>29. DueInMatch(due)
  BY <1>1, <1>26 DEF Due
<1>30. ASSUME NEW id \in DOMAIN uuid PROVE DueAfter(due, c, id)'
  <2>1. ASSUME uuid[id] \in Range(k.dropped) PROVE DueOf(due, id)'
    <3>1. Dropped(id)
      BY <1>17, <2>1
    <3>2. DueOf(due, id)
      BY <1>29, <3>1 DEF DueInMatch, Dropped
    <3> QED BY <1>1, <3>2 DEF DueOf
  <2>2. ASSUME NEW i \in DOMAIN k.fills, k.fills[i].maker = uuid[id]
        PROVE  due[uuid[id]] >= k.fills[i].qty + Remaining(orders[id])
    <3>1. uuid[result.trades[i].maker] = uuid[id] /\ k.fills[i].qty = result.trades[i].qty
      BY <1>2, <2>2
    <3>2. result.trades[i].maker = id
      BY <1>7, <1>8, <3>1
    <3> QED BY <1>2, <1>29, <3>1, <3>2 DEF DueInMatch
  <2>3. (k.settled + 1)..Len(k.fills) = DOMAIN k.fills
    <3>1. k.fills \in Seq(Fills)
      BY DEF CallRecs
    <3>2. PICK l \in Nat : l = Len(k.fills) /\ DOMAIN k.fills = 1..l
      BY <3>1, LenProperties
    <3> QED BY <1>2, <3>2
  <2>4. uuid[id] \in Calls
    BY <1>7
  <2> QED BY <1>1, <1>5, <1>20, <2>1, <2>2, <2>3, <2>4 DEF DueAfter
<1>31. Due(due)'
  <2>1. \A d \in Calls : create'[d].pc \in After => d = c
    BY <1>6 DEF Locking
  <2> QED BY <1>1, <1>27, <1>28, <1>30, <2>1 DEF Due
<1>32. Covered(due)'
  <2>1. \A d \in Calls : SameAsk(d)
    BY <1>1, <1>2, <1>3, <1>5 DEF SameAsk
  <2> QED BY <1>1, <1>26, <2>1, CoveredStays
<1> QED BY <1>23, <1>25, <1>31, <1>32 DEF Moneywise

-----------------------------------------------------------------------------
\* CreateOrder tells the rows.

\* How a call that is telling the rows stands to the rest.
LEMMA TellingAlone ==
  ASSUME Inv, Rowwise, NEW c \in Calls, create[c].pc \in After
  PROVE  /\ CallAlone(c) /\ taker = NoOrder /\ Telling(c) /\ CallSound(c) /\ create[c] \in CallRecs
         /\ NoOrder \notin DOMAIN uuid
         /\ \A i, j \in DOMAIN uuid : uuid[i] = uuid[j] => i = j
         /\ \A id \in DOMAIN uuid : uuid[id] \in Calls
         /\ \A d \in Calls : cancel[d].pc \in {"new", "done"}
         /\ \E my \in DOMAIN uuid : uuid[my] = c
<1>1. CallAlone(c) /\ taker = NoOrder
  BY ActiveAlone DEF Rowwise, After, Applying, CreateEnds
<1>2. Telling(c)
  BY DEF Rowwise, RowsTold
<1>3. CallSound(c) /\ create[c] \in CallRecs
  BY DEF Inv, CallsSound, ServiceTypes
<1>4. NoOrder \notin DOMAIN uuid /\ \A id \in DOMAIN uuid : uuid[id] \in Calls
  BY Names DEF Inv, BookSound, NoOrder
<1>5. \A i, j \in DOMAIN uuid : uuid[i] = uuid[j] => i = j
  BY DEF Inv, NamesSound
<1>6. \E my \in DOMAIN uuid : uuid[my] = c
  BY <1>3 DEF CallSound, Known
<1> QED BY <1>1, <1>2, <1>3, <1>4, <1>5, <1>6 DEF CallAlone

LEMMA AfterRows ==
  ASSUME Inv, Rowwise, NEW c \in Calls, create[c].pc \in After, NEW k,
         create' = [create EXCEPT ![c] = k], k.pc \in After, k.req = create[c].req,
         UNCHANGED <<book, uuid, cancel, boot>>,
         \A d \in Calls : rows'[d] # NoRow => rows[d] # NoRow, Telling(c)'
  PROVE  Rowwise'
<1>1. CallAlone(c) /\ taker = NoOrder
  BY TellingAlone
<1>2. Lone' /\ create'[c] = k /\ \A d \in Calls : d # c => create'[d] = create[d]
  <2>1. k.pc \notin {"undo", "failed", "lost"}
    BY DEF After, Applying
  <2> QED BY <1>1, <2>1, LoneStep DEF Rowwise
<1>3. UNCHANGED <<orders, resting, taker, uuid, cancel>>
  BY DEF book
<1>4. \A d : (Known(d)' <=> Known(d)) /\ (Gone(d)' <=> Gone(d))
  BY <1>3 DEF Known, Gone
<1>5. Placed'
  <2>1. ASSUME NEW d \in Calls PROVE PlacedCall(d)'
    <3>1. PlacedCall(d) /\ cancel[d].pc \in {"new", "done"}
      BY <1>1 DEF Rowwise, Placed, CallAlone
    <3>2. CASE d = c
      BY <1>2, <1>3, <3>1, <3>2 DEF PlacedCall, Req, After, Applying
    <3>3. CASE d # c
      BY <1>2, <1>3, <1>4, <3>1, <3>3 DEF PlacedCall, Req
    <3> QED BY <3>2, <3>3
  <2> QED BY <2>1 DEF Placed
<1>6. \A d \in Calls : create'[d].pc \in After => d = c
  BY <1>1, <1>2, OthersEnded DEF Locking
<1> QED BY <1>1, <1>2, <1>3, <1>5, <1>6 DEF Rowwise, RowsTold

\* What the steps that pay nothing leave alone.
LEMMA AfterMoney ==
  ASSUME Inv, Rowwise, Moneywise, NEW c \in Calls, create[c].pc \in After, NEW k,
         create' = [create EXCEPT ![c] = k], k.pc \in After \ {"settle"}, k.req = create[c].req,
         k.fills = create[c].fills, k.settled = create[c].settled,
         \A d \in Calls : Dropping(c, d)' => Dropping(c, d),
         UNCHANGED <<book, uuid, cancel, wallets>>
  PROVE  Moneywise'
<1>1. CallAlone(c) /\ taker = NoOrder /\ \A id \in DOMAIN uuid : uuid[id] \in Calls
  BY TellingAlone
<1>2. create'[c] = k /\ \A d \in Calls : d # c => create'[d] = create[d]
  BY DEF Inv, ServiceTypes
<1>3. UNCHANGED <<orders, resting, taker, uuid, cancel>>
  BY DEF book
<1>4. \A d \in Calls : d # c => create'[d].pc \in Ended /\ create'[d].pc \notin Selling \cup Locking
  BY <1>1, <1>2, OthersEnded
<1>5. Paid(c)' = Paid(c)
  BY <1>2, PaidStays
<1>6. SellersFunded'
  BY <1>2, <1>4, SellersStay DEF Moneywise, Selling, After, Applying
<1>7. PICK due \in [Calls -> Nat] : Due(due) /\ Covered(due)
  BY DEF Moneywise
<1>8. Due(due)'
  <2>1. ASSUME NEW id \in DOMAIN uuid PROVE DueAtRest(due, id)'
    BY <1>3, <1>7 DEF Due, DueAtRest, DueOf
  <2>2. ASSUME NEW d \in Calls PROVE DueInCall(due, d)'
    <3>1. DueInCall(due, d)
      BY <1>7 DEF Due
    <3> QED BY <1>2, <1>4, <1>5, <3>1, InCallStays DEF Locking
  <2>3. ASSUME NEW id \in DOMAIN uuid PROVE DueAfter(due, c, id)'
    <3>1. DueAfter(due, c, id) /\ uuid[id] \in Calls
      BY <1>1, <1>7 DEF Due
    <3>2. Dropping(c, uuid[id])' => Dropping(c, uuid[id])
      BY <1>3, <3>1
    <3>3. DueOf(due, id)' <=> DueOf(due, id)
      BY <1>3 DEF DueOf
    <3> QED BY <1>2, <1>3, <3>1, <3>2, <3>3 DEF DueAfter
  <2>4. \A d \in Calls : create'[d].pc \in After => d = c
    BY <1>4 DEF Locking
  <2> QED BY <1>1, <1>3, <2>1, <2>2, <2>3, <2>4 DEF Due
<1>9. Covered(due)'
  <2>1. \A d \in Calls : SameAsk(d)
    BY <1>2 DEF SameAsk, After, Applying
  <2> QED BY <1>7, <2>1, CoveredStays
<1> QED BY <1>6, <1>8, <1>9 DEF Moneywise

\* The fills and the dropped orders say what they said.
LEMMA DealStays ==
  ASSUME Inv, NEW c \in Calls, create'[c].fills = create[c].fills, \A d \in Calls : create'[d].req = create[d].req,
         FillsDeal(c)
  PROVE  FillsDeal(c)'
<1>1. FillsOf(c)' = FillsOf(c)
  BY DEF FillsOf
<1>2. \A f \in FillsOf(c) : f.maker \in Calls
  BY DEF Inv, CallsSound, CallSound, FairFill, Fills
<1> QED BY <1>1, <1>2 DEF FillsDeal, Req

LEMMA DropsStay ==
  ASSUME NEW c \in Calls, create'[c].fills = create[c].fills, \A d \in Calls : create'[d].req = create[d].req,
         UNCHANGED <<resting, taker, uuid>>, DropsKnown(c),
         \A d \in Calls : Dropping(c, d)' => Dropping(c, d),
         \A i, j \in DOMAIN create'[c].dropped : i # j => create'[c].dropped[i] # create'[c].dropped[j]
  PROVE  DropsKnown(c)'
<1>1. FillsOf(c)' = FillsOf(c) /\ \A d \in Calls : Gone(d)' <=> Gone(d)
  BY DEF FillsOf, Gone
<1>2. ASSUME NEW d \in Calls, Dropping(c, d)'
      PROVE  d # c /\ Req(d)'.type = "limit" /\ Gone(d)' /\ \A f \in FillsOf(c)' : f.maker # d
  <2>1. d # c /\ Req(d).type = "limit" /\ Gone(d) /\ \A f \in FillsOf(c) : f.maker # d
    BY <1>2 DEF DropsKnown
  <2> QED BY <1>1, <2>1 DEF Req
<1> QED BY <1>2 DEF DropsKnown

\* A call goes on, and its record with it.
LEMMA GotoRecord ==
  ASSUME Inv, NEW c \in Calls, NEW q \in CreatePcs, Goto(c, q)
  PROVE  /\ \A d \in Calls : create'[d].req = create[d].req /\ (d # c => create'[d] = create[d])
         /\ \E k \in CallRecs :
              /\ create' = [create EXCEPT ![c] = k] /\ create'[c] = k
              /\ k.pc = q /\ k.req = create[c].req /\ k.fills = create[c].fills
              /\ k.settled = create[c].settled /\ k.makers = create[c].makers
              /\ k.dropped = create[c].dropped /\ k.rested = create[c].rested
              /\ k.target = create[c].target /\ k.copy = create[c].copy
<1>1. create \in [Calls -> CallRecs] /\ create[c] \in CallRecs
  BY DEF Inv, ServiceTypes
<1>2. PICK k : k = [create[c] EXCEPT !.pc = q]
  OBVIOUS
<1>3. /\ k \in CallRecs /\ k.pc = q /\ k.req = create[c].req /\ k.fills = create[c].fills
      /\ k.settled = create[c].settled /\ k.makers = create[c].makers
      /\ k.dropped = create[c].dropped /\ k.rested = create[c].rested
      /\ k.target = create[c].target /\ k.copy = create[c].copy
  BY <1>1, <1>2 DEF CallRecs
<1>4. create' = [create EXCEPT ![c] = k]
  BY <1>1, <1>2 DEF Goto
<1>5. create'[c] = k /\ \A d \in Calls : d # c => create'[d] = create[d]
  BY <1>1, <1>4
<1> QED BY <1>3, <1>4, <1>5

LEMMA SaveTradesKeeps ==
  ASSUME Inv, Inv', Rowwise, Moneywise, NEW c \in Calls, SaveTrades(c)
  PROVE  Rowwise' /\ Moneywise'
<1>1. /\ create[c].pc = "save" /\ Goto(c, "apply")
      /\ UNCHANGED <<book, uuid, rows, wallets, cancel, boot, crashes>>
  BY DEF SaveTrades
<1>2. /\ create[c].pc \in After /\ "apply" \in CreatePcs /\ "apply" \in After
  BY <1>1 DEF After, Applying, CreatePcs
<1>3. PICK k \in CallRecs :
        /\ create' = [create EXCEPT ![c] = k] /\ create'[c] = k
        /\ k.pc = "apply" /\ k.req = create[c].req /\ k.fills = create[c].fills
        /\ k.settled = create[c].settled /\ k.makers = create[c].makers
        /\ k.dropped = create[c].dropped /\ k.rested = create[c].rested
  BY <1>1, <1>2, GotoRecord
<1>4. \A d \in Calls : create'[d].req = create[d].req
  BY <1>1, <1>2, GotoRecord
<1>5. Telling(c) /\ CallSound(c)
  BY <1>2, TellingAlone
<1>6. UNCHANGED <<orders, resting, taker, uuid, rows>>
  BY <1>1 DEF book
<1>7. \A d \in Calls : Dropping(c, d)' <=> Dropping(c, d)
  BY <1>1, <1>3 DEF Dropping, At
<1>8. Telling(c)'
  <2>1. ASSUME NEW id \in DOMAIN uuid PROVE Tells(c, id)'
    <3>1. Tells(c, id)
      BY <1>5 DEF Telling
    <3> QED BY <1>1, <1>3, <1>6, <3>1
            DEF Tells, TellsOwn, TellsMaker, TellsOther, At, Awaits, Counts, Shows, ShowsAs, Rests
  <2>2. FillsDeal(c)' /\ DropsKnown(c)'
    <3>1. \A i, j \in DOMAIN k.dropped : i # j => k.dropped[i] # k.dropped[j]
      BY <1>3, <1>5 DEF Telling, DropsKnown
    <3> QED BY <1>3, <1>4, <1>5, <1>6, <1>7, <3>1, DealStays, DropsStay DEF Telling
  <2>3. AtTarget(c)'
    BY <1>1, <1>3, <1>5 DEF Telling, AtTarget, Applying
  <2> QED BY <1>6, <2>1, <2>2, <2>3 DEF Telling
<1>9. Rowwise'
  BY <1>1, <1>2, <1>3, <1>6, <1>8, AfterRows
<1>10. Moneywise'
  <2>1. k.pc \in After \ {"settle"}
    BY <1>2, <1>3
  <2> QED BY <1>1, <1>2, <1>3, <1>7, <2>1, AfterMoney
<1> QED BY <1>9, <1>10

LEMMA ReadMakerKeeps ==
  ASSUME Inv, Inv', Rowwise, Moneywise, NEW c \in Calls, ReadMaker(c)
  PROVE  Rowwise' /\ Moneywise'
<1>1. PICK f \in create[c].makers :
        /\ create[c].pc = "apply"
        /\ create' = [create EXCEPT ![c].pc = "writeMaker", ![c].makers = @ \ {f},
                                    ![c].target = f.maker,
                                    ![c].copy = [rows[f.maker] EXCEPT !.filled = @ + f.qty]]
        /\ UNCHANGED <<book, uuid, rows, trades, wallets, cancel, boot, crashes>>
  BY DEF ReadMaker
<1>2. create[c].pc \in After
  BY <1>1 DEF After, Applying
<1>3. /\ Telling(c) /\ CallSound(c) /\ create[c] \in CallRecs /\ create \in [Calls -> CallRecs]
      /\ \A id \in DOMAIN uuid : uuid[id] \in Calls
  BY <1>2, TellingAlone DEF Inv, ServiceTypes
<1>4. f \in FillsOf(c) /\ f \in Fills /\ f.maker \in Calls /\ f.qty \in Nat /\ Known(f.maker)
  BY <1>1, <1>3 DEF CallSound, FairFill, Fills
<1>5. PICK r \in Rows : r = rows[f.maker]
  BY <1>4, PlacedRow
<1>6. PICK copy : copy = [r EXCEPT !.filled = @ + f.qty]
  OBVIOUS
<1>7. copy.filled = rows[f.maker].filled + f.qty
  BY <1>5, <1>6 DEF Rows
<1>8. PICK k : k = [create[c] EXCEPT !.pc = "writeMaker", !.makers = @ \ {f}, !.target = f.maker, !.copy = copy]
  OBVIOUS
<1>9. /\ k.pc = "writeMaker" /\ k.makers = create[c].makers \ {f} /\ k.target = f.maker /\ k.copy = copy
      /\ k.req = create[c].req /\ k.fills = create[c].fills /\ k.settled = create[c].settled
      /\ k.dropped = create[c].dropped /\ k.rested = create[c].rested
  BY <1>3, <1>8 DEF CallRecs
<1>10. create' = [create EXCEPT ![c] = k]
  BY <1>1, <1>3, <1>5, <1>6, <1>8
<1>11. create'[c] = k /\ \A d \in Calls : create'[d].req = create[d].req
  BY <1>3, <1>9, <1>10
<1>12. UNCHANGED <<orders, resting, taker, uuid, rows>>
  BY <1>1 DEF book
<1>13. \A d \in Calls : Dropping(c, d)' <=> Dropping(c, d)
  BY <1>1, <1>9, <1>11 DEF Dropping, At
<1>14. f.maker # c /\ Req(f.maker).type = "limit" /\ \A g \in FillsOf(c) : g.maker = f.maker => g = f
  BY <1>3, <1>4 DEF Telling, FillsDeal, Deal
<1>15. Telling(c)'
  <2>1. ASSUME NEW id \in DOMAIN uuid PROVE Tells(c, id)'
    <3>1. Tells(c, id)
      BY <1>3 DEF Telling
    <3>2. CASE uuid[id] = c
      BY <1>9, <1>11, <1>12, <3>1, <3>2 DEF Tells, TellsOwn
    <3>3. CASE uuid[id] # c
      <4>1. TellsMaker(c, id) /\ TellsOther(c, id)
        BY <3>1, <3>3 DEF Tells
      <4>2. TellsMaker(c, id)'
        <5>1. uuid[id] = f.maker => orders[id].filled = copy.filled /\ Rests(id)
          BY <1>1, <1>7, <4>1 DEF TellsMaker
        <5> QED BY <1>9, <1>11, <1>12, <4>1, <5>1 DEF TellsMaker, At, Rests
      <4>3. TellsOther(c, id)'
        <5>1. ~ Awaits(c, uuid[id])' /\ ~ At(c, {"writeMaker"}, uuid[id])' => ~ Awaits(c, uuid[id])
          BY <1>9, <1>11, <1>12 DEF Awaits, At
        <5>2. ~ At(c, {"writeMaker"}, uuid[id]) /\ ~ At(c, {"writeDropped"}, uuid[id])
          BY <1>1 DEF At
        <5>3. (Counts(id)' <=> Counts(id)) /\ (Shows(id)' <=> Shows(id))
          BY <1>12 DEF Counts, Shows, ShowsAs
        <5> QED BY <1>9, <1>11, <1>12, <4>1, <5>1, <5>2, <5>3 DEF TellsOther
      <4> QED BY <1>12, <3>3, <4>2, <4>3 DEF Tells
    <3> QED BY <3>2, <3>3
  <2>2. FillsDeal(c)' /\ DropsKnown(c)'
    <3>1. \A i, j \in DOMAIN k.dropped : i # j => k.dropped[i] # k.dropped[j]
      BY <1>3, <1>9 DEF Telling, DropsKnown
    <3> QED BY <1>3, <1>9, <1>11, <1>12, <1>13, <3>1, DealStays, DropsStay DEF Telling
  <2>3. AtTarget(c)'
    <3>1. create[c].settled = Len(create[c].fills)
      BY <1>1, <1>3 DEF Telling, AtTarget, Applying
    <3>2. \A g \in k.makers : g.maker # f.maker
      BY <1>3, <1>9, <1>14 DEF CallSound
    <3>3. Req(f.maker)'.type = "limit"
      BY <1>4, <1>11, <1>14 DEF Req
    <3> QED BY <1>9, <1>11, <1>14, <3>1, <3>2, <3>3 DEF AtTarget, Req
  <2> QED BY <1>12, <2>1, <2>2, <2>3 DEF Telling
<1>16. k.pc \in After \ {"settle"}
  BY <1>9 DEF After, Applying
<1>17. Rowwise'
  BY <1>1, <1>2, <1>9, <1>10, <1>12, <1>15, <1>16, AfterRows
<1>18. Moneywise'
  BY <1>1, <1>2, <1>9, <1>10, <1>13, <1>16, AfterMoney
<1> QED BY <1>17, <1>18

LEMMA WriteMakerKeeps ==
  ASSUME Inv, Inv', Rowwise, Moneywise, NEW c \in Calls, WriteMaker(c)
  PROVE  Rowwise' /\ Moneywise'
<1>1. PICK m, filled : m = create[c].target /\ filled = create[c].copy.filled
  OBVIOUS
<1>2. PICK r : r = [status |-> DeriveStatus(filled, Req(m).qty, TRUE), filled |-> filled]
  OBVIOUS
<1>3. /\ create[c].pc = "writeMaker" /\ Goto(c, "apply") /\ rows' = [rows EXCEPT ![m] = r]
      /\ UNCHANGED <<book, uuid, trades, wallets, cancel, boot, crashes>>
  BY <1>1, <1>2 DEF WriteMaker
<1>4. create[c].pc \in After /\ "apply" \in CreatePcs /\ "apply" \in After \ {"settle"}
  BY <1>3 DEF After, Applying, CreatePcs
<1>5. PICK k \in CallRecs :
        /\ create' = [create EXCEPT ![c] = k] /\ create'[c] = k
        /\ k.pc = "apply" /\ k.req = create[c].req /\ k.fills = create[c].fills
        /\ k.settled = create[c].settled /\ k.makers = create[c].makers
        /\ k.dropped = create[c].dropped /\ k.rested = create[c].rested
  BY <1>3, <1>4, GotoRecord
<1>6. \A d \in Calls : create'[d].req = create[d].req
  BY <1>3, <1>4, GotoRecord
<1>7. /\ Telling(c) /\ CallSound(c) /\ \A id \in DOMAIN uuid : uuid[id] \in Calls
  BY <1>4, TellingAlone
<1>8. UNCHANGED <<orders, resting, taker, uuid>>
  BY <1>3 DEF book
<1>9. m \in Calls /\ Known(m) /\ m # c /\ Req(m).type = "limit" /\ \A f \in create[c].makers : f.maker # m
  BY <1>1, <1>3, <1>7 DEF CallSound, Telling, AtTarget
<1>10. rows'[m] = r /\ \A d \in Calls : d # m => rows'[d] = rows[d]
  BY <1>3, <1>9 DEF Inv, ServiceTypes
<1>11. r.filled = filled /\ r.status = DeriveStatus(filled, Req(m).qty, TRUE)
  BY <1>2
<1>12. \A d \in Calls : Dropping(c, d)' <=> Dropping(c, d)
  BY <1>3, <1>5 DEF Dropping, At
<1>13. Telling(c)'
  <2>1. ASSUME NEW id \in DOMAIN uuid PROVE Tells(c, id)'
    <3>1. Tells(c, id) /\ uuid[id] \in Calls
      BY <1>7 DEF Telling
    <3>2. CASE uuid[id] = c
      BY <1>5, <1>8, <3>1, <3>2 DEF Tells, TellsOwn
    <3>3. CASE uuid[id] = m
      <4>1. orders[id].filled = filled /\ Rests(id)
        BY <1>1, <1>3, <1>9, <3>1, <3>3 DEF Tells, TellsMaker, At
      <4>2. TellsMaker(c, id)'
        BY <1>5, <1>8, <1>9, <3>3 DEF TellsMaker, At
      <4>3. Counts(id)'
        BY <1>8, <1>10, <1>11, <3>3, <4>1 DEF Counts
      <4>4. Shows(id)'
        <5>1. /\ orders[id].qty = Req(m).qty /\ orders[id].type = "limit" /\ filled \in Nat
              /\ Req(m).qty \in Nat /\ Remaining(orders[id]) = Req(m).qty - filled
          BY <1>9, <3>3, <4>1, LeftByRow
        <5>2. filled < Req(m).qty => id \in resting
          BY <4>1, <5>1 DEF Rests
        <5>3. r.status \in OpenStatuses => filled < Req(m).qty
          BY <1>11, <5>1 DEF DeriveStatus, OpenStatuses
        <5>4. ShowsAs(r.status, id)
          BY <5>1, <5>2, <5>3 DEF ShowsAs, OpenStatuses
        <5> QED BY <1>8, <1>10, <3>3, <5>4 DEF Shows, ShowsAs
      <4> QED BY <1>8, <1>9, <3>3, <4>2, <4>3, <4>4 DEF Tells, TellsOther
    <3>4. CASE uuid[id] # c /\ uuid[id] # m
      <4>1. TellsMaker(c, id) /\ TellsOther(c, id)
        BY <3>1, <3>4 DEF Tells
      <4>2. rows'[uuid[id]] = rows[uuid[id]]
        BY <1>10, <3>1, <3>4
      <4>3. TellsMaker(c, id)'
        BY <1>5, <1>8, <4>1, <4>2 DEF TellsMaker, At, Rests
      <4>4. TellsOther(c, id)'
        <5>1. Awaits(c, uuid[id])' <=> Awaits(c, uuid[id])
          BY <1>5, <1>8 DEF Awaits
        <5>2. ~ At(c, {"writeMaker"}, uuid[id]) /\ ~ At(c, {"writeDropped"}, uuid[id])
          BY <1>1, <1>3, <3>4 DEF At
        <5>3. (Counts(id)' <=> Counts(id)) /\ (Shows(id)' <=> Shows(id))
          BY <1>8, <4>2 DEF Counts, Shows, ShowsAs
        <5> QED BY <1>5, <1>8, <4>1, <5>1, <5>2, <5>3 DEF TellsOther
      <4> QED BY <1>8, <3>4, <4>3, <4>4 DEF Tells
    <3> QED BY <3>2, <3>3, <3>4
  <2>2. FillsDeal(c)' /\ DropsKnown(c)'
    <3>1. \A i, j \in DOMAIN k.dropped : i # j => k.dropped[i] # k.dropped[j]
      BY <1>5, <1>7 DEF Telling, DropsKnown
    <3> QED BY <1>5, <1>6, <1>7, <1>8, <1>12, <3>1, DealStays, DropsStay DEF Telling
  <2>3. AtTarget(c)'
    <3>1. create[c].settled = Len(create[c].fills)
      BY <1>3, <1>7 DEF Telling, AtTarget, Applying
    <3> QED BY <1>5, <3>1 DEF AtTarget, Applying
  <2> QED BY <1>8, <2>1, <2>2, <2>3 DEF Telling
<1>14. Rowwise'
  <2>1. rows[m] # NoRow
    BY <1>9, PlacedRow, RowFields DEF Rows, NoRow, Statuses
  <2>2. \A d \in Calls : rows'[d] # NoRow => rows[d] # NoRow
    BY <1>10, <2>1
  <2>3. k.pc \in After
    BY <1>4, <1>5
  <2> QED BY <1>3, <1>4, <1>5, <1>13, <2>2, <2>3, AfterRows
<1>15. Moneywise'
  <2>1. k.pc \in After \ {"settle"}
    BY <1>4, <1>5
  <2> QED BY <1>3, <1>4, <1>5, <1>12, <2>1, AfterMoney
<1> QED BY <1>14, <1>15

LEMMA ReadDroppedKeeps ==
  ASSUME Inv, Inv', Rowwise, Moneywise, NEW c \in Calls, ReadDropped(c)
  PROVE  Rowwise' /\ Moneywise'
<1>1. PICK q, m, t : q = create[c].dropped /\ m = Head(q) /\ t = Tail(q)
  OBVIOUS
<1>2. /\ create[c].pc = "apply" /\ create[c].makers = {} /\ q # <<>>
      /\ create' = [create EXCEPT ![c].pc = "writeDropped", ![c].dropped = Tail(@),
                                  ![c].target = m, ![c].copy = rows[m]]
      /\ UNCHANGED <<book, uuid, rows, trades, wallets, cancel, boot, crashes>>
  BY <1>1 DEF ReadDropped
<1>3. create[c].pc \in After
  BY <1>2 DEF After, Applying
<1>4. /\ Telling(c) /\ CallSound(c) /\ create[c] \in CallRecs /\ create \in [Calls -> CallRecs]
      /\ \A id \in DOMAIN uuid : uuid[id] \in Calls
  BY <1>3, TellingAlone DEF Inv, ServiceTypes
<1>5. PICK k : k = [create[c] EXCEPT !.pc = "writeDropped", !.dropped = t, !.target = m, !.copy = rows[m]]
  OBVIOUS
<1>6. /\ k.pc = "writeDropped" /\ k.dropped = t /\ k.target = m /\ k.copy = rows[m]
      /\ k.req = create[c].req /\ k.fills = create[c].fills /\ k.settled = create[c].settled
      /\ k.makers = {} /\ k.rested = create[c].rested
  BY <1>2, <1>4, <1>5 DEF CallRecs
<1>7. create' = [create EXCEPT ![c] = k]
  BY <1>1, <1>2, <1>4, <1>5
<1>8. create'[c] = k /\ \A d \in Calls : create'[d].req = create[d].req
  BY <1>4, <1>6, <1>7
<1>9. UNCHANGED <<orders, resting, taker, uuid, rows>>
  BY <1>2 DEF book
<1>10. PICK l \in Nat : /\ DOMAIN q = 1..(l + 1) /\ DOMAIN t = 1..l /\ m = q[1]
                        /\ \A i \in 1..l : t[i] = q[i + 1]
  <2>1. q \in Seq(Calls)
    BY <1>1, <1>4 DEF CallRecs
  <2>2. PICK n \in Nat : n = Len(q) /\ DOMAIN q = 1..n /\ n # 0
    BY <1>2, <2>1, LenProperties, EmptySeq
  <2>3. n - 1 \in Nat /\ (n - 1) + 1 = n
    BY <2>2
  <2>4. t \in Seq(Calls) /\ Len(t) = n - 1 /\ \A i \in 1..(n - 1) : t[i] = q[i + 1]
    BY <1>1, <1>2, <2>1, <2>2, HeadTailProperties
  <2>5. DOMAIN t = 1..(n - 1) /\ m = q[1]
    BY <1>1, <2>4, LenProperties
  <2> QED BY <2>2, <2>3, <2>4, <2>5
<1>11. \A i \in 1..l : i + 1 \in 1..(l + 1) /\ i + 1 # 1
  BY <1>10
<1>12. \A d : d \in Range(q) <=> d = m \/ d \in Range(t)
  <2> TAKE d
  <2>1. ASSUME d \in Range(q) PROVE d = m \/ d \in Range(t)
    <3>1. PICK i \in 1..(l + 1) : d = q[i]
      BY <1>10, <2>1 DEF Range
    <3>2. CASE i = 1
      BY <1>10, <3>1, <3>2
    <3>3. CASE i # 1
      <4>1. i - 1 \in 1..l /\ (i - 1) + 1 = i
        BY <1>10, <3>1, <3>3
      <4>2. t[i - 1] = d
        BY <1>10, <3>1, <4>1
      <4> QED BY <1>10, <4>1, <4>2 DEF Range
    <3> QED BY <3>2, <3>3
  <2>2. ASSUME d = m \/ d \in Range(t) PROVE d \in Range(q)
    <3>1. 1 \in 1..(l + 1)
      BY <1>10
    <3>2. d \in Range(t) => \E i \in 1..l : d = q[i + 1]
      BY <1>10 DEF Range
    <3> QED BY <1>10, <1>11, <2>2, <3>1, <3>2 DEF Range
  <2> QED BY <2>1, <2>2
<1>13. \A i, j \in DOMAIN q : i # j => q[i] # q[j]
  BY <1>1, <1>4 DEF Telling, DropsKnown
<1>14. /\ \A i, j \in DOMAIN t : i # j => t[i] # t[j]
       /\ m \notin Range(t)
  <2>1. ASSUME NEW i \in 1..l, NEW j \in 1..l, i # j PROVE t[i] # t[j]
    <3>1. i + 1 # j + 1
      BY <2>1
    <3> QED BY <1>10, <1>11, <1>13, <3>1
  <2>2. \A i \in 1..l : t[i] # m
    <3>1. 1 \in 1..(l + 1)
      BY <1>10
    <3> QED BY <1>10, <1>11, <1>13, <3>1
  <2> QED BY <1>10, <2>1, <2>2 DEF Range
<1>15. \A d \in Calls : Dropping(c, d)' <=> Dropping(c, d)
  <2> TAKE d \in Calls
  <2>1. Dropping(c, d)' <=> d \in Range(t) \/ d = m
    BY <1>6, <1>8 DEF Dropping, At
  <2>2. Dropping(c, d) <=> d \in Range(q)
    BY <1>1, <1>2 DEF Dropping, At
  <2> QED BY <1>12, <2>1, <2>2
<1>16. Telling(c)'
  <2>1. ASSUME NEW id \in DOMAIN uuid PROVE Tells(c, id)'
    <3>1. Tells(c, id)
      BY <1>4 DEF Telling
    <3>2. CASE uuid[id] = c
      BY <1>6, <1>8, <1>9, <3>1, <3>2 DEF Tells, TellsOwn
    <3>3. CASE uuid[id] # c
      <4>1. TellsOther(c, id)
        BY <3>1, <3>3 DEF Tells
      <4>2. TellsMaker(c, id)'
        BY <1>6, <1>8, <1>9 DEF TellsMaker, At
      <4>3. TellsOther(c, id)'
        <5>1. ~ Awaits(c, uuid[id]) /\ ~ At(c, {"writeMaker"}, uuid[id]) /\ ~ At(c, {"writeDropped"}, uuid[id])
          BY <1>2 DEF Awaits, At
        <5>2. Counts(id) /\ (uuid[id] \in Range(q) \/ Shows(id))
          BY <1>1, <4>1, <5>1 DEF TellsOther
        <5>3. uuid[id] \in Range(q) => uuid[id] \in Range(t) \/ At(c, {"writeDropped"}, uuid[id])'
          BY <1>6, <1>8, <1>9, <1>12 DEF At
        <5>4. Counts(id)' /\ (Shows(id)' <=> Shows(id))
          BY <1>9, <5>2 DEF Counts, Shows, ShowsAs
        <5> QED BY <1>6, <1>8, <1>9, <5>2, <5>3, <5>4 DEF TellsOther
      <4> QED BY <1>9, <3>3, <4>2, <4>3 DEF Tells
    <3> QED BY <3>2, <3>3
  <2>2. FillsDeal(c)' /\ DropsKnown(c)'
    BY <1>4, <1>6, <1>8, <1>9, <1>14, <1>15, DealStays, DropsStay DEF Telling
  <2>3. AtTarget(c)'
    <3>1. create[c].settled = Len(create[c].fills)
      BY <1>2, <1>4 DEF Telling, AtTarget, Applying
    <3> QED BY <1>6, <1>8, <1>9, <1>14, <3>1 DEF AtTarget
  <2> QED BY <1>9, <2>1, <2>2, <2>3 DEF Telling
<1>17. k.pc \in After \ {"settle"}
  BY <1>6 DEF After, Applying
<1>18. Rowwise'
  BY <1>2, <1>3, <1>6, <1>7, <1>9, <1>16, <1>17, AfterRows
<1>19. Moneywise'
  BY <1>2, <1>3, <1>6, <1>7, <1>15, <1>17, AfterMoney
<1> QED BY <1>18, <1>19

LEMMA WriteDroppedKeeps ==
  ASSUME Inv, Inv', Rowwise, Moneywise, NEW c \in Calls, WriteDropped(c)
  PROVE  Rowwise' /\ Moneywise'
<1>1. PICK m, r : m = create[c].target /\ r = [create[c].copy EXCEPT !.status = "cancelled"]
  OBVIOUS
<1>2. /\ create[c].pc = "writeDropped" /\ Goto(c, "unlockDropped") /\ rows' = [rows EXCEPT ![m] = r]
      /\ UNCHANGED <<book, uuid, trades, wallets, cancel, boot, crashes>>
  BY <1>1 DEF WriteDropped
<1>3. create[c].pc \in After /\ "unlockDropped" \in CreatePcs /\ "unlockDropped" \in After \ {"settle"}
  BY <1>2 DEF After, Applying, CreatePcs
<1>4. PICK k \in CallRecs :
        /\ create' = [create EXCEPT ![c] = k] /\ create'[c] = k
        /\ k.pc = "unlockDropped" /\ k.req = create[c].req /\ k.fills = create[c].fills
        /\ k.settled = create[c].settled /\ k.makers = create[c].makers
        /\ k.dropped = create[c].dropped /\ k.rested = create[c].rested
        /\ k.target = create[c].target /\ k.copy = create[c].copy
  BY <1>2, <1>3, GotoRecord
<1>5. \A d \in Calls : create'[d].req = create[d].req
  BY <1>2, <1>3, GotoRecord
<1>6. /\ Telling(c) /\ CallSound(c) /\ create[c] \in CallRecs /\ \A id \in DOMAIN uuid : uuid[id] \in Calls
  BY <1>3, TellingAlone
<1>7. UNCHANGED <<orders, resting, taker, uuid>>
  BY <1>2 DEF book
<1>8. m \in Calls /\ Known(m) /\ Dropping(c, m)
  BY <1>1, <1>2, <1>6 DEF CallSound, Dropping, At
<1>9. m # c /\ \A f \in create[c].makers : f.maker # m
  BY <1>6, <1>8 DEF Telling, DropsKnown, CallSound
<1>10. rows'[m] = r /\ \A d \in Calls : d # m => rows'[d] = rows[d]
  BY <1>2, <1>8 DEF Inv, ServiceTypes
<1>11. r.status = "cancelled" /\ r.filled = create[c].copy.filled /\ r.filled = rows[m].filled
  <2>1. create[c].copy \in Rows \cup {NoRow}
    BY <1>6 DEF CallRecs
  <2>2. create[c].copy.filled = rows[m].filled
    BY <1>1, <1>2, <1>6 DEF Telling, AtTarget
  <2> QED BY <1>1, <2>1, <2>2 DEF Rows, NoRow
<1>12. \A d \in Calls : Dropping(c, d)' <=> Dropping(c, d)
  BY <1>2, <1>4 DEF Dropping, At
<1>13. Telling(c)'
  <2>1. ASSUME NEW id \in DOMAIN uuid PROVE Tells(c, id)'
    <3>1. Tells(c, id) /\ uuid[id] \in Calls
      BY <1>6 DEF Telling
    <3>2. CASE uuid[id] = c
      BY <1>4, <1>7, <3>1, <3>2 DEF Tells, TellsOwn
    <3>3. CASE uuid[id] # c
      <4>1. TellsMaker(c, id) /\ TellsOther(c, id)
        BY <3>1, <3>3 DEF Tells
      <4>2. rows'[uuid[id]].filled = rows[uuid[id]].filled
        BY <1>10, <1>11, <3>1
      <4>3. TellsMaker(c, id)'
        BY <1>4, <1>7, <4>1, <4>2 DEF TellsMaker, At, Rests
      <4>4. TellsOther(c, id)'
        <5>1. Awaits(c, uuid[id])' <=> Awaits(c, uuid[id])
          BY <1>4, <1>7 DEF Awaits
        <5>2. ~ At(c, {"writeMaker"}, uuid[id])
          BY <1>2 DEF At
        <5>3. Counts(id)' <=> Counts(id)
          BY <1>7, <4>2 DEF Counts
        <5>4. CASE uuid[id] = m
          <6>1. Shows(id)'
            BY <1>7, <1>10, <1>11, <5>4 DEF Shows, ShowsAs
          <6> QED BY <1>4, <1>7, <4>1, <5>1, <5>2, <5>3, <6>1 DEF TellsOther
        <5>5. CASE uuid[id] # m
          <6>1. ~ At(c, {"writeDropped"}, uuid[id])
            BY <1>1, <5>5 DEF At
          <6>2. Shows(id)' <=> Shows(id)
            BY <1>7, <1>10, <3>1, <5>5 DEF Shows, ShowsAs
          <6> QED BY <1>4, <1>7, <4>1, <5>1, <5>2, <5>3, <6>1, <6>2 DEF TellsOther
        <5> QED BY <5>4, <5>5
      <4> QED BY <1>7, <3>3, <4>3, <4>4 DEF Tells
    <3> QED BY <3>2, <3>3
  <2>2. FillsDeal(c)' /\ DropsKnown(c)'
    <3>1. \A i, j \in DOMAIN k.dropped : i # j => k.dropped[i] # k.dropped[j]
      BY <1>4, <1>6 DEF Telling, DropsKnown
    <3> QED BY <1>4, <1>5, <1>6, <1>7, <1>12, <3>1, DealStays, DropsStay DEF Telling
  <2>3. AtTarget(c)'
    <3>1. create[c].settled = Len(create[c].fills) /\ m \notin Range(create[c].dropped)
      BY <1>1, <1>2, <1>6 DEF Telling, AtTarget, Applying
    <3>2. /\ create'[c].pc = "unlockDropped" /\ create'[c].target = m /\ create'[c].copy = create[c].copy
          /\ create'[c].dropped = create[c].dropped /\ create'[c].settled = Len(create'[c].fills)
          /\ rows'[m].filled = create[c].copy.filled
      BY <1>1, <1>4, <1>10, <1>11, <3>1
    <3> QED BY <3>1, <3>2 DEF AtTarget
  <2> QED BY <1>7, <2>1, <2>2, <2>3 DEF Telling
<1>14. Rowwise'
  <2>1. rows[m] # NoRow
    BY <1>8, PlacedRow, RowFields DEF Rows, NoRow, Statuses
  <2>2. \A d \in Calls : rows'[d] # NoRow => rows[d] # NoRow
    BY <1>10, <2>1
  <2>3. k.pc \in After
    BY <1>3, <1>4
  <2> QED BY <1>2, <1>3, <1>4, <1>13, <2>2, <2>3, AfterRows
<1>15. Moneywise'
  <2>1. k.pc \in After \ {"settle"}
    BY <1>3, <1>4
  <2> QED BY <1>2, <1>3, <1>4, <1>12, <2>1, AfterMoney
<1> QED BY <1>14, <1>15

LEMMA UnlockDroppedKeeps ==
  ASSUME Inv, Inv', Rowwise, Moneywise, NEW c \in Calls, UnlockDropped(c)
  PROVE  Rowwise' /\ Moneywise'
<1>1. PICK m : m = create[c].target
  OBVIOUS
<1>2. /\ create[c].pc = "unlockDropped" /\ Goto(c, "apply")
      /\ Unlock(Req(m).user, Spends(Req(m)), LockOf(m, create[c].copy.filled))
      /\ UNCHANGED <<book, uuid, rows, trades, cancel, boot, crashes>>
  BY <1>1 DEF UnlockDropped
<1>3. create[c].pc \in After /\ "apply" \in CreatePcs /\ "apply" \in After
  BY <1>2 DEF After, Applying, CreatePcs
<1>4. PICK k \in CallRecs :
        /\ create' = [create EXCEPT ![c] = k] /\ create'[c] = k
        /\ k.pc = "apply" /\ k.req = create[c].req /\ k.fills = create[c].fills
        /\ k.settled = create[c].settled /\ k.makers = create[c].makers
        /\ k.dropped = create[c].dropped /\ k.rested = create[c].rested
  BY <1>2, <1>3, GotoRecord
<1>5. \A d \in Calls : create'[d].req = create[d].req /\ (d # c => create'[d] = create[d])
  BY <1>2, <1>3, GotoRecord
<1>6. /\ Telling(c) /\ CallSound(c) /\ CallAlone(c) /\ taker = NoOrder
      /\ \A i, j \in DOMAIN uuid : uuid[i] = uuid[j] => i = j
      /\ \A id \in DOMAIN uuid : uuid[id] \in Calls
  BY <1>3, TellingAlone
<1>7. UNCHANGED <<orders, resting, taker, uuid, rows, cancel>>
  BY <1>2 DEF book
<1>8. m \in Calls /\ Dropping(c, m)
  BY <1>1, <1>2, <1>6 DEF CallSound, Dropping, At
<1>9. /\ m # c /\ Req(m).type = "limit" /\ Gone(m) /\ \A f \in FillsOf(c) : f.maker # m
      /\ \A f \in create[c].makers : f.maker # m
  BY <1>6, <1>8 DEF Telling, DropsKnown, CallSound
<1>10. /\ create[c].copy.filled = rows[m].filled /\ m \notin Range(create[c].dropped)
       /\ create[c].settled = Len(create[c].fills)
  BY <1>1, <1>2, <1>6 DEF Telling, AtTarget, Applying
<1>11. \A d \in Calls : Dropping(c, d)' => Dropping(c, d) /\ d # m
  BY <1>4, <1>10 DEF Dropping, At
<1>12. Telling(c)'
  <2>1. ASSUME NEW id \in DOMAIN uuid PROVE Tells(c, id)'
    <3>1. Tells(c, id)
      BY <1>6 DEF Telling
    <3> QED BY <1>2, <1>4, <1>7, <3>1
            DEF Tells, TellsOwn, TellsMaker, TellsOther, At, Awaits, Counts, Shows, ShowsAs, Rests
  <2>2. FillsDeal(c)' /\ DropsKnown(c)'
    <3>1. \A i, j \in DOMAIN k.dropped : i # j => k.dropped[i] # k.dropped[j]
      BY <1>4, <1>6 DEF Telling, DropsKnown
    <3> QED BY <1>4, <1>5, <1>6, <1>7, <1>11, <3>1, DealStays, DropsStay DEF Telling
  <2>3. AtTarget(c)'
    BY <1>4, <1>10 DEF AtTarget
  <2> QED BY <1>7, <2>1, <2>2, <2>3 DEF Telling
<1>13. Rowwise'
  <2>1. k.pc \in After
    BY <1>3, <1>4
  <2> QED BY <1>2, <1>3, <1>4, <1>7, <1>12, <2>1, AfterRows
<1>14. \A d \in Calls : d # c => create'[d].pc \in Ended /\ create'[d].pc \notin Selling \cup Locking
  BY <1>5, <1>6, OthersEnded
<1>15. SellersFunded'
  <2>1. ASSUME NEW d \in Calls PROVE create'[d].pc \notin Selling
    BY <1>4, <1>14 DEF Selling
  <2> QED BY <2>1 DEF SellersFunded, SellerFunded, Selling
<1>16. PICK due \in [Calls -> Nat] : Due(due) /\ Covered(due)
  BY DEF Moneywise
<1>17. PICK my \in DOMAIN uuid : uuid[my] = m /\ my \notin resting
  BY <1>9 DEF Gone
<1>18. PICK r \in Nat : r = Remaining(orders[my]) /\ Req(m).qty - create[c].copy.filled = r /\ due[m] >= r
  <2>1. Counts(my)
    <3>1. Tells(c, my)
      BY <1>6 DEF Telling
    <3>2. ~ Awaits(c, m) /\ ~ At(c, {"writeMaker"}, m)
      BY <1>2, <1>9 DEF Awaits, At
    <3> QED BY <1>9, <1>17, <3>1, <3>2 DEF Tells, TellsOther
  <2>2. DueAfter(due, c, my)
    BY <1>3, <1>16 DEF Due
  <2>3. DueOf(due, my)
    BY <1>8, <1>17, <2>2 DEF DueAfter
  <2>4. Remaining(orders[my]) \in Nat /\ Req(m).qty - orders[my].filled = Remaining(orders[my])
    BY <1>17, LeftByRow
  <2> QED BY <1>10, <1>17, <2>1, <2>3, <2>4 DEF Counts, DueOf
<1>19. PICK late \in [Calls -> Nat] : due[m] = late[m] + r /\ \A d \in Calls \ {m} : late[d] = due[d]
  <2>1. due[m] \in Nat
    BY <1>8
  <2>2. PICK n \in Nat : due[m] = n + r
    <3>1. due[m] - r \in Nat /\ due[m] = (due[m] - r) + r
      BY <1>18, <2>1
    <3> QED BY <3>1
  <2>3. [due EXCEPT ![m] = n] \in [Calls -> Nat]
    OBVIOUS
  <2> QED BY <1>8, <2>2, <2>3
<1>20. Covered(late)'
  <2>1. \A d \in Calls : SameAsk(d)
    BY <1>2, <1>4, <1>5 DEF SameAsk
  <2>2. Unlock(Req(m).user, Spends(Req(m)), Cost(Req(m), r, Req(m).price))
    BY <1>2, <1>18 DEF LockOf
  <2>3. create[m].pc # "new"
    <3>1. Known(m)
      BY <1>9, Names DEF Inv
    <3> QED BY <3>1, Names DEF Inv, Before
  <2> QED BY <1>8, <1>9, <1>16, <1>19, <2>1, <2>2, <2>3, CoveredRelease
<1>21. Due(late)'
  <2>1. ASSUME NEW id \in DOMAIN uuid PROVE DueAtRest(late, id)'
    <3>1. DueAtRest(due, id) /\ uuid[id] \in Calls
      BY <1>6, <1>16 DEF Due
    <3>2. CASE uuid[id] = m
      <4>1. id = my /\ cancel'[uuid[id]].pc \in {"new", "done"}
        BY <1>6, <1>7, <1>17, <3>1, <3>2 DEF CallAlone
      <4> QED BY <1>7, <1>17, <4>1 DEF DueAtRest
    <3>3. CASE uuid[id] # m
      BY <1>7, <1>19, <3>1, <3>3 DEF DueAtRest, DueOf
    <3> QED BY <3>2, <3>3
  <2>2. ASSUME NEW d \in Calls PROVE DueInCall(late, d)'
    <3>1. CASE d = c
      <4>1. DueInCall(due, c) /\ late[c] = due[c] /\ Paid(c)' = Paid(c)
        BY <1>4, <1>9, <1>16, <1>19, PaidStays DEF Due
      <4> QED BY <1>3, <1>4, <3>1, <4>1 DEF DueInCall, Req
    <3>2. CASE d # c
      BY <1>14, <3>2 DEF DueInCall, Locking
    <3> QED BY <3>1, <3>2
  <2>3. ASSUME NEW id \in DOMAIN uuid PROVE DueAfter(late, c, id)'
    <3>1. DueAfter(due, c, id) /\ uuid[id] \in Calls
      BY <1>3, <1>6, <1>16 DEF Due
    <3>2. Dropping(c, uuid[id])' => DueOf(late, id)'
      <4>1. Dropping(c, uuid[id])' => Dropping(c, uuid[id]) /\ uuid[id] # m
        BY <1>7, <1>11, <3>1
      <4> QED BY <1>7, <1>19, <3>1, <4>1 DEF DueAfter, DueOf
    <3>3. (create'[c].settled + 1)..Len(create'[c].fills) = {}
      <4>1. PICK l \in Nat : l = Len(create'[c].fills) /\ l = create'[c].settled
        BY <1>4, <1>10, LenProperties DEF CallRecs
      <4>2. (l + 1)..l = {}
        OBVIOUS
      <4> QED BY <4>1, <4>2
    <3> QED BY <1>7, <3>2, <3>3 DEF DueAfter
  <2>4. \A d \in Calls : create'[d].pc \in After => d = c
    BY <1>14 DEF Locking
  <2> QED BY <1>6, <1>7, <2>1, <2>2, <2>3, <2>4 DEF Due
<1> QED BY <1>13, <1>15, <1>20, <1>21 DEF Moneywise

-----------------------------------------------------------------------------
\* CreateOrder returns.

LEMMA EndedMoney ==
  ASSUME \A d \in Calls : create'[d].pc \in Ended, taker' = NoOrder, NEW late \in [Calls -> Nat],
         Covered(late)', \A id \in DOMAIN uuid' : DueAtRest(late, id)'
  PROVE  Moneywise'
<1>1. \A d \in Calls : DueInCall(late, d)' /\ SellerFunded(d)'
  BY DEF DueInCall, SellerFunded, Ended, After, Applying
<1>2. \A d \in Calls : create'[d].pc \notin After
  BY DEF Ended, After, Applying
<1>3. Due(late)'
  BY <1>1, <1>2 DEF Due
<1> QED BY <1>1, <1>3 DEF Moneywise, SellersFunded

LEMMA WriteTakerKeeps ==
  ASSUME Inv, Inv', Rowwise, Moneywise, NEW c \in Calls, WriteTaker(c)
  PROVE  Rowwise' /\ Moneywise'
<1>1. PICK r : r = [status |-> DeriveStatus(SumOf(create[c].fills), Req(c).qty, create[c].rested),
                    filled |-> SumOf(create[c].fills)]
  OBVIOUS
<1>2. /\ create[c].pc = "apply" /\ create[c].makers = {} /\ create[c].dropped = <<>>
      /\ rows' = [rows EXCEPT ![c] = r] /\ End(c, "done")
      /\ UNCHANGED <<book, uuid, trades, wallets, cancel, boot, crashes>>
  BY <1>1 DEF WriteTaker
<1>3. create[c].pc \in After /\ create[c].pc \notin Before
  BY <1>2 DEF After, Applying, Before
<1>4. /\ Telling(c) /\ CallSound(c) /\ CallAlone(c) /\ taker = NoOrder
      /\ \A i, j \in DOMAIN uuid : uuid[i] = uuid[j] => i = j
      /\ \A id \in DOMAIN uuid : uuid[id] \in Calls
  BY <1>3, TellingAlone
<1>5. PICK k : k = Bare("done", Req(c))
  OBVIOUS
<1>6. k.pc = "done" /\ k.req = Req(c)
  BY <1>5, BareRecord
<1>7. create' = [create EXCEPT ![c] = k]
  BY <1>2, <1>5 DEF End, Bare
<1>8. boot.pc = "up" /\ Lone' /\ create'[c] = k /\ \A d \in Calls : d # c => create'[d] = create[d]
  BY <1>2, <1>4, <1>6, <1>7, LoneStep DEF Rowwise, Lone
<1>9. \A d \in Calls : create'[d].pc \in Ended /\ cancel[d].pc \in {"new", "done"}
  BY <1>4, <1>6, <1>8 DEF CallAlone, Ended
<1>10. UNCHANGED <<orders, resting, taker, uuid, cancel>>
  BY <1>2 DEF book
<1>11. rows'[c] = r /\ \A d \in Calls : d # c => rows'[d] = rows[d]
  BY <1>2 DEF Inv, ServiceTypes
<1>12. Known(c)
  BY <1>3, <1>4 DEF CallSound
<1>13. \A d : (Known(d)' <=> Known(d)) /\ (Gone(d)' <=> Gone(d))
  BY <1>10 DEF Known, Gone
<1>14. Placed'
  <2>1. ASSUME NEW d \in Calls PROVE PlacedCall(d)'
    <3>1. PlacedCall(d)
      BY DEF Rowwise, Placed
    <3>2. CASE d = c
      <4>1. create'[c].pc = "done" /\ create'[c].req = create[c].req /\ cancel'[c].pc \in {"new", "done"}
        BY <1>6, <1>8, <1>9, <1>10 DEF Req
      <4>2. Req(c).type = "limit" \/ Req(c).side = "sell"
        BY <1>2, <3>1, <3>2 DEF PlacedCall
      <4> QED BY <1>12, <1>13, <3>2, <4>1, <4>2 DEF PlacedCall, Req
    <3>3. CASE d # c
      BY <1>8, <1>10, <1>11, <1>13, <3>1, <3>3 DEF PlacedCall, Req
    <3> QED BY <3>2, <3>3
  <2> QED BY <2>1 DEF Placed
<1>15. ASSUME NEW id \in DOMAIN uuid, uuid[id] = c PROVE Counts(id)' /\ Shows(id)'
  <2>1. TellsOwn(c, id)
    BY <1>4, <1>15 DEF Telling, Tells
  <2>2. /\ Req(c).qty - orders[id].filled = Remaining(orders[id]) /\ Remaining(orders[id]) \in Nat
        /\ orders[id].type = Req(c).type /\ orders[id].filled \in Nat
        /\ orders[id].qty \in Nat /\ orders[id].qty = Req(c).qty
    BY <1>15, LeftByRow
  <2>3. r.filled = orders[id].filled
    BY <1>1, <2>1, SumOfIsFilled DEF TellsOwn
  <2>4. r.status = DeriveStatus(orders[id].filled, orders[id].qty, create[c].rested)
    BY <1>1, <2>2, <2>3
  <2>5. orders[id].filled < orders[id].qty => Remaining(orders[id]) > 0
    BY <2>2
  <2>6. ShowsAs(r.status, id)
    BY <2>1, <2>2, <2>4, <2>5 DEF ShowsAs, DeriveStatus, TellsOwn
  <2>7. rows'[uuid'[id]] = r
    BY <1>10, <1>11, <1>15
  <2> QED BY <1>10, <2>3, <2>6, <2>7 DEF Counts, Shows, ShowsAs
<1>16. ASSUME NEW id \in DOMAIN uuid, uuid[id] # c PROVE Counts(id)' /\ Shows(id)'
  <2>1. TellsOther(c, id)
    BY <1>4, <1>16 DEF Telling, Tells
  <2>2. /\ ~ Awaits(c, uuid[id]) /\ ~ At(c, {"writeMaker"}, uuid[id])
        /\ ~ At(c, {"writeDropped"}, uuid[id]) /\ uuid[id] \notin Range(create[c].dropped)
    BY <1>2, BareRecord DEF Awaits, At
  <2>3. Counts(id) /\ Shows(id)
    BY <2>1, <2>2 DEF TellsOther
  <2>4. rows'[uuid'[id]] = rows[uuid[id]]
    BY <1>4, <1>10, <1>11, <1>16
  <2> QED BY <1>10, <2>3, <2>4 DEF Counts, Shows, ShowsAs
<1>17. Calm'
  <2>1. \A id \in DOMAIN uuid : Counts(id)' /\ Shows(id)'
    BY <1>15, <1>16
  <2> QED BY <1>9, <1>10, <2>1 DEF Calm
<1>18. Rowwise'
  BY <1>4, <1>8, <1>9, <1>10, <1>14, <1>17, QuietRows
<1>19. PICK due \in [Calls -> Nat] : Due(due) /\ Covered(due)
  BY DEF Moneywise
<1>20. Covered(due)'
  <2>1. \A d \in Calls : SameAsk(d)
    BY <1>2, <1>6, <1>8 DEF SameAsk, Req
  <2> QED BY <1>2, <1>19, <2>1, CoveredStays
<1>21. ASSUME NEW id \in DOMAIN uuid' PROVE DueAtRest(due, id)'
  BY <1>10, <1>19 DEF Due, DueAtRest, DueOf
<1>22. Moneywise'
  BY <1>4, <1>9, <1>10, <1>20, <1>21, EndedMoney
<1> QED BY <1>18, <1>22

-----------------------------------------------------------------------------
\* CreateOrder settles a fill: two locks pay, and two balances.

LEMMA DebtMovesTwice ==
  ASSUME Inv, Inv', NEW due \in [Calls -> Nat], NEW late \in [Calls -> Nat], NEW u \in Users, NEW cur \in Currencies,
         NEW x \in Calls, NEW y \in Calls, x # y,
         \A d \in Calls \ {x, y} : Share(late, d, u, cur)' = Share(due, d, u, cur)
  PROVE  Debt(late, u, cur)' = Debt(due, u, cur) + (Share(late, x, u, cur)' - Share(due, x, u, cur))
                                                 + (Share(late, y, u, cur)' - Share(due, y, u, cur))
<1>1. PICK f, g : /\ f = [c \in Calls |-> Share(due, c, u, cur)]
                  /\ g = [c \in Calls |-> Share(late, c, u, cur)']
  OBVIOUS
<1>2. ASSUME NEW c \in Calls PROVE f[c] \in Int /\ f[c] = Share(due, c, u, cur)
  BY <1>1, ShareType
<1>3. ASSUME NEW c \in Calls PROVE g[c] \in Int /\ g[c] = Share(late, c, u, cur)'
  BY <1>1, ShareTypeLater
<1>4. PICK h : h = [c \in Calls |-> IF c = x THEN g[c] ELSE f[c]]
  OBVIOUS
<1>5. h[x] = g[x] /\ h[y] = f[y] /\ \A c \in Calls : h[c] \in Int
  BY <1>2, <1>3, <1>4
<1>6. SumOver(h, Calls) = SumOver(f, Calls) + (h[x] - f[x])
  <2>1. \A c \in Calls \ {x} : f[c] = h[c]
    BY <1>4
  <2> QED BY <1>2, <1>5, <2>1, CallsFinite, SumChange
<1>7. SumOver(g, Calls) = SumOver(h, Calls) + (g[y] - h[y])
  <2>1. ASSUME NEW c \in Calls \ {y} PROVE h[c] = g[c]
    BY <1>2, <1>3, <1>4
  <2> QED BY <1>3, <1>5, <2>1, CallsFinite, SumChange
<1>8. SumOver(f, Calls) \in Int
  BY <1>2, CallsFinite, SumType
<1>9. Debt(late, u, cur)' = SumOver(g, Calls)
  BY <1>1 DEF Debt
<1>10. Debt(due, u, cur) = SumOver(f, Calls)
  BY <1>1 DEF Debt
<1>11. PICK a, b, sf, sg, sh : /\ sf = SumOver(f, Calls) /\ sg = SumOver(g, Calls) /\ sh = SumOver(h, Calls)
                               /\ a = f[x] /\ b = f[y]
  OBVIOUS
<1>12. PICK p, q : p = g[x] /\ q = g[y]
  OBVIOUS
<1>13. /\ sh = sf + (p - a) /\ sg = sh + (q - b)
       /\ sf \in Int /\ a \in Int /\ b \in Int /\ p \in Int /\ q \in Int
  BY <1>2, <1>3, <1>5, <1>6, <1>7, <1>8, <1>11, <1>12
<1>14. sg = sf + (p - a) + (q - b)
  BY <1>13
<1> QED BY <1>2, <1>3, <1>9, <1>10, <1>11, <1>12, <1>14

\* What of a call's lots the lock has to cover no longer.
Lots(c, n) == IF Req(c).type = "limit" THEN n ELSE 0

\* The debt, when n lots of the maker and of the taker are paid.
LEMMA DebtFallsTwice ==
  ASSUME Inv, Inv', NEW due \in [Calls -> Nat], NEW late \in [Calls -> Nat], NEW u \in Users, NEW cur \in Currencies,
         NEW x \in Calls, NEW y \in Calls, x # y, NEW n \in Nat, NEW k \in Nat,
         due[x] = late[x] + n, due[y] = late[y] + k, \A d \in Calls \ {x, y} : late[d] = due[d],
         \A d \in Calls : SameAsk(d)
  PROVE  /\ Debt(late, u, cur)' = Debt(due, u, cur) - PartOf(x, n, u, cur) - PartOf(y, k, u, cur)
         /\ PartOf(x, n, u, cur) \in Nat /\ PartOf(y, k, u, cur) \in Nat /\ Debt(due, u, cur) \in Nat
         /\ PartOf(x, n, u, cur) <= Debt(due, u, cur) /\ PartOf(y, k, u, cur) <= Debt(due, u, cur)
<1>1. /\ Share(late, x, u, cur)' = Share(due, x, u, cur) - PartOf(x, n, u, cur)
      /\ PartOf(x, n, u, cur) \in Nat /\ PartOf(x, n, u, cur) <= Share(due, x, u, cur)
      /\ Share(due, x, u, cur) \in Nat
  <2>1. due[x] = late[x] + n /\ SameAsk(x)
    OBVIOUS
  <2> QED BY <2>1, ShareFalls
<1>2. /\ Share(late, y, u, cur)' = Share(due, y, u, cur) - PartOf(y, k, u, cur)
      /\ PartOf(y, k, u, cur) \in Nat /\ PartOf(y, k, u, cur) <= Share(due, y, u, cur)
      /\ Share(due, y, u, cur) \in Nat
  <2>1. due[y] = late[y] + k /\ SameAsk(y)
    OBVIOUS
  <2> QED BY <2>1, ShareFalls
<1>3. ASSUME NEW d \in Calls \ {x, y} PROVE Share(late, d, u, cur)' = Share(due, d, u, cur)
  <2>1. late[d] = due[d] /\ SameAsk(d)
    OBVIOUS
  <2> QED BY <2>1, ShareStays
<1>4. Debt(late, u, cur)' = Debt(due, u, cur) + (Share(late, x, u, cur)' - Share(due, x, u, cur))
                                              + (Share(late, y, u, cur)' - Share(due, y, u, cur))
  <2>0. Inv /\ Inv' /\ x \in Calls /\ y \in Calls /\ x # y
    OBVIOUS
  <2> QED BY <1>3, <2>0, DebtMovesTwice
<1>5. /\ Debt(due, u, cur) \in Nat
      /\ Share(due, x, u, cur) <= Debt(due, u, cur) /\ Share(due, y, u, cur) <= Debt(due, u, cur)
  BY DebtType
<1>6. /\ Share(late, x, u, cur)' - Share(due, x, u, cur) = 0 - PartOf(x, n, u, cur)
      /\ Share(late, y, u, cur)' - Share(due, y, u, cur) = 0 - PartOf(y, k, u, cur)
  BY <1>1, <1>2
<1> QED BY <1>1, <1>2, <1>4, <1>5, <1>6

\* What a settlement does to the wallets: v pays x of a, w pays y of b.
Moves(v, w, a, b, x, y, type) ==
    /\ bal' = Pay(Pay(bal, v, a, x, y), w, b, y, x)
    /\ locked' = LET l == Release(locked, v, a, x)
                 IN IF type = "limit" THEN Release(l, w, b, y) ELSE l
Moved(v, w, a, b, x, y, type) ==
    \A u \in Users, cur \in Currencies :
       /\ locked[u][cur] \in Nat /\ bal[u][cur] \in Int
       /\ bal'[u][cur] = IF u = v THEN (IF cur = a THEN bal[u][cur] - x ELSE bal[u][cur] + y)
                         ELSE IF u = w THEN (IF cur = b THEN bal[u][cur] - y ELSE bal[u][cur] + x)
                         ELSE bal[u][cur]
       /\ locked'[u][cur] = IF u = v /\ cur = a THEN Floor0(locked[u][cur] - x)
                            ELSE IF u = w /\ cur = b /\ type = "limit" THEN Floor0(locked[u][cur] - y)
                            ELSE locked[u][cur]

LEMMA WalletsAfter ==
  ASSUME ServiceTypes, NEW v \in Users, NEW w \in Users, v # w,
         NEW a \in Currencies, NEW b \in Currencies, a # b, NEW x \in Nat, NEW y \in Nat, NEW type,
         Moves(v, w, a, b, x, y, type)
  PROVE  Moved(v, w, a, b, x, y, type)
<1>1. bal \in [Users -> [Currencies -> Int]] /\ locked \in [Users -> [Currencies -> Nat]]
  BY DEF ServiceTypes
<1>2. PICK p : p = Pay(bal, v, a, x, y)
  OBVIOUS
<1>3. \A u \in Users, cur \in Currencies :
        p[u][cur] = IF u = v THEN (IF cur = a THEN bal[u][cur] - x ELSE bal[u][cur] + y) ELSE bal[u][cur]
  BY <1>1, <1>2 DEF Pay
<1>4. p \in [Users -> [Currencies -> Int]]
  BY <1>1, <1>2, PayWealth
<1>5. ASSUME NEW u \in Users, NEW cur \in Currencies
      PROVE  bal'[u][cur] = IF u = w THEN (IF cur = b THEN p[u][cur] - y ELSE p[u][cur] + x) ELSE p[u][cur]
  <2>1. bal' = Pay(p, w, b, y, x)
    BY <1>2 DEF Moves
  <2> QED BY <1>4, <2>1 DEF Pay
<1>6. PICK l : l = Release(locked, v, a, x)
  OBVIOUS
<1>7. \A u \in Users, cur \in Currencies :
        l[u][cur] = IF u = v /\ cur = a THEN Floor0(locked[u][cur] - x) ELSE locked[u][cur]
  BY <1>1, <1>6 DEF Release
<1>8. l \in [Users -> [Currencies -> Nat]]
  <2>1. x \in Int
    OBVIOUS
  <2> QED BY <1>1, <1>6, <2>1, ReleaseType
<1>9. ASSUME NEW u \in Users, NEW cur \in Currencies
      PROVE  locked'[u][cur] = IF u = w /\ cur = b /\ type = "limit" THEN Floor0(l[u][cur] - y) ELSE l[u][cur]
  <2>1. locked' = IF type = "limit" THEN Release(l, w, b, y) ELSE l
    BY <1>6 DEF Moves
  <2> QED BY <1>8, <2>1 DEF Release
<1>10. ASSUME NEW u \in Users, NEW cur \in Currencies
       PROVE  /\ bal'[u][cur] = IF u = v THEN (IF cur = a THEN bal[u][cur] - x ELSE bal[u][cur] + y)
                                ELSE IF u = w THEN (IF cur = b THEN bal[u][cur] - y ELSE bal[u][cur] + x)
                                ELSE bal[u][cur]
              /\ locked'[u][cur] = IF u = v /\ cur = a THEN Floor0(locked[u][cur] - x)
                                   ELSE IF u = w /\ cur = b /\ type = "limit" THEN Floor0(locked[u][cur] - y)
                                   ELSE locked[u][cur]
  BY <1>3, <1>5, <1>7, <1>9
<1> QED BY <1>1, <1>10 DEF Moved

\* Call c settles with d: n lots for the price p.
Settles(c, d, n, p, mOut, tOut) ==
    /\ c # d /\ create[c].pc # "new" /\ create[d].pc # "new"
    /\ Req(d).type = "limit" /\ Req(c).user # Req(d).user
    /\ Req(d).side = Opposite(Req(c).side) /\ p = Req(d).price
    /\ Req(c).type = "limit" /\ Req(c).side = "buy" => p <= Req(c).price
    /\ mOut = Cost(Req(d), n, p) /\ tOut = Cost(Req(c), n, p)
    /\ Req(c).type # "limit" => Available(Req(c).user, Spends(Req(c))) >= tOut
    /\ Moves(Req(d).user, Req(c).user, Spends(Req(d)), Spends(Req(c)), mOut, tOut, Req(c).type)
IsPaid(c, d, n, due, late) ==
    /\ due[d] = late[d] + n /\ due[c] = late[c] + Lots(c, n)
    /\ \A e \in Calls \ {c, d} : late[e] = due[e]

\* The maker's lock and the taker's pay for the lots they were for.
LEMMA SettleCovers ==
  ASSUME Inv, Inv', NEW c \in Calls, NEW d \in Calls, NEW n \in Nat, NEW p \in Nat, NEW mOut, NEW tOut,
         NEW due \in [Calls -> Nat], NEW late \in [Calls -> Nat], Covered(due), \A e \in Calls : SameAsk(e),
         Settles(c, d, n, p, mOut, tOut), IsPaid(c, d, n, due, late)
  PROVE  Covered(late)'
<1> USE DEF Settles, IsPaid
<1>1. PICK v, w, a, b, x, y, type :
        /\ v = Req(d).user /\ w = Req(c).user /\ a = Spends(Req(d)) /\ b = Spends(Req(c))
        /\ x = mOut /\ y = tOut /\ type = Req(c).type
  OBVIOUS
<1>2. Req(c) \in NewOrders /\ Req(d) \in NewOrders
  BY Requested
<1>3. /\ v \in Users /\ w \in Users /\ v # w /\ a \in Currencies /\ b \in Currencies /\ a # b
      /\ x \in Nat /\ y \in Nat
      /\ Req(c).price \in Nat
  <2>1. x \in Nat /\ y \in Nat
    BY <1>1, CostType
  <2> QED BY <1>1, <1>2, <2>1, NewOrderFields DEF Spends, Currencies, Opposite, Sides
<1>4. \A u \in Users, cur \in Currencies :
            /\ locked[u][cur] \in Nat /\ bal[u][cur] \in Int
            /\ bal'[u][cur] = IF u = v THEN (IF cur = a THEN bal[u][cur] - x ELSE bal[u][cur] + y)
                              ELSE IF u = w THEN (IF cur = b THEN bal[u][cur] - y ELSE bal[u][cur] + x)
                              ELSE bal[u][cur]
            /\ locked'[u][cur] = IF u = v /\ cur = a THEN Floor0(locked[u][cur] - x)
                                 ELSE IF u = w /\ cur = b /\ type = "limit" THEN Floor0(locked[u][cur] - y)
                                 ELSE locked[u][cur]
  <2>1. ServiceTypes
    BY DEF Inv
  <2>2. Moves(v, w, a, b, x, y, type)
    BY <1>1
  <2>3. Moved(v, w, a, b, x, y, type)
    BY <1>3, <2>1, <2>2, WalletsAfter
  <2> QED BY <2>3 DEF Moved
<1>5. SUFFICES ASSUME NEW u \in Users, NEW cur \in Currencies PROVE CoveredIn(late, u, cur)'
  BY DEF Covered
<1>6. PICK k : k = Lots(c, n)
  OBVIOUS
<1>7. k \in Nat /\ (type = "limit" => k = n)
  BY <1>1, <1>6 DEF Lots
<1>8. PICK pd, pc : pd = PartOf(d, n, u, cur) /\ pc = PartOf(c, k, u, cur)
  OBVIOUS
<1>9. /\ Debt(late, u, cur)' = Debt(due, u, cur) - pd - pc
      /\ pd \in Nat /\ pc \in Nat /\ Debt(due, u, cur) \in Nat
      /\ pd <= Debt(due, u, cur) /\ pc <= Debt(due, u, cur)
  <2>0. /\ due \in [Calls -> Nat] /\ late \in [Calls -> Nat] /\ c \in Calls /\ d \in Calls /\ n \in Nat
        /\ u \in Users /\ cur \in Currencies
    OBVIOUS
  <2>1. due[d] = late[d] + n /\ due[c] = late[c] + k /\ \A e \in Calls \ {d, c} : late[e] = due[e]
    BY <1>6
  <2>2. Inv /\ Inv' /\ d # c /\ \A e \in Calls : SameAsk(e)
    OBVIOUS
  <2>3. /\ Debt(late, u, cur)' = Debt(due, u, cur) - PartOf(d, n, u, cur) - PartOf(c, k, u, cur)
        /\ PartOf(d, n, u, cur) \in Nat /\ PartOf(c, k, u, cur) \in Nat /\ Debt(due, u, cur) \in Nat
        /\ PartOf(d, n, u, cur) <= Debt(due, u, cur) /\ PartOf(c, k, u, cur) <= Debt(due, u, cur)
    BY ONLY <1>5, <1>7, <2>0, <2>1, <2>2, DebtFallsTwice
  <2> QED BY <1>8, <2>3
<1>10. /\ pd = IF u = v /\ cur = a THEN x ELSE 0
       /\ ~ (u = w /\ cur = b /\ type = "limit") => pc = 0
       /\ u = w /\ cur = b /\ type = "limit" => y <= pc
  <2>1. pd = IF u = v /\ cur = a THEN x ELSE 0
    BY <1>1, <1>8 DEF PartOf
  <2>2. ~ (u = w /\ cur = b /\ type = "limit") => pc = 0
    BY <1>1, <1>8 DEF PartOf
  <2>3. ASSUME u = w, cur = b, type = "limit" PROVE y <= pc
    <3>1. pc = Cost(Req(c), n, Req(c).price)
      BY <1>1, <1>7, <1>8, <2>3 DEF PartOf
    <3>2. CASE Req(c).side = "buy"
      BY <1>1, <1>3, <2>3, <3>1, <3>2, CostOfPrice
    <3>3. CASE Req(c).side # "buy"
      BY <1>1, <3>1, <3>3 DEF Cost
    <3> QED BY <3>2, <3>3
  <2> QED BY <2>1, <2>2, <2>3
<1>11. PICK D, L, B, D1, L1, B1 :
         /\ D = Debt(due, u, cur) /\ L = locked[u][cur] /\ B = bal[u][cur]
         /\ D1 = Debt(late, u, cur)' /\ L1 = locked'[u][cur] /\ B1 = bal'[u][cur]
  OBVIOUS
<1>12. D <= L /\ L <= B /\ D \in Nat /\ L \in Nat /\ B \in Int /\ D1 = D - pd - pc /\ pd <= D /\ pc <= D
  BY <1>4, <1>9, <1>11 DEF Covered, CoveredIn
<1>13. CASE u = v /\ cur = a
  <2>1. pc = 0 /\ pd = x /\ L1 = Floor0(L - x) /\ B1 = B - x
    BY <1>3, <1>4, <1>10, <1>11, <1>13
  <2>2. L1 = L - x
    BY <1>3, <1>12, <2>1 DEF Floor0
  <2>3. D1 <= L1 /\ L1 <= B1
    BY <1>3, <1>12, <2>1, <2>2
  <2> QED BY <1>11, <2>3 DEF CoveredIn
<1>14. CASE u = w /\ cur = b /\ type = "limit"
  <2>1. pd = 0 /\ y <= pc /\ L1 = Floor0(L - y) /\ B1 = B - y
    BY <1>3, <1>4, <1>10, <1>11, <1>14
  <2>2. L1 = L - y
    BY <1>3, <1>9, <1>12, <2>1 DEF Floor0
  <2>3. D1 <= L1 /\ L1 <= B1
    BY <1>3, <1>9, <1>12, <2>1, <2>2
  <2> QED BY <1>11, <2>3 DEF CoveredIn
<1>15. CASE u = w /\ cur = b /\ type # "limit"
  <2>1. pd = 0 /\ pc = 0 /\ L1 = L /\ B1 = B - y
    BY <1>3, <1>4, <1>10, <1>11, <1>15
  <2>2. B - L >= y
    BY <1>1, <1>11, <1>15 DEF Available
  <2>3. D1 <= L1 /\ L1 <= B1
    BY <1>3, <1>12, <2>1, <2>2
  <2> QED BY <1>11, <2>3 DEF CoveredIn
<1>16. CASE ~ (u = v /\ cur = a) /\ ~ (u = w /\ cur = b)
  <2>1. pd = 0 /\ pc = 0 /\ L1 = L /\ (B1 = B \/ B1 = B + x \/ B1 = B + y)
    BY <1>4, <1>10, <1>11, <1>16
  <2>2. D1 <= L1 /\ L1 <= B1
    BY SMTT(30), <1>3, <1>12, <2>1
  <2> QED BY <1>11, <2>2 DEF CoveredIn
<1> QED BY <1>13, <1>14, <1>15, <1>16

\* The fill f that is settled next, after s others.
NextIs(c, s, f) ==
    /\ s + 1 \in 1..Len(create[c].fills) /\ Len(create[c].fills) \in Nat
    /\ f.maker \in Calls /\ f.qty \in Nat /\ f.price \in Nat
    /\ f.maker # c /\ Known(f.maker) /\ Known(c)
    /\ create[c].pc # "new" /\ create[f.maker].pc # "new"
    /\ Req(f.maker).side = Opposite(Req(c).side) /\ Deal(Req(f.maker), Req(c), f.price)
    /\ Paid(c) \in Nat /\ Req(c).qty \in Nat /\ Paid(c) + f.qty <= Req(c).qty
    /\ SumOver(Amounts(create[c].fills), 1..(s + 1)) = Paid(c) + f.qty
    /\ \A my \in DOMAIN uuid : uuid[my] = c => Paid(c) + f.qty <= orders[my].filled
    /\ \A j \in (s + 2)..Len(create[c].fills) : /\ create[c].fills[j].maker # f.maker
                                               /\ create[c].fills[j].maker # c
    /\ f \in FillsOf(c)

LEMMA NextToSettle ==
  ASSUME Inv, Rowwise, NEW c \in Calls, create[c].pc = "settle", NEW s \in Nat, s = create[c].settled,
         NEW f, f = create[c].fills[s + 1]
  PROVE  NextIs(c, s, f)
<1>1. create[c].pc \in After
  BY DEF After
<1>2. /\ Telling(c) /\ CallSound(c) /\ create[c] \in CallRecs
      /\ \E my \in DOMAIN uuid : uuid[my] = c
  BY <1>1, TellingAlone
<1>3. PICK q, l : q = create[c].fills /\ l = Len(q)
  OBVIOUS
<1>4. q \in Seq(Fills) /\ l \in Nat /\ DOMAIN q = 1..l /\ s < l
  <2>1. q \in Seq(Fills) /\ s < l
    BY <1>2, <1>3 DEF CallRecs, CallSound
  <2> QED BY <1>3, <2>1, LenProperties
<1>5. s + 1 \in 1..l
  BY <1>4
<1>6. f \in Fills /\ f.maker \in Calls /\ f.qty \in Nat /\ f.price \in Nat
  <2>1. f \in Fills
    BY <1>3, <1>4, <1>5, ElementOfSeq
  <2>2. \A p \in Prices : p \in Nat
    BY PricesAssumption
  <2> QED BY <2>1, <2>2 DEF Fills
<1>7. f \in FillsOf(c)
  BY <1>3, <1>4, <1>5 DEF FillsOf, Range
<1>8. FairFill(f) /\ f.taker = c
  BY <1>2, <1>7 DEF CallSound
<1>9. /\ f.maker # c /\ Known(f.maker) /\ Known(c)
      /\ Req(f.maker).side = Opposite(Req(c).side) /\ Deal(Req(f.maker), Req(c), f.price)
  BY SMTT(30), <1>2, <1>7, <1>8 DEF Telling, FillsDeal, FairFill
<1>10. create[f.maker].pc # "new"
  BY <1>9, Names DEF Inv, Before
<1>11. /\ Paid(c) \in Nat /\ Req(c).qty \in Nat /\ Paid(c) + f.qty <= Req(c).qty
       /\ SumOver(Amounts(q), 1..(s + 1)) = Paid(c) + f.qty
       /\ \A my \in DOMAIN uuid : uuid[my] = c => Paid(c) + f.qty <= orders[my].filled
  <2>1. PICK my \in DOMAIN uuid : uuid[my] = c
    BY <1>2
  <2>2. TellsOwn(c, my)
    BY <1>2, <2>1 DEF Telling, Tells
  <2>3. orders[my].filled \in Nat /\ orders[my].qty \in Nat /\ orders[my].filled <= orders[my].qty
         /\ orders[my].qty = Req(c).qty
    BY <2>1, LeftByRow
  <2>4. /\ SumOver(Amounts(q), 1..(s + 1)) = SumOver(Amounts(q), 1..s) + q[s + 1].qty
        /\ SumOver(Amounts(q), 1..s) + q[s + 1].qty <= Filled(q)
        /\ SumOver(Amounts(q), 1..s) \in Nat
    <3>1. \A x \in Fills : x.qty \in Nat
      BY FillsType
    <3> QED BY <1>3, <1>4, <3>1, NextFill
  <2>5. Paid(c) = SumOver(Amounts(q), 1..s) /\ Filled(q) = orders[my].filled
    BY <1>3, <2>2 DEF Paid, TellsOwn
  <2>6. PICK a, b : a = Paid(c) /\ b = Filled(q)
    OBVIOUS
  <2>7. a \in Nat /\ a + f.qty <= b /\ b <= orders[my].qty /\ b \in Nat
    BY <1>3, <2>3, <2>4, <2>5, <2>6
  <2>8. a + f.qty <= orders[my].qty
    BY <1>6, <2>3, <2>7
  <2>9. \A id \in DOMAIN uuid : uuid[id] = c => id = my
    BY <1>1, <2>1, TellingAlone
  <2> QED BY <1>3, <2>1, <2>3, <2>4, <2>5, <2>6, <2>7, <2>8, <2>9
<1>12. ASSUME NEW j \in (s + 2)..l PROVE q[j].maker # f.maker /\ q[j].maker # c
  <2>1. j \in 1..l /\ j # s + 1
    BY <1>4
  <2>2. q[j] \in FillsOf(c)
    BY <1>3, <1>4, <2>1 DEF FillsOf, Range
  <2>3. q[j] # f
    BY <1>2, <1>3, <1>4, <1>5, <2>1 DEF CallSound
  <2> QED BY <1>2, <1>7, <2>2, <2>3 DEF Telling, FillsDeal
<1>13. create[c].pc # "new"
  OBVIOUS
<1> QED BY <1>3, <1>4, <1>5, <1>6, <1>7, <1>9, <1>10, <1>11, <1>12, <1>13 DEF NextIs

\* A settlement is not refused, and leaves a record.
LEMMA SettleRuns ==
  ASSUME Inv, Rowwise, Moneywise, NEW c \in Calls, Settle(c), NEW s \in Nat, s = create[c].settled,
         NEW f, f = create[c].fills[s + 1], NEW mOut, NEW tOut,
         mOut = Cost(Req(f.maker), f.qty, f.price), tOut = Cost(Req(c), f.qty, f.price)
  PROVE  /\ create[c].pc = "settle"
         /\ Req(c).type # "limit" => /\ Req(c).side = "sell"
                                     /\ Available(Req(c).user, Spends(Req(c))) >= tOut
         /\ Moves(Req(f.maker).user, Req(c).user, Spends(Req(f.maker)), Spends(Req(c)),
                  mOut, tOut, Req(c).type)
         /\ \E k \in CallRecs :
              /\ create' = [create EXCEPT ![c] = k] /\ create'[c] = k
              /\ k.pc = (IF s + 1 = Len(create[c].fills) THEN "save" ELSE "settle")
              /\ k.req = create[c].req /\ k.fills = create[c].fills /\ k.settled = s + 1
              /\ k.makers = create[c].makers /\ k.dropped = create[c].dropped
              /\ k.rested = create[c].rested /\ k.target = create[c].target /\ k.copy = create[c].copy
         /\ \A d \in Calls : create'[d].req = create[d].req /\ (d # c => create'[d] = create[d])
         /\ UNCHANGED <<book, uuid, rows, trades, cancel, boot, crashes>>
<1>1. create[c].pc = "settle" /\ UNCHANGED <<book, uuid, rows, trades, cancel, boot, crashes>>
  BY ZenonT(40) DEF Settle
<1>2. /\ f.qty \in Nat /\ f.price \in Nat /\ Paid(c) \in Nat /\ Req(c).qty \in Nat /\ Paid(c) + f.qty <= Req(c).qty
      /\ Req(c) \in NewOrders
  <2>1. NextIs(c, s, f)
    BY SMTT(30), <1>1, NextToSettle
  <2> QED BY <2>1, Requested DEF NextIs
<1>3. Req(c).type # "limit" => Req(c).type = "market" /\ Req(c).side = "sell"
  BY <1>1, <1>2 DEF Rowwise, Placed, PlacedCall, NewOrders, Types
<1>4. ASSUME Req(c).type # "limit" PROVE Available(Req(c).user, Spends(Req(c))) >= tOut
  <2>1. Spends(Req(c)) = "base" /\ tOut = f.qty
    BY <1>3, <1>4 DEF Spends, Cost
  <2>2. Available(Req(c).user, "base") >= Req(c).qty - Paid(c)
    BY <1>1, <1>3, <1>4 DEF Moneywise, SellersFunded, SellerFunded
  <2>3. Available(Req(c).user, "base") \in Int
    <3>1. Req(c).user \in Users /\ "base" \in Currencies
      BY <1>2, NewOrderFields DEF Currencies
    <3> QED BY SMTT(30), <3>1 DEF Available, Inv, ServiceTypes
  <2>4. PICK a, p \in Int : a = Available(Req(c).user, "base") /\ p = Paid(c)
    BY SMTT(30), <1>2, <2>3
  <2> QED BY <1>2, <2>1, <2>2, <2>4
<1>5. ~ (Req(c).type = "market" /\ Available(Req(c).user, Spends(Req(c))) < tOut)
  <2>1. CASE Req(c).type = "limit"
    BY <2>1
  <2>2. CASE Req(c).type # "limit"
    <3>1. Available(Req(c).user, Spends(Req(c))) \in Int /\ tOut \in Int
      <4>1. Req(c).user \in Users /\ Spends(Req(c)) \in Currencies
        BY SMTT(30), <1>2, NewOrderFields DEF Spends, Currencies
      <4>2. tOut \in Int
        BY <1>2, CostType
      <4> QED BY <4>1, <4>2 DEF Available, Inv, ServiceTypes
    <3>2. PICK a : a = Available(Req(c).user, Spends(Req(c)))
      BY SMTT(30)
    <3> QED BY <1>4, <2>2, <3>1, <3>2
  <2> QED BY <2>1, <2>2
<1>6. /\ bal' = Pay(Pay(bal, Req(f.maker).user, Spends(Req(f.maker)), mOut, tOut),
                       Req(c).user, Spends(Req(c)), tOut, mOut)
      /\ locked' = LET l == Release(locked, Req(f.maker).user, Spends(Req(f.maker)), mOut)
                   IN IF Req(c).type = "limit" THEN Release(l, Req(c).user, Spends(Req(c)), tOut) ELSE l
      /\ create' = [create EXCEPT ![c].settled = s + 1,
                       ![c].pc = IF s + 1 = Len(create[c].fills) THEN "save" ELSE "settle"]
  BY <1>5 DEF Settle
<1>7. create \in [Calls -> CallRecs] /\ create[c] \in CallRecs
  BY DEF Inv, ServiceTypes
<1>8. PICK q : q = IF s + 1 = Len(create[c].fills) THEN "save" ELSE "settle"
  OBVIOUS
<1>9. PICK k : k = [create[c] EXCEPT !.settled = s + 1, !.pc = q]
  BY SMTT(30)
<1>10. create' = [create EXCEPT ![c] = k]
  BY <1>6, <1>7, <1>8, <1>9
<1>11. q \in CreatePcs /\ s + 1 \in Nat
  BY <1>8 DEF CreatePcs
<1>12. /\ k \in CallRecs /\ k.pc = q
       /\ k.req = create[c].req /\ k.fills = create[c].fills /\ k.settled = s + 1
       /\ k.makers = create[c].makers /\ k.dropped = create[c].dropped
       /\ k.rested = create[c].rested /\ k.target = create[c].target /\ k.copy = create[c].copy
  BY <1>7, <1>9, <1>11 DEF CallRecs
<1>13. create'[c] = k /\ \A d \in Calls : d # c => create'[d] = create[d]
  BY <1>7, <1>10
<1>14. \E e \in CallRecs :
         /\ create' = [create EXCEPT ![c] = e] /\ create'[c] = e
         /\ e.pc = (IF s + 1 = Len(create[c].fills) THEN "save" ELSE "settle")
         /\ e.req = create[c].req /\ e.fills = create[c].fills /\ e.settled = s + 1
         /\ e.makers = create[c].makers /\ e.dropped = create[c].dropped
         /\ e.rested = create[c].rested /\ e.target = create[c].target /\ e.copy = create[c].copy
  BY ONLY <1>8, <1>10, <1>12, <1>13
<1>15. Moves(Req(f.maker).user, Req(c).user, Spends(Req(f.maker)), Spends(Req(c)), mOut, tOut, Req(c).type)
  BY <1>6 DEF Moves
<1> QED BY ZenonT(40), <1>1, <1>3, <1>4, <1>12, <1>13, <1>14, <1>15

LEMMA SettleKeeps ==
  ASSUME Inv, Inv', Rowwise, Moneywise, NEW c \in Calls, Settle(c)
  PROVE  Rowwise' /\ Moneywise'
<1>1. create[c].pc = "settle" /\ UNCHANGED <<book, uuid, rows, trades, cancel, boot, crashes>>
  BY DEF Settle
<1>2. create[c].pc \in After
  BY <1>1 DEF After
<1>3. /\ Telling(c) /\ CallSound(c) /\ CallAlone(c) /\ taker = NoOrder
      /\ \A i, j \in DOMAIN uuid : uuid[i] = uuid[j] => i = j
      /\ \A id \in DOMAIN uuid : uuid[id] \in Calls
  BY <1>2, TellingAlone
<1>4. PICK s \in Nat : s = create[c].settled
  BY DEF Inv, ServiceTypes, CallRecs
<1>5. PICK f : f = create[c].fills[s + 1]
  OBVIOUS
<1>6. PICK m, n, p : m = f.maker /\ n = f.qty /\ p = f.price
  OBVIOUS
<1>7. PICK mOut, tOut : mOut = Cost(Req(m), n, p) /\ tOut = Cost(Req(c), n, p)
  OBVIOUS
<1>8. NextIs(c, s, f)
  BY <1>1, <1>4, <1>5, NextToSettle
<1>9. m \in Calls /\ n \in Nat /\ p \in Nat /\ m # c
  BY <1>6, <1>8 DEF NextIs
<1>10. s + 1 \in 1..Len(create[c].fills) /\ Len(create[c].fills) \in Nat
  BY <1>8 DEF NextIs
<1>11. Paid(c) \in Nat /\ Req(c).qty \in Nat /\ Paid(c) + n <= Req(c).qty
  BY <1>6, <1>8 DEF NextIs
<1>12. /\ Known(m) /\ Known(c) /\ create[c].pc # "new" /\ create[m].pc # "new"
      /\ Req(m).side = Opposite(Req(c).side) /\ Deal(Req(m), Req(c), p)
  BY <1>6, <1>8 DEF NextIs
<1>13. SumOver(Amounts(create[c].fills), 1..(s + 1)) = Paid(c) + n
  BY <1>6, <1>8 DEF NextIs
<1>14. \A my \in DOMAIN uuid : uuid[my] = c => Paid(c) + n <= orders[my].filled
  BY <1>6, <1>8 DEF NextIs
<1>15. \A j \in (s + 2)..Len(create[c].fills) : /\ create[c].fills[j].maker # m
                                                /\ create[c].fills[j].maker # c
  BY <1>6, <1>8 DEF NextIs
<1>16. f \in FillsOf(c)
  BY <1>8 DEF NextIs
<1>17. /\ Req(c).type # "limit" => /\ Req(c).side = "sell"
                                  /\ Available(Req(c).user, Spends(Req(c))) >= tOut
      /\ Moves(Req(m).user, Req(c).user, Spends(Req(m)), Spends(Req(c)), mOut, tOut, Req(c).type)
      /\ \A d \in Calls : create'[d].req = create[d].req /\ (d # c => create'[d] = create[d])
  <2>1. mOut = Cost(Req(f.maker), f.qty, f.price) /\ tOut = Cost(Req(c), f.qty, f.price)
    BY SMTT(30), <1>6, <1>7
  <2>2. /\ Req(c).type # "limit" => /\ Req(c).side = "sell"
                                    /\ Available(Req(c).user, Spends(Req(c))) >= tOut
        /\ Moves(Req(f.maker).user, Req(c).user, Spends(Req(f.maker)), Spends(Req(c)),
                 mOut, tOut, Req(c).type)
        /\ \A d \in Calls : create'[d].req = create[d].req /\ (d # c => create'[d] = create[d])
    BY ZenonT(40), <1>4, <1>5, <2>1, SettleRuns
  <2> QED BY <1>6, <2>2
<1>18. PICK k \in CallRecs :
         /\ create' = [create EXCEPT ![c] = k] /\ create'[c] = k
         /\ k.pc = (IF s + 1 = Len(create[c].fills) THEN "save" ELSE "settle")
         /\ k.req = create[c].req /\ k.fills = create[c].fills /\ k.settled = s + 1
         /\ k.makers = create[c].makers /\ k.dropped = create[c].dropped
         /\ k.rested = create[c].rested /\ k.target = create[c].target /\ k.copy = create[c].copy
  <2>1. mOut = Cost(Req(f.maker), f.qty, f.price) /\ tOut = Cost(Req(c), f.qty, f.price)
    BY <1>6, <1>7
  <2> QED BY <1>4, <1>5, <2>1, SettleRuns
<1>19. k.pc \in {"save", "settle"} /\ k.pc \in After
  BY <1>18 DEF After
<1>20. UNCHANGED <<orders, resting, taker, uuid, rows, cancel>>
  BY <1>1 DEF book
<1>21. \A d \in Calls : Dropping(c, d)' => Dropping(c, d)
  BY <1>18, <1>19 DEF Dropping, At
<1>22. Telling(c)'
  <2>1. ASSUME NEW id \in DOMAIN uuid PROVE Tells(c, id)'
    <3>1. Tells(c, id)
      BY <1>3 DEF Telling
    <3> QED BY <1>1, <1>18, <1>19, <1>20, <3>1
            DEF Tells, TellsOwn, TellsMaker, TellsOther, At, Awaits, Counts, Shows, ShowsAs, Rests
  <2>2. FillsDeal(c)' /\ DropsKnown(c)'
    <3>1. \A i, j \in DOMAIN k.dropped : i # j => k.dropped[i] # k.dropped[j]
      BY <1>3, <1>18 DEF Telling, DropsKnown
    <3> QED BY <1>3, <1>17, <1>18, <1>20, <1>21, <3>1, DealStays, DropsStay DEF Telling
  <2>3. AtTarget(c)'
    <3>1. create'[c].pc \in {"save", "settle"}
      BY <1>18, <1>19
    <3>2. create'[c].pc = "save" => create'[c].settled = Len(create'[c].fills)
      BY <1>18
    <3> QED BY <3>1, <3>2 DEF AtTarget, Applying
  <2> QED BY <1>20, <2>1, <2>2, <2>3 DEF Telling
<1>23. Rowwise'
  BY <1>1, <1>2, <1>18, <1>19, <1>20, <1>22, AfterRows
<1>24. \A d \in Calls : d # c => create'[d].pc \in Ended /\ create'[d].pc \notin Selling \cup Locking
  BY <1>3, <1>17, OthersEnded
<1>25. Paid(c)' = Paid(c) + n
  <2>1. create'[c].fills = create[c].fills /\ create'[c].settled = s + 1
    BY <1>18
  <2> QED BY <1>13, <2>1 DEF Paid
<1>26. SellersFunded'
  <2>1. ASSUME create'[c].pc = "settle", Req(c).type = "market"
        PROVE  Available(Req(c).user, "base")' >= Req(c).qty - (Paid(c) + n)
    <3>1. PICK v, w, a : v = Req(m).user /\ w = Req(c).user /\ a = Spends(Req(m))
      OBVIOUS
    <3>2. /\ v \in Users /\ w \in Users /\ v # w /\ a \in Currencies /\ "base" \in Currencies
          /\ a # "base" /\ Spends(Req(c)) = "base" /\ tOut = n
      <4>1. Req(c) \in NewOrders /\ Req(m) \in NewOrders
        BY <1>9, <1>12, Requested
      <4>2. Req(c).side = "sell"
        BY <1>17, <2>1
      <4> QED BY <1>7, <1>9, <1>12, <3>1, <4>1, <4>2, NewOrderFields DEF Spends, Currencies, Opposite, Deal, Cost
    <3>3. mOut \in Nat /\ tOut \in Nat
      BY <1>7, <1>9, CostType
    <3>4. Moves(v, w, a, "base", mOut, tOut, Req(c).type)
      BY <1>17, <3>1, <3>2
    <3>5. Moved(v, w, a, "base", mOut, tOut, Req(c).type)
      BY <3>2, <3>3, <3>4, WalletsAfter DEF Inv
    <3>6. /\ bal'[w]["base"] = bal[w]["base"] - n /\ locked'[w]["base"] = locked[w]["base"]
          /\ bal[w]["base"] \in Int /\ locked[w]["base"] \in Nat
      BY <2>1, <3>2, <3>5 DEF Moved
    <3>7. bal[w]["base"] - locked[w]["base"] >= Req(c).qty - Paid(c)
      BY <1>1, <2>1, <3>1 DEF Moneywise, SellersFunded, SellerFunded, Available
    <3>8. PICK b, l, q : b = bal[w]["base"] /\ l = locked[w]["base"] /\ q = Paid(c)
      OBVIOUS
    <3>9. (b - n) - l >= Req(c).qty - (q + n)
      BY <1>9, <1>11, <3>6, <3>7, <3>8
    <3>10. create'[c].req = create[c].req
      BY <1>17
    <3> QED BY <3>1, <3>6, <3>8, <3>9, <3>10 DEF Available, Req
  <2>2. SellerFunded(c)'
    <3>1. Req(c)' = Req(c) /\ create'[c].pc \in {"save", "settle"}
      BY <1>17, <1>18, <1>19 DEF Req
    <3> QED BY <1>25, <2>1, <3>1 DEF SellerFunded, Available
  <2>3. ASSUME NEW d \in Calls, d # c PROVE SellerFunded(d)'
    BY <1>24, <2>3 DEF SellerFunded, Selling
  <2> QED BY <2>2, <2>3 DEF SellersFunded
<1>27. PICK due \in [Calls -> Nat] : Due(due) /\ Covered(due)
  BY DEF Moneywise
<1>28. PICK mid \in DOMAIN uuid : uuid[mid] = m
  BY <1>12 DEF Known
<1>29. /\ Remaining(orders[mid]) \in Nat /\ due[m] \in Nat /\ due[c] \in Nat
       /\ due[m] >= n + Remaining(orders[mid])
       /\ Req(c).type = "limit" => due[c] + Paid(c) >= Req(c).qty
  <2>1. Remaining(orders[mid]) \in Nat /\ due[m] \in Nat /\ due[c] \in Nat
    BY <1>9, <1>28, LeftByRow
  <2>2. DueAfter(due, c, mid) /\ DueInCall(due, c)
    BY <1>2, <1>27 DEF Due
  <2>3. due[m] >= n + Remaining(orders[mid])
    <3>1. /\ s + 1 \in (create[c].settled + 1)..Len(create[c].fills)
          /\ create[c].fills[s + 1].maker = uuid[mid] /\ create[c].fills[s + 1].qty = n
      <4>1. s + 1 \in (create[c].settled + 1)..Len(create[c].fills)
        BY <1>4, <1>10
      <4> QED BY <1>5, <1>6, <1>28, <4>1
    <3> QED BY <1>28, <2>2, <3>1 DEF DueAfter
  <2>4. Req(c).type = "limit" => due[c] + Paid(c) >= Req(c).qty
    BY <1>2, <2>2 DEF DueInCall
  <2> QED BY <2>1, <2>3, <2>4
<1>30. Lots(c, n) \in Nat /\ Lots(c, n) <= due[c]
  <2>1. PICK a, b : a = due[c] /\ b = Paid(c)
    OBVIOUS
  <2>2. Req(c).type = "limit" => n <= a
    BY <1>9, <1>11, <1>29, <2>1
  <2> QED BY <1>9, <1>29, <2>1, <2>2 DEF Lots
<1>31. PICK late \in [Calls -> Nat] :
         /\ due[m] = late[m] + n /\ due[c] = late[c] + Lots(c, n)
         /\ \A d \in Calls \ {c, m} : late[d] = due[d]
  <2>1. PICK x \in Nat : due[m] = x + n
    <3>1. due[m] - n \in Nat /\ due[m] = (due[m] - n) + n
      BY <1>9, <1>29
    <3> QED BY <3>1
  <2>2. PICK y \in Nat : due[c] = y + Lots(c, n)
    <3>1. due[c] - Lots(c, n) \in Nat /\ due[c] = (due[c] - Lots(c, n)) + Lots(c, n)
      BY <1>29, <1>30
    <3> QED BY <3>1
  <2>3. PICK g : g = [d \in Calls |-> IF d = m THEN x ELSE IF d = c THEN y ELSE due[d]]
    OBVIOUS
  <2>4. g \in [Calls -> Nat] /\ g[m] = x /\ g[c] = y /\ \A d \in Calls \ {c, m} : g[d] = due[d]
    BY <1>9, <2>3
  <2> QED BY <2>1, <2>2, <2>4
<1>32. late[m] \in Nat /\ late[c] \in Nat /\ late[m] >= Remaining(orders[mid])
  <2>1. PICK a, r : a = late[m] /\ r = Remaining(orders[mid])
    OBVIOUS
  <2>2. a \in Nat /\ r \in Nat /\ a + n >= n + r
    BY <1>9, <1>29, <1>31, <2>1
  <2> QED BY <1>9, <2>1, <2>2
<1>33. Req(c).type = "limit" => late[c] + (Paid(c) + n) >= Req(c).qty
  <2>1. PICK a, b : a = late[c] /\ b = Paid(c)
    OBVIOUS
  <2>2. Req(c).type = "limit" => due[c] = a + n
    BY <1>31, <2>1 DEF Lots
  <2> QED BY <1>9, <1>11, <1>29, <1>32, <2>1, <2>2
<1>34. Covered(late)'
  <2>1. \A d \in Calls : SameAsk(d)
    BY <1>1, <1>17, <1>18, <1>19 DEF SameAsk
  <2>2. Settles(c, m, n, p, mOut, tOut)
    BY <1>7, <1>9, <1>12, <1>17 DEF Settles, Deal
  <2>3. IsPaid(c, m, n, due, late)
    BY <1>31 DEF IsPaid
  <2> QED BY <1>9, <1>27, <2>1, <2>2, <2>3, SettleCovers
<1>35. Due(late)'
  <2>1. ASSUME NEW id \in DOMAIN uuid PROVE DueAtRest(late, id)'
    <3>1. DueAtRest(due, id) /\ uuid[id] \in Calls
      BY <1>3, <1>27 DEF Due
    <3>2. CASE uuid[id] = m
      <4>1. id = mid
        BY <1>3, <1>28, <3>2
      <4> QED BY <1>20, <1>32, <3>2, <4>1 DEF DueAtRest, DueOf
    <3>3. CASE uuid[id] = c /\ Req(c).type = "limit"
      <4>1. /\ Req(c).qty - orders[id].filled = Remaining(orders[id])
            /\ orders[id].filled \in Nat /\ Remaining(orders[id]) \in Nat
        BY <3>3, LeftByRow
      <4>2. Paid(c) + n <= orders[id].filled
        BY <1>14, <3>3
      <4>3. PICK a, b, r : a = late[c] /\ b = Paid(c) /\ r = Remaining(orders[id])
        OBVIOUS
      <4>4. a >= r
        BY <1>9, <1>11, <1>32, <1>33, <3>3, <4>1, <4>2, <4>3
      <4> QED BY <1>20, <3>3, <4>3, <4>4 DEF DueAtRest, DueOf
    <3>4. CASE uuid[id] # m /\ ~ (uuid[id] = c /\ Req(c).type = "limit")
      <4>1. late[uuid[id]] = due[uuid[id]]
        BY <1>29, <1>31, <1>32, <3>1, <3>4 DEF Lots
      <4> QED BY <1>20, <3>1, <4>1 DEF DueAtRest, DueOf
    <3> QED BY <3>2, <3>3, <3>4
  <2>2. ASSUME NEW d \in Calls PROVE DueInCall(late, d)'
    <3>1. CASE d = c
      <4>1. Req(c)' = Req(c)
        BY <1>17 DEF Req
      <4> QED BY <1>25, <1>33, <3>1, <4>1 DEF DueInCall
    <3>2. CASE d # c
      BY <1>24, <3>2 DEF DueInCall, Locking
    <3> QED BY <3>1, <3>2
  <2>3. ASSUME NEW id \in DOMAIN uuid PROVE DueAfter(late, c, id)'
    <3>1. DueAfter(due, c, id) /\ uuid[id] \in Calls
      BY <1>2, <1>3, <1>27 DEF Due
    <3>2. Dropping(c, uuid[id])' => DueOf(late, id)'
      <4>1. SUFFICES ASSUME Dropping(c, uuid[id])' PROVE DueOf(late, id)'
        OBVIOUS
      <4>2. Dropping(c, uuid[id])
        BY <1>20, <1>21, <3>1, <4>1
      <4>3. uuid[id] # c /\ uuid[id] # m
        BY <1>3, <1>6, <1>16, <3>1, <4>2 DEF Telling, DropsKnown
      <4>4. late[uuid[id]] = due[uuid[id]] /\ DueOf(due, id)
        BY <1>31, <3>1, <4>2, <4>3 DEF DueAfter
      <4> QED BY <1>20, <4>4 DEF DueOf
    <3>3. ASSUME NEW i \in (create'[c].settled + 1)..Len(create'[c].fills), create'[c].fills[i].maker = uuid[id]
          PROVE  late[uuid[id]] >= create'[c].fills[i].qty + Remaining(orders[id])
      <4>1. create'[c].fills = create[c].fills /\ create'[c].settled = s + 1
        BY <1>18
      <4>2. i \in (s + 2)..Len(create[c].fills) /\ i \in (s + 1)..Len(create[c].fills)
        BY <1>9, <1>10, <3>3, <4>1
      <4>3. uuid[id] # c /\ uuid[id] # m
        BY <1>15, <3>3, <4>1, <4>2
      <4>4. late[uuid[id]] = due[uuid[id]]
        BY <1>31, <3>1, <4>3
      <4>5. due[uuid[id]] >= create[c].fills[i].qty + Remaining(orders[id])
        BY <1>4, <3>1, <3>3, <4>1, <4>2 DEF DueAfter
      <4> QED BY <4>1, <4>4, <4>5
    <3> QED BY <1>20, <3>2, <3>3 DEF DueAfter
  <2>4. \A d \in Calls : create'[d].pc \in After => d = c
    BY <1>24 DEF Locking
  <2> QED BY <1>3, <1>20, <2>1, <2>2, <2>3, <2>4 DEF Due
<1> QED BY <1>23, <1>26, <1>34, <1>35 DEF Moneywise

-----------------------------------------------------------------------------
\* Every step of calls that run one at a time.

LEMMA CreateStepKeeps ==
  ASSUME Inv, Inv', Rowwise, Moneywise, OneByOne, NEW c \in Calls, CreateSteps(c)
  PROVE  Rowwise' /\ Moneywise'
<1>1. ~ Undo(c)
  BY DEF Undo, Rowwise, Lone
<1>2. CASE Check(c) \/ Lock(c) \/ Insert(c)
  BY <1>2, CheckKeeps, LockKeeps, InsertKeeps
<1>3. CASE Submit(c) \/ Match(c) \/ Matched(c)
  BY <1>3, SubmitKeeps, MatchKeeps, MatchedKeeps
<1>4. CASE Settle(c) \/ SaveTrades(c)
  BY <1>4, SettleKeeps, SaveTradesKeeps
<1>5. CASE ReadMaker(c) \/ WriteMaker(c)
  BY <1>5, ReadMakerKeeps, WriteMakerKeeps
<1>6. CASE ReadDropped(c) \/ WriteDropped(c) \/ UnlockDropped(c)
  BY <1>6, ReadDroppedKeeps, WriteDroppedKeeps, UnlockDroppedKeeps
<1>7. CASE WriteTaker(c)
  BY <1>7, WriteTakerKeeps
<1> QED BY <1>1, <1>2, <1>3, <1>4, <1>5, <1>6, <1>7 DEF CreateSteps

LEMMA NothingMoves ==
  ASSUME Rowwise, Moneywise, UNCHANGED vars
  PROVE  Rowwise' /\ Moneywise'
<1>1. UNCHANGED <<orders, resting, taker, result, uuid, rows, bal, locked, create, cancel, boot>>
  BY DEF vars, book, wallets
<1>2. Lone' /\ Placed'
  BY <1>1 DEF Rowwise, Lone, Active, Cancelling, Placed, PlacedCall, Req, Known, Gone
<1>3. Calm' <=> Calm
  BY <1>1 DEF Calm, Counts, Shows, ShowsAs
<1>4. Matching' <=> Matching
  BY <1>1 DEF Matching, MatchedTrade, Met, Dropped, Counts, Shows, ShowsAs, Rests, Deal
<1>5. ASSUME NEW t \in Calls PROVE Telling(t)' <=> Telling(t)
  <2>1. ASSUME NEW id \in DOMAIN uuid PROVE Tells(t, id)' <=> Tells(t, id)
    BY <1>1 DEF Tells, TellsOwn, TellsMaker, TellsOther, At, Awaits, Counts, Shows, ShowsAs, Rests
  <2>2. (FillsDeal(t)' <=> FillsDeal(t)) /\ (DropsKnown(t)' <=> DropsKnown(t)) /\ (AtTarget(t)' <=> AtTarget(t))
    BY <1>1 DEF FillsDeal, DropsKnown, AtTarget, FillsOf, Deal, Req, Dropping, At, Gone
  <2> QED BY <1>1, <2>1, <2>2 DEF Telling
<1>6. RowsTold'
  BY <1>1, <1>3, <1>4, <1>5 DEF Rowwise, RowsTold
<1>7. SellersFunded'
  BY <1>1 DEF Moneywise, SellersFunded, SellerFunded, Available, Req, Paid
<1>8. PICK due \in [Calls -> Nat] : Due(due) /\ Covered(due)
  BY DEF Moneywise
<1>9. Covered(due)'
  <2>1. \A d \in Calls : SameAsk(d)
    BY <1>1, SameAsks
  <2> QED BY <1>8, <2>1, CoveredStays DEF vars
<1>10. Due(due)'
  BY <1>1, <1>8 DEF Due, DueAtRest, DueOf, DueInCall, DueInMatch, DueAfter, Req, Paid, Dropping, At
<1> QED BY <1>2, <1>6, <1>7, <1>9, <1>10 DEF Rowwise, Moneywise

LEMMA NextKeeps ==
  ASSUME OneByOne, Inv, Inv', OneByOneInv, [Next]_vars
  PROVE  OneByOneInv'
<1>1. SUFFICES ASSUME crashes' = 0 PROVE Rowwise' /\ Moneywise'
  BY DEF OneByOneInv
<1>2. ~ Crash
  <2>1. crashes \in Nat
    BY BoundsAssumption DEF Inv, ServiceTypes
  <2>2. Crash => crashes' = crashes + 1
    BY DEF Crash
  <2> QED BY <1>1, <2>1, <2>2
<1>3. crashes = 0
  <2>1. ASSUME NEW c \in Calls, NEW o \in Inputs, StartCreate(c, o) PROVE crashes' = crashes
    BY <2>1 DEF StartCreate
  <2>2. ASSUME NEW c \in Calls, CreateSteps(c) \/ CreateFails(c) PROVE crashes' = crashes
    <3>1. CASE Check(c) \/ Lock(c) \/ Insert(c) \/ Undo(c) \/ Submit(c) \/ Match(c) \/ Matched(c) \/ CreateFails(c)
      BY ZenonT(40), <3>1 DEF Check, Lock, Insert, Undo, Submit, Match, Matched, CreateFails
    <3>2. CASE \/ Settle(c) \/ SaveTrades(c) \/ ReadMaker(c) \/ WriteMaker(c)
               \/ ReadDropped(c) \/ WriteDropped(c) \/ UnlockDropped(c) \/ WriteTaker(c)
      BY <3>2 DEF Settle, SaveTrades, ReadMaker, WriteMaker, ReadDropped, WriteDropped, UnlockDropped, WriteTaker
    <3> QED BY SMTT(30), <2>2, <3>1, <3>2 DEF CreateSteps
  <2>3. ASSUME NEW c \in Calls, FindForCancel(c) \/ CancelSteps(c) PROVE crashes' = crashes
    BY <2>3 DEF FindForCancel, CancelSteps, EngineCancel, WriteCancel, UnlockCancel
  <2>4. CASE BootSteps
    <3>1. CASE ListOpen \/ CleanClose \/ Serve
      BY <1>1, <3>1 DEF ListOpen, CleanClose, Serve
    <3>2. ASSUME NEW c \in Calls, CleanUnlock(c) PROVE crashes = 0
      BY <1>1, <3>2 DEF CleanUnlock
    <3> QED BY <2>4, <3>1, <3>2 DEF BootSteps
  <2>5. CASE UNCHANGED vars
    BY <1>1, <2>5 DEF vars, book, wallets
  <2> QED BY <1>1, <1>2, <2>1, <2>2, <2>3, <2>4, <2>5 DEF Next
<1>4. Rowwise /\ Moneywise
  BY <1>3 DEF OneByOneInv
<1>5. ~ BootSteps
  BY <1>4 DEF Rowwise, Lone, BootSteps, ListOpen, CleanUnlock, CleanClose, Serve
<1>6. \A c \in Calls : ~ CreateFails(c)
  BY DEF OneByOne, CreateFails
<1>7. ASSUME NEW c \in Calls, NEW o \in Inputs, StartCreate(c, o) PROVE Rowwise' /\ Moneywise'
  BY <1>4, <1>7, StartCreateKeeps
<1>8. ASSUME NEW c \in Calls, CreateSteps(c) PROVE Rowwise' /\ Moneywise'
  BY <1>4, <1>8, CreateStepKeeps
<1>9. ASSUME NEW c \in Calls, FindForCancel(c) \/ CancelSteps(c) PROVE Rowwise' /\ Moneywise'
  BY <1>4, <1>9, FindForCancelKeeps, EngineCancelKeeps, WriteCancelKeeps, UnlockCancelKeeps DEF CancelSteps
<1>10. CASE UNCHANGED vars
  BY <1>4, <1>10, NothingMoves
<1> QED BY <1>2, <1>5, <1>6, <1>7, <1>8, <1>9, <1>10 DEF Next

LEMMA StartsOneByOne ==
  ASSUME Init
  PROVE  OneByOneInv
<1>1. /\ orders = <<>> /\ resting = {} /\ taker = NoOrder /\ uuid = <<>>
      /\ rows = [c \in Calls |-> NoRow]
      /\ bal = [u \in Users |-> [cur \in Currencies |-> Funds]]
      /\ locked = [u \in Users |-> [cur \in Currencies |-> 0]]
      /\ create = [c \in Calls |-> NewCall] /\ cancel = [c \in Calls |-> NewCancel] /\ boot.pc = "up"
  BY SameWords DEF Init, Book!Init
<1>2. \A c \in Calls : create[c].pc = "new" /\ cancel[c].pc = "new" /\ rows[c] = NoRow
  BY <1>1 DEF NewCall, NewCancel
<1>3. DOMAIN uuid = {}
  BY <1>1, EmptySeq
<1>4. Rowwise
  <2>1. Lone
    BY <1>1, <1>2 DEF Lone, Active, Cancelling, CreateEnds
  <2>2. Placed
    BY <1>2 DEF Placed, PlacedCall
  <2>3. RowsTold
    BY <1>1, <1>2, <1>3 DEF RowsTold, Calm, After, Applying
  <2> QED BY <2>1, <2>2, <2>3 DEF Rowwise
<1>5. SellersFunded
  BY <1>2 DEF SellersFunded, SellerFunded
<1>6. PICK due \in [Calls -> Nat] : due = [c \in Calls |-> 0]
  OBVIOUS
<1>7. Due(due)
  BY <1>1, <1>2, <1>3 DEF Due, DueInCall, After, Applying
<1>8. ASSUME NEW u \in Users, NEW cur \in Currencies PROVE CoveredIn(due, u, cur)
  <2>1. PICK f : f = [c \in Calls |-> Share(due, c, u, cur)]
    OBVIOUS
  <2>2. \A c \in Calls : f[c] = 0
    BY <1>2, <2>1 DEF Share
  <2>3. SumOver(f, Calls) = 0 * Cardinality(Calls)
    BY <2>2, CallsFinite, SumConstant
  <2>4. Cardinality(Calls) \in Nat
    BY CallsFinite, FS_CardinalityType
  <2>5. Debt(due, u, cur) = 0
    BY <2>1, <2>3, <2>4 DEF Debt
  <2> QED BY <1>1, <2>5, FundsAssumption DEF CoveredIn
<1> QED BY <1>4, <1>5, <1>7, <1>8 DEF OneByOneInv, Moneywise, Covered

\* What holds while calls run one at a time, step by step.
LEMMA OneByOneHolds ==
  ASSUME OneByOne
  PROVE  Spec => []OneByOneInv
<1>1. Init => OneByOneInv
  BY StartsOneByOne
<1>2. Inv /\ Inv' /\ OneByOneInv /\ [Next]_vars => OneByOneInv'
  BY NextKeeps
<1> QED BY <1>1, <1>2, InvHolds, PTL DEF Spec

\* When no call runs, every order is where its row says.
LEMMA IdleIsCalm ==
  ASSUME Inv, Rowwise, Idle
  PROVE  /\ Calm /\ taker = NoOrder
         /\ \A c \in Calls : create[c].pc \in Ended /\ cancel[c].pc \in {"new", "done"}
<1>1. ASSUME NEW c \in Calls PROVE create[c].pc \in Ended /\ cancel[c].pc \in {"new", "done"}
  <2>1. create[c].pc \in CreatePcs /\ cancel[c].pc \in CancelPcs
    BY PcTypes DEF Inv
  <2> QED BY <2>1 DEF Idle, Rowwise, Lone, Active, Cancelling, CreateEnds, CreatePcs, CancelPcs, Ended
<1>2. taker = NoOrder
  BY <1>1, TakerMatches DEF Ended
<1> QED BY <1>1, <1>2, QuietIsCalm DEF Rowwise

LEMMA IdleMatches ==
  ASSUME Inv, Rowwise
  PROVE  RowsMatchBook
<1>1. SUFFICES ASSUME Idle, NEW c \in Calls, rows[c] # NoRow
               PROVE  /\ rows[c].filled = EngineFilled(c)
                      /\ rows[c].status \in {"pending", "open"} => IsResting(c)
                      /\ rows[c].status = "partially_filled" => (IsResting(c) <=> Req(c).type = "limit")
  BY DEF RowsMatchBook
<1>2. Calm /\ create[c].pc \in Ended /\ cancel[c].pc # "write"
  BY <1>1, IdleIsCalm
<1>3. create[c].pc = "done" /\ Known(c)
  BY <1>1, <1>2 DEF Rowwise, Placed, PlacedCall, Ended, After, Applying
<1>4. PICK id \in DOMAIN uuid : uuid[id] = c
  BY <1>3 DEF Known
<1>5. EngineId(c) = {id}
  BY <1>4 DEF EngineId, Inv, NamesSound
<1>6. orders[id].filled \in Nat /\ orders[id].type = Req(c).type
  BY <1>4, LeftByRow
<1>7. EngineFilled(c) = orders[id].filled
  <2>1. PICK g : g = [i \in DOMAIN uuid |-> orders[i].filled]
    OBVIOUS
  <2>2. g[id] = orders[id].filled /\ g[id] \in Int
    BY <1>4, <1>6, <2>1
  <2>3. SumOver(g, {id}) = g[id]
    BY <2>2, SumOfOne
  <2> QED BY <1>5, <2>1, <2>2, <2>3 DEF EngineFilled, SumOver
<1>8. IsResting(c) <=> id \in resting
  BY <1>5 DEF IsResting
<1>9. Counts(id) /\ Shows(id)
  BY <1>2, <1>4 DEF Calm
<1> QED BY <1>4, <1>6, <1>7, <1>8, <1>9 DEF Counts, Shows, ShowsAs

LEMMA IdleCovers ==
  ASSUME Inv, Rowwise, Moneywise
  PROVE  LocksCoverBook
<1>1. SUFFICES ASSUME Idle, NEW u \in Users, NEW cur \in Currencies
               PROVE  Owes(u, cur) <= locked[u][cur] /\ locked[u][cur] <= bal[u][cur]
  BY DEF LocksCoverBook
<1>2. PICK due \in [Calls -> Nat] : Due(due) /\ Covered(due)
  BY DEF Moneywise
<1>3. PICK S : S = {id \in resting : orders[id].user = u /\ Spends(orders[id]) = cur}
  OBVIOUS
<1>4. S \subseteq DOMAIN uuid /\ S \subseteq resting /\ IsFiniteSet(S)
  <2>1. DOMAIN uuid = 1..Len(orders) /\ resting \subseteq 1..Len(orders) /\ orders \in Seq(Orders)
    BY Names DEF Inv, BookSound
  <2>2. Len(orders) \in Nat
    BY <2>1, LenProperties
  <2>3. IsFiniteSet(1..Len(orders))
    BY <2>2, FS_Interval
  <2>4. S \subseteq resting
    BY <1>3
  <2> QED BY <2>1, <2>3, <2>4, FS_Subset
<1>5. PICK g : g = [id \in DOMAIN uuid |-> Cost(orders[id], Remaining(orders[id]), orders[id].price)]
  OBVIOUS
<1>6. PICK h : h = [c \in Calls |-> Share(due, c, u, cur)]
  OBVIOUS
<1>7. PICK f : f = [c \in Calls |-> IF \E id \in S : uuid[id] = c
                                    THEN g[CHOOSE id \in S : uuid[id] = c] ELSE 0]
  OBVIOUS
<1>8. \A i, j \in DOMAIN uuid : uuid[i] = uuid[j] => i = j
  BY DEF Inv, NamesSound
<1>9. \A id \in DOMAIN uuid : uuid[id] \in Calls
  BY Names DEF Inv
<1>10. ASSUME NEW id \in S
       PROVE  /\ g[id] \in Nat /\ f[uuid[id]] = g[id] /\ g[id] <= h[uuid[id]]
  <2>1. id \in DOMAIN uuid /\ id \in resting /\ uuid[id] \in Calls
    BY <1>4, <1>9
  <2>2. orders[id].user = u /\ Spends(orders[id]) = cur
    BY <1>3
  <2>3. /\ orders[id].user = Req(uuid[id]).user /\ orders[id].side = Req(uuid[id]).side
        /\ orders[id].type = Req(uuid[id]).type /\ orders[id].price = Req(uuid[id]).price
        /\ orders[id].type = "limit"
    BY <2>1 DEF Inv, NamesSound, BookSound
  <2>4. Remaining(orders[id]) \in Nat /\ create[uuid[id]].pc # "new"
    BY <2>1, LeftByRow
  <2>5. Req(uuid[id]).price \in Nat
    BY <2>1, <2>4, Requested, NewOrderFields
  <2>6. due[uuid[id]] \in Nat /\ Remaining(orders[id]) <= due[uuid[id]]
    BY <1>2, <2>1, <2>4 DEF Due, DueAtRest, DueOf
  <2>7. PICK p, r, d : p = Req(uuid[id]).price /\ r = Remaining(orders[id]) /\ d = due[uuid[id]]
    OBVIOUS
  <2>8. Cost(Req(uuid[id]), r, p) \in Nat /\ Cost(Req(uuid[id]), r, p) <= Cost(Req(uuid[id]), d, p)
    BY <2>4, <2>5, <2>6, <2>7, CostSplits
  <2>9. g[id] = Cost(Req(uuid[id]), r, p)
    BY <1>5, <2>1, <2>3, <2>7 DEF Cost
  <2>10. h[uuid[id]] = Cost(Req(uuid[id]), d, p)
    BY <1>6, <2>1, <2>2, <2>3, <2>4, <2>7 DEF Share, Spends
  <2>11. f[uuid[id]] = g[id]
    <3>1. \E i \in S : uuid[i] = uuid[id]
      OBVIOUS
    <3>2. (CHOOSE i \in S : uuid[i] = uuid[id]) = id
      BY <1>4, <1>8
    <3> QED BY <1>7, <2>1, <3>1, <3>2
  <2> QED BY <2>8, <2>9, <2>10, <2>11
<1>11. PICK T : T = {uuid[id] : id \in S}
  OBVIOUS
<1>12. T \subseteq Calls /\ SumOver(g, S) = SumOver(f, T)
  <2>1. \A id \in S : g[id] = f[uuid[id]] /\ g[id] \in Int
    BY <1>10
  <2>2. \A i, j \in S : uuid[i] = uuid[j] => i = j
    BY <1>4, <1>8
  <2>3. SumOver(g, S) = SumOver(f, {uuid[id] : id \in S})
    BY <1>4, <2>1, <2>2, SumOfImage
  <2> QED BY <1>4, <1>9, <1>11, <2>3
<1>13. \A c \in Calls : h[c] \in Nat
  BY <1>6, ShareType
<1>14. SumOver(f, T) <= SumOver(h, T)
  <2>1. ASSUME NEW c \in T PROVE f[c] \in Int /\ h[c] \in Int /\ f[c] <= h[c]
    <3>1. PICK id \in S : uuid[id] = c
      BY <1>11
    <3> QED BY <1>10, <1>12, <1>13, <3>1
  <2>2. IsFiniteSet(T)
    BY <1>12, CallsFinite, FS_Subset
  <2> QED BY <2>1, <2>2, SumBelow
<1>15. SumOver(h, T) <= SumOver(h, Calls)
  BY <1>12, <1>13, CallsFinite, SumMonotone
<1>16. SumOver(f, T) \in Int /\ SumOver(h, T) \in Int /\ SumOver(h, Calls) \in Nat
  <2>1. IsFiniteSet(T)
    BY <1>12, CallsFinite, FS_Subset
  <2>2. ASSUME NEW c \in T PROVE f[c] \in Int /\ h[c] \in Int
    <3>1. PICK id \in S : uuid[id] = c
      BY <1>11
    <3> QED BY <1>10, <1>12, <1>13, <3>1
  <2>3. SumOver(f, T) \in Int /\ SumOver(h, T) \in Int
    BY <2>1, <2>2, SumType
  <2> QED BY <1>13, <2>3, CallsFinite, SumNat
<1>17. Owes(u, cur) = SumOver(g, S)
  BY <1>3, <1>5 DEF Owes, SumOver
<1>18. Debt(due, u, cur) = SumOver(h, Calls)
  BY <1>6 DEF Debt
<1>19. CoveredIn(due, u, cur) /\ locked[u][cur] \in Nat
  BY <1>2 DEF Covered, Inv, ServiceTypes
<1> QED BY <1>12, <1>14, <1>15, <1>16, <1>17, <1>18, <1>19 DEF CoveredIn

\* As long as the server has not crashed, calls run one at a time, database
\* calls succeed and no order comes without a look at its funds, CreateOrder
\* and CancelOrder leave every row as the engine left the order: the quantity
\* it filled, and a status that says whether it rests.
THEOREM RowsAlwaysMatch ==
  ASSUME OneByOne
  PROVE  Spec => [](crashes = 0 => RowsMatchBook)
<1>1. Inv /\ OneByOneInv => (crashes = 0 => RowsMatchBook)
  BY IdleMatches DEF OneByOneInv
<1> QED BY <1>1, InvHolds, OneByOneHolds, PTL

\* Under the same conditions LockBalance, SettleTrade and UnlockBalance leave
\* every user's lock large enough for what the user's resting orders may still
\* have to pay, and never larger than the balance, whatever was matched below
\* its limit, dropped by self-trade prevention, cancelled or sold at market.
THEOREM LocksAlwaysCover ==
  ASSUME OneByOne
  PROVE  Spec => [](crashes = 0 => LocksCoverBook)
<1>1. Inv /\ OneByOneInv => (crashes = 0 => LocksCoverBook)
  BY IdleCovers DEF OneByOneInv
<1> QED BY <1>1, InvHolds, OneByOneHolds, PTL
=============================================================================
