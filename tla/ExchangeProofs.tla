--------------------------- MODULE ExchangeProofs ---------------------------
(***************************************************************************)
(* Exchange keeps every trader solvent, for any traders, currencies,       *)
(* instruments, orders and deposits.                                       *)
(*                                                                         *)
(* A match debits two traders one of whose balances was checked against    *)
(* the debit; they are not the same trader, so neither debit spoils the    *)
(* other's check.  Credits are not negative because what a match exchanges *)
(* is not, and that needs NoOverfill: an order that had exchanged more     *)
(* than its volume would be matched for a negative one.                    *)
(***************************************************************************)
EXTENDS Exchange, FiniteSetTheorems, SequenceTheorems, TLAPS

Ledgers == [Traders -> [Currencies -> Int]]

Types ==
    /\ orders \in Seq(TraderOrder)
    /\ book \in [Ids -> Rows(Ids) \cup {NoRow}]
    /\ ledger \in Ledgers

PlacedKnown == \A id \in Placed : id \in 1..Len(orders)

NoOverfill ==
    \A id \in Placed : 0 =< book[id].exchanged /\ book[id].exchanged =< orders[id].volume

SolventInv == Types /\ PlacedKnown /\ NoOverfill /\ Solvent

-----------------------------------------------------------------------------
(* What the arithmetic of a match returns, for every order, volume, price. *)

\* FullVolume of a copy that has not exchanged more than its order's volume is a
\* volume again.
LEMMA OpenVolumeNat ==
    ASSUME NEW o \in TraderOrder, NEW r, r.exchanged \in Int,
           0 =< r.exchanged, r.exchanged =< o.volume
    PROVE  FullVolume(o, r) \in Nat /\ FullVolume(o, r) =< o.volume
<1>1. o.volume \in Nat
  BY DEF TraderOrder, MarketOrder, LimitOrder
<1> QED
  BY <1>1 DEF FullVolume

\* A match exchanges no more than either order has left.
LEMMA ExchangeVolumeBounds ==
    ASSUME NEW x \in Nat, NEW y \in Nat
    PROVE  /\ GetExchangeVolume(x, y) \in Nat
           /\ GetExchangeVolume(x, y) =< x
           /\ GetExchangeVolume(x, y) =< y
  BY DEF GetExchangeVolume

\* The price of a match with a limit order is the price of a limit order.
LEMMA OrderPricePositive ==
    ASSUME NEW o1 \in TraderOrder, NEW o2 \in TraderOrder, o2.kind = "Limit",
           NEW i, NEW j
    PROVE  GetOrderPrice(i, o1, j, o2) \in Nat \ {0}
<1>1. \A o \in TraderOrder : o.kind = "Limit" => o.price \in Nat \ {0}
  BY DEF TraderOrder, MarketOrder, LimitOrder
<1> QED
  BY <1>1 DEF GetOrderPrice

\* What an exchange costs in the base currency is never negative.
LEMMA BaseAmountNat ==
    ASSUME NEW o, NEW v \in Nat, NEW p \in Nat \ {0}
    PROVE  BaseAmount(o, v, p) \in Nat
<1>1. v * p \in Nat
  OBVIOUS
<1>2. v \div p \in Nat
  OBVIOUS
<1> QED
  BY <1>1, <1>2 DEF BaseAmount

\* Only orders of two traders, on the two sides of one instrument, trade.
LEMMA TradersDiffer ==
    ASSUME NEW o, NEW l, CanTrade(o, l)
    PROVE  o # l /\ o.trader # l.trader /\ o.action # l.action /\ l.kind = "Limit"
  BY DEF CanTrade

-----------------------------------------------------------------------------

\* A funded transfer leaves a solvent ledger, and touches only its own trader.
LEMMA TransferSolvent ==
    ASSUME NEW l \in Ledgers, NEW o \in TraderOrder, NEW amount \in Nat,
           CheckIfEnoughBalance(o, amount, l[o.trader]),
           \A t \in Traders, c \in Currencies : l[t][c] >= 0
    PROVE  /\ Transfer(l, o, amount) \in Ledgers
           /\ \A t \in Traders, c \in Currencies : Transfer(l, o, amount)[t][c] >= 0
           /\ \A t \in Traders \ {o.trader} : Transfer(l, o, amount)[t] = l[t]
<1> DEFINE q == QuotingOf[o.asset]
           b == BaseOf[o.asset]
           dq == IF o.action = "Buy" THEN o.volume ELSE -o.volume
           db == IF o.action = "Buy" THEN -amount ELSE amount
           mine == [l[o.trader] EXCEPT ![q] = @ + dq, ![b] = @ + db]
<1>1. /\ o.trader \in Traders /\ o.asset \in Assets /\ o.volume \in Nat
      /\ o.action \in {"Buy", "Sell"}
  BY DEF TraderOrder, MarketOrder, LimitOrder
<1>2. q \in Currencies /\ b \in Currencies /\ q # b
  BY <1>1, InstrumentAssumption
<1>3. dq \in Int /\ db \in Int
  BY <1>1
<1>4. l[o.trader] \in [Currencies -> Int]
  BY <1>1 DEF Ledgers
<1>5. Transfer(l, o, amount) = [l EXCEPT ![o.trader] = mine]
  BY <1>1, <1>2, <1>4 DEF Transfer, Ledgers
<1>6. mine \in [Currencies -> Int]
  BY <1>2, <1>3, <1>4
<1>7. \A c \in Currencies : mine[c] = l[o.trader][c] + (IF c = q THEN dq ELSE IF c = b THEN db ELSE 0)
  BY <1>2, <1>3, <1>4
<1>8. l[o.trader][q] + dq >= 0 /\ l[o.trader][b] + db >= 0
  <2>1. l[o.trader][q] \in Int /\ l[o.trader][b] \in Int /\ l[o.trader][q] >= 0 /\ l[o.trader][b] >= 0
    BY <1>1, <1>2, <1>4
  <2>2. CASE o.action = "Buy"
    BY <2>1, <2>2, <1>1 DEF CheckIfEnoughBalance
  <2>3. CASE o.action # "Buy"
    BY <2>1, <2>3, <1>1 DEF CheckIfEnoughBalance
  <2> QED
    BY <2>2, <2>3
<1>9. \A c \in Currencies : mine[c] >= 0
  BY <1>1, <1>2, <1>4, <1>7, <1>8
<1> HIDE DEF mine
<1> QED
  BY <1>1, <1>5, <1>6, <1>9 DEF Ledgers

\* What a placed pair brings to a match: two orders, two volumes still open.
LEMMA PairFacts ==
    ASSUME SolventInv, NEW i \in Ids, NEW j \in Ids, Pair(i, j)
    PROVE  /\ i # j
           /\ orders[i] \in TraderOrder /\ orders[j] \in TraderOrder
           /\ orders[i].trader # orders[j].trader
           /\ book[i] \in Rows(Ids) /\ book[j] \in Rows(Ids)
           /\ Volume(i, j) \in Nat
           /\ Volume(i, j) =< FullVolume(orders[i], book[i])
           /\ Volume(i, j) =< FullVolume(orders[j], book[j])
           /\ \A k \in {i, j} : Cost(k, i, j) \in Nat
<1>1. CanTrade(orders[i], orders[j]) /\ i \in Placed /\ j \in Placed
  BY DEF Pair
<1>2. i # j /\ orders[i].trader # orders[j].trader /\ orders[j].kind = "Limit"
  BY <1>1, TradersDiffer
<1>3. orders[i] \in TraderOrder /\ orders[j] \in TraderOrder
  BY <1>1 DEF SolventInv, PlacedKnown, Types
<1>4. book[i] \in Rows(Ids) /\ book[j] \in Rows(Ids)
  BY <1>1 DEF SolventInv, Types, Placed
<1>5. \A k \in {i, j} : FullVolume(orders[k], book[k]) \in Nat
  <2>1. SUFFICES ASSUME NEW k \in {i, j} PROVE FullVolume(orders[k], book[k]) \in Nat
    OBVIOUS
  <2>2. book[k].exchanged \in Int /\ 0 =< book[k].exchanged /\ book[k].exchanged =< orders[k].volume
    BY <1>1, <1>4 DEF SolventInv, NoOverfill, Rows
  <2> QED
    BY <1>3, <2>2, OpenVolumeNat
<1>6. /\ Volume(i, j) \in Nat
      /\ Volume(i, j) =< FullVolume(orders[i], book[i])
      /\ Volume(i, j) =< FullVolume(orders[j], book[j])
  BY <1>5, ExchangeVolumeBounds DEF Volume
<1>7. GetOrderPrice(i, orders[i], j, orders[j]) \in Nat \ {0}
  BY <1>2, <1>3, OrderPricePositive
<1>8. \A k \in {i, j} : Cost(k, i, j) \in Nat
  BY <1>6, <1>7, BaseAmountNat DEF Cost
<1> QED
  BY <1>2, <1>3, <1>4, <1>6, <1>8

-----------------------------------------------------------------------------

NonNegative ==
    /\ ExchangeAssumption
    /\ \A t \in Traders, c \in Currencies : InitialBalance[t][c] >= 0
    /\ \A amount \in DepositAmounts : amount >= 0

LEMMA InitSolvent ==
    ASSUME NonNegative, Init
    PROVE  SolventInv
<1>1. Types
  BY DEF ExchangeAssumption, NonNegative, Init, Types, Ledgers
<1>2. Placed = {}
  BY DEF Init, Placed
<1>3. Solvent
  BY DEF Init, Solvent, NonNegative
<1> QED
  BY <1>1, <1>2, <1>3 DEF SolventInv, PlacedKnown, NoOverfill

LEMMA NextSolvent ==
    ASSUME NonNegative, SolventInv, [Next]_vars
    PROVE  SolventInv'
<1> USE DEF SolventInv
<1>1. CASE Identify
  <2>1. PICK o \in Forms : orders' = Append(orders, o)
    BY <1>1 DEF Identify
  <2>2. o \in TraderOrder /\ book' = book /\ ledger' = ledger
    BY <1>1 DEF Identify, ExchangeAssumption, NonNegative
  <2>3. /\ orders' \in Seq(TraderOrder) /\ Len(orders') = Len(orders) + 1 /\ Len(orders) \in Nat
        /\ \A k \in 1..Len(orders) : orders'[k] = orders[k]
    BY <2>1, <2>2 DEF Types
  <2>4. Types' /\ Placed' = Placed
    BY <2>2, <2>3 DEF Types, Placed
  <2>5. PlacedKnown'
    BY <2>3, <2>4 DEF PlacedKnown
  <2>6. NoOverfill'
    BY <2>2, <2>3, <2>4 DEF PlacedKnown, NoOverfill
  <2> QED
    BY <2>2, <2>4, <2>5, <2>6 DEF Solvent
<1>2. ASSUME NEW id \in Ids, Place(id) PROVE SolventInv'
  <2>1. /\ orders' = orders /\ ledger' = ledger /\ id \in 1..Len(orders)
        /\ book' = [book EXCEPT ![id] = Fresh]
    BY <1>2 DEF Place
  <2>2. Fresh \in Rows(Ids) /\ Fresh.exchanged = 0 /\ orders[id].volume \in Nat
    <3>1. orders[id] \in TraderOrder
      BY <2>1 DEF Types
    <3> QED
      BY <3>1 DEF Fresh, Rows, OrderStatus, TraderOrder, MarketOrder, LimitOrder
  <2>3. Types'
    BY <2>1, <2>2 DEF Types
  <2>4. Placed' \subseteq Placed \cup {id}
    BY <2>1 DEF Placed, Types
  <2>5. PlacedKnown' /\ Solvent'
    BY <2>1, <2>4 DEF PlacedKnown, Solvent
  <2>6. NoOverfill'
    BY <2>1, <2>2, <2>4 DEF NoOverfill, Types
  <2> QED
    BY <2>3, <2>5, <2>6
<1>3. ASSUME NEW i \in Ids, NEW j \in Ids, Match(i, j) PROVE SolventInv'
  <2> DEFINE v == Volume(i, j)
             half == Transfer(ledger, orders[i], Cost(i, i, j))
  <2>1. /\ Pair(i, j) /\ orders' = orders
        /\ Funded(i, i, j) /\ Funded(j, i, j)
        /\ book' = [book EXCEPT ![i] = Matched(orders[i], @, v, j),
                                ![j] = Matched(orders[j], @, v, i)]
        /\ ledger' = Transfer(half, orders[j], Cost(j, i, j))
    BY <1>3 DEF Match
  <2>2. /\ i # j
        /\ orders[i] \in TraderOrder /\ orders[j] \in TraderOrder
        /\ orders[i].trader # orders[j].trader
        /\ book[i] \in Rows(Ids) /\ book[j] \in Rows(Ids)
        /\ v \in Nat
        /\ v =< FullVolume(orders[i], book[i])
        /\ v =< FullVolume(orders[j], book[j])
        /\ Cost(i, i, j) \in Nat /\ Cost(j, i, j) \in Nat
    BY <2>1, PairFacts
  <2>3. ASSUME NEW k \in {i, j}, NEW other \in Ids
        PROVE  /\ Matched(orders[k], book[k], v, other) \in Rows(Ids)
               /\ 0 =< Matched(orders[k], book[k], v, other).exchanged
               /\ Matched(orders[k], book[k], v, other).exchanged =< orders[k].volume
    <3> DEFINE x == book[k].exchanged
    <3>1. book[k] \in Rows(Ids) /\ x \in Int /\ book[k].status \in OrderStatus
          /\ book[k].matched \subseteq Ids /\ orders[k].volume \in Nat
      BY <2>2 DEF Rows, TraderOrder, MarketOrder, LimitOrder
    <3>2. 0 =< x /\ k \in Placed
      BY <2>1 DEF Pair, NoOverfill
    <3>3. x + v \in Int /\ 0 =< x + v /\ x + v =< orders[k].volume
      BY <2>2, <3>1, <3>2 DEF FullVolume
    <3> QED
      BY <3>1, <3>3 DEF Matched, Rows, OrderStatus
  <2>4. /\ book'[i] = Matched(orders[i], book[i], v, j)
        /\ book'[j] = Matched(orders[j], book[j], v, i)
        /\ \A k \in Ids \ {i, j} : book'[k] = book[k]
        /\ DOMAIN book' = Ids
    BY <2>1, <2>2 DEF Types
  <2>5. book' \in [Ids -> Rows(Ids) \cup {NoRow}]
    BY <2>1, <2>2, <2>3 DEF Types
  <2>6. /\ half \in Ledgers
        /\ \A t \in Traders, c \in Currencies : half[t][c] >= 0
        /\ \A t \in Traders \ {orders[i].trader} : half[t] = ledger[t]
    BY <2>1, <2>2, TransferSolvent DEF Funded, Types, Solvent
  <2>7. half[orders[j].trader] = ledger[orders[j].trader]
    BY <2>2, <2>6 DEF TraderOrder, MarketOrder, LimitOrder
  <2>8. ledger' \in Ledgers /\ \A t \in Traders, c \in Currencies : ledger'[t][c] >= 0
    <3> HIDE DEF half
    <3> QED
      BY <2>1, <2>2, <2>6, <2>7, TransferSolvent DEF Funded
  <2>9. Placed' \subseteq Placed
    BY <2>1, <2>4 DEF Placed, Pair
  <2>10. Types' /\ PlacedKnown' /\ Solvent'
    BY <2>1, <2>5, <2>8, <2>9 DEF Types, PlacedKnown, Solvent
  <2>11. NoOverfill'
    BY <2>1, <2>3, <2>4, <2>9 DEF NoOverfill, Placed
  <2> QED
    BY <2>10, <2>11
<1>4. ASSUME NEW i \in Ids, NEW j \in Ids, Reject(i, j) PROVE SolventInv'
  <2>1. /\ Pair(i, j) /\ orders' = orders /\ ledger' = ledger
        /\ \E k \in {i, j} : book' = [book EXCEPT ![k].status = "Canceled"]
    BY <1>4 DEF Reject
  <2>2. PICK k \in {i, j} : book' = [book EXCEPT ![k].status = "Canceled"]
    BY <2>1
  <2>3. book[k] \in Rows(Ids) /\ k \in Placed
    BY <2>1 DEF Pair, Placed, Types
  <2>4. /\ book'[k] \in Rows(Ids) /\ book'[k].exchanged = book[k].exchanged
        /\ \A id \in Ids \ {k} : book'[id] = book[id]
        /\ book' \in [Ids -> Rows(Ids) \cup {NoRow}]
    BY <2>2, <2>3 DEF Types, Rows, OrderStatus
  <2>5. Placed' \subseteq Placed
    BY <2>3, <2>4 DEF Placed
  <2> QED
    BY <2>1, <2>3, <2>4, <2>5 DEF Types, PlacedKnown, NoOverfill, Solvent, Placed
<1>5. ASSUME NEW t \in Traders, NEW c \in Currencies, NEW amount \in DepositAmounts,
             Deposit(t, c, amount)
      PROVE  SolventInv'
  <2>1. /\ orders' = orders /\ book' = book /\ amount \in Int /\ amount >= 0
        /\ ledger' = [ledger EXCEPT ![t][c] = @ + amount]
    BY <1>5 DEF Deposit, NonNegative, ExchangeAssumption
  <2>2. ledger' \in Ledgers /\ \A u \in Traders, d \in Currencies : ledger'[u][d] >= 0
    BY <2>1 DEF Types, Ledgers, Solvent
  <2> QED
    BY <2>1, <2>2 DEF Types, PlacedKnown, NoOverfill, Solvent, Placed
<1>6. CASE UNCHANGED vars
  BY <1>6 DEF vars, Types, PlacedKnown, NoOverfill, Solvent, Placed
<1> QED
  BY <1>1, <1>2, <1>3, <1>4, <1>5, <1>6 DEF Next

\* If nobody starts in debt and nobody deposits a negative amount, nobody is ever
\* in debt: the two checks of ExecuteOrders suffice when a match is atomic.
THEOREM ExchangeSolvent == NonNegative => (Spec => []Solvent)
<1> SUFFICES ASSUME NonNegative PROVE Spec => []Solvent
  OBVIOUS
<1>1. Init => SolventInv
  BY InitSolvent
<1>2. SolventInv /\ [Next]_vars => SolventInv'
  BY NextSolvent
<1>3. SolventInv => Solvent
  BY DEF SolventInv
<1> QED
  BY <1>1, <1>2, <1>3, PTL DEF Spec

=============================================================================
