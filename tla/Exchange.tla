------------------------------ MODULE Exchange ------------------------------
(***************************************************************************)
(* What order execution promises, without sessions, copies and tables: a   *)
(* book of orders and a ledger, and matches that change both at once.      *)
(* OrderExecutor with one session implements it.                           *)
(***************************************************************************)
EXTENDS Orders

CONSTANTS
    Forms,           \* orders that may be asked for
    InitialBalance,  \* balances at the start
    DepositAmounts,  \* amounts that may be deposited
    Ids,             \* order ids
    MaxDeposits      \* bound: deposits ever made

\* What the constants have to be.
ExchangeAssumption ==
    /\ Forms \subseteq TraderOrder
    /\ Ids \subseteq Nat /\ MaxDeposits \in Nat
    /\ InitialBalance \in [Traders -> [Currencies -> Int]]
    /\ DepositAmounts \subseteq Int

VARIABLES
    orders,  \* the orders that have an id
    book,    \* what has become of each
    ledger,  \* balances
    deposits \* deposits made so far (counts for MaxDeposits)

vars == << orders, book, ledger, deposits >>

Init ==
    /\ orders = <<>>
    /\ book = [id \in Ids |-> NoRow]
    /\ ledger = InitialBalance
    /\ deposits = 0

\* A request gets an id for an order ...
Identify ==
    /\ Len(orders) + 1 \in Ids
    /\ \E o \in Forms : orders' = Append(orders, o)
    /\ UNCHANGED << book, ledger, deposits >>

\* ... and the order becomes part of the book.
Place(id) ==
    /\ id \in 1..Len(orders) /\ book[id] = NoRow
    /\ book' = [book EXCEPT ![id] = Fresh]
    /\ UNCHANGED << orders, ledger, deposits >>

-----------------------------------------------------------------------------
(* A match of order i with the limit order j resting in the book.          *)

Placed == {id \in Ids : book[id] # NoRow}

Pair(i, j) ==
    /\ i \in Placed /\ j \in Placed
    /\ book[j].status = "Registered"
    /\ CanTrade(orders[i], orders[j])

Volume(i, j) == GetExchangeVolume(FullVolume(orders[i], book[i]), FullVolume(orders[j], book[j]))
Cost(k, i, j) == BaseAmount(orders[k], Volume(i, j), GetOrderPrice(i, orders[i], j, orders[j]))
Funded(k, i, j) == CheckIfEnoughBalance(orders[k], Cost(k, i, j), ledger[orders[k].trader])

\* An order after v more of it was exchanged with the order "other".
Matched(o, r, v, other) ==
    LET x == r.exchanged + v
    IN  [status |-> IF x = o.volume THEN "Done" ELSE r.status,
         exchanged |-> x,
         matched |-> r.matched \cup {other}]

\* The ledger after o has given one currency and taken the other.
Transfer(l, o, amount) ==
    [l EXCEPT ![o.trader][QuotingOf[o.asset]] = @ + (IF o.action = "Buy" THEN o.volume ELSE -o.volume),
              ![o.trader][BaseOf[o.asset]]    = @ + (IF o.action = "Buy" THEN -amount ELSE amount)]

\* Both can pay: both are filled by the volume they have in common, and pay.
Match(i, j) ==
    /\ Pair(i, j) /\ Funded(i, i, j) /\ Funded(j, i, j)
    /\ book' = [book EXCEPT ![i] = Matched(orders[i], @, Volume(i, j), j),
                            ![j] = Matched(orders[j], @, Volume(i, j), i)]
    /\ ledger' = Transfer(Transfer(ledger, orders[i], Cost(i, i, j)), orders[j], Cost(j, i, j))
    /\ UNCHANGED << orders, deposits >>

\* One cannot pay: that order is cancelled, order i first.
Reject(i, j) ==
    /\ Pair(i, j)
    /\ \E k \in {i, j} :
          /\ ~ Funded(k, i, j)
          /\ k = j => Funded(i, i, j)
          /\ book' = [book EXCEPT ![k].status = "Canceled"]
    /\ UNCHANGED << orders, ledger, deposits >>

Deposit(t, c, amount) ==
    /\ deposits < MaxDeposits
    /\ deposits' = deposits + 1
    /\ ledger' = [ledger EXCEPT ![t][c] = @ + amount]
    /\ UNCHANGED << orders, book >>

Next ==
    \/ Identify
    \/ \E id \in Ids : Place(id)
    \/ \E i, j \in Ids : Match(i, j) \/ Reject(i, j)
    \/ \E t \in Traders, c \in Currencies, amount \in DepositAmounts : Deposit(t, c, amount)

Spec == Init /\ [][Next]_vars

-----------------------------------------------------------------------------
(* What follows for the traders.                                           *)

\* No trader ever owes money, whatever the order of matches and deposits.
Solvent == \A t \in Traders, c \in Currencies : ledger[t][c] >= 0

=============================================================================
