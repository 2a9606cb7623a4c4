------------------------------- MODULE Orders -------------------------------
(***************************************************************************)
(* Orders and the arithmetic of one match: the classes of                  *)
(* Core/Orders/IOrdersRepository.cs and the private helpers of             *)
(* LkeServices/Orders/SrvOrdersExecutor.cs.  No variables: OrderExecutor   *)
(* and Exchange build their actions from these operators.                  *)
(*                                                                         *)
(* Money, volumes and prices are integers (units in which the divisions of *)
(* the instances come out exact), so "fulfilled" is equality with 0 where  *)
(* the code compares doubles with a tolerance of 0.001.                    *)
(***************************************************************************)
EXTENDS Integers, Sequences, FiniteSetsExt

CONSTANTS
    Traders,     \* identifiers of registered traders
    Currencies,  \* identifiers of GlobalSettings.Currencies
    Assets,      \* identifiers of GlobalSettings.FinanceInstruments
    BaseOf,      \* Base currency of each instrument
    QuotingOf    \* Quoting currency of each instrument

ASSUME InstrumentAssumption ==
    /\ BaseOf \in [Assets -> Currencies]
    /\ QuotingOf \in [Assets -> Currencies]
    /\ \A a \in Assets : BaseOf[a] # QuotingOf[a]

-----------------------------------------------------------------------------
(* What an order is, and what changes in it.                               *)

OrderStatus == {"Registered", "Done", "Canceled"}

\* The fields no code assigns after the order has its id.  A market order has
\* no price; "ccy" is BaseCurrency, the currency its volume is read against.
MarketOrder == [kind : {"Market"}, trader : Traders, asset : Assets, action : {"Buy", "Sell"},
                volume : Nat, price : {0}, ccy : Currencies]
LimitOrder  == [kind : {"Limit"}, trader : Traders, asset : Assets, action : {"Buy", "Sell"},
                volume : Nat, price : Nat \ {0}, ccy : Currencies]
TraderOrder == MarketOrder \cup LimitOrder

\* What a row (or a copy in memory) of an order carries that can change; the
\* list MatchedOrders is kept as the set of its members.
Fresh  == [status |-> "Registered", exchanged |-> 0, matched |-> {}]
NoRow  == [status |-> "None",       exchanged |-> 0, matched |-> {}]
Rows(ids) == [status : OrderStatus, exchanged : Int, matched : SUBSET ids]

FullVolume(o, r)       == o.volume - r.exchanged
IsOrderFullfiled(o, r) == FullVolume(o, r) = 0

AddExchangingOrder(r, id) == [r EXCEPT !.matched = @ \cup {id}]

-----------------------------------------------------------------------------
(* Who may trade with whom, and in which order.                            *)

\* Faulty variant: limit orders meet at any price.
CanTradeAnyPrice(o, l) ==
    /\ l.kind = "Limit"
    /\ o.asset = l.asset
    /\ o.trader # l.trader
    /\ o.action # l.action

\* The filters of GetRankedOrders and of the pair test of ExecuteLimitOrders: o
\* may be matched with the limit order l of another trader on the other side.
CanTrade(o, l) ==
    /\ l.kind = "Limit"
    /\ o.asset = l.asset
    /\ o.trader # l.trader
    /\ o.action # l.action
    /\ o.kind = "Limit" => IF o.action = "Buy" THEN o.price >= l.price ELSE o.price =< l.price

\* Price p is strictly better than q for the order o that takes it.
BetterPrice(o, p, q) == IF o.action = "Buy" THEN p < q ELSE p > q

-----------------------------------------------------------------------------
(* The arithmetic of one match.                                            *)

\* Faulty variant: the larger of the two open volumes.
GetLargerVolume(full1, full2) == IF full1 > full2 THEN full1 ELSE full2

GetExchangeVolume(full1, full2) == IF full1 > full2 THEN full2 ELSE full1

\* The price of the limit order, of the earlier one when both are limit orders
\* (order2 always is: every caller passes a limit order second).
GetOrderPrice(i, o1, j, o2) ==
    IF o1.kind = "Limit" /\ i < j THEN o1.price ELSE o2.price

\* What an exchange of v at price p costs (or brings) in the base currency.
BaseAmount(o, v, p) == IF o.ccy = BaseOf[o.asset] THEN v * p ELSE v \div p

\* Faulty variant: sellers are not checked.
CheckBuyersOnly(o, amount, bal) == o.action = "Buy" => bal[BaseOf[o.asset]] - amount >= 0

CheckIfEnoughBalance(o, amount, bal) ==
    IF o.action = "Buy" THEN bal[BaseOf[o.asset]] - amount >= 0
                        ELSE bal[QuotingOf[o.asset]] - o.volume >= 0

Posting == [trader : Traders, ccy : Currencies, delta : Int]
Post(t, c, d) == [trader |-> t, ccy |-> c, delta |-> d]

\* Faulty variant: the debit is forgotten.
ChangeBalanceCreditOnly(o, amount) ==
    IF o.action = "Buy"
    THEN << Post(o.trader, QuotingOf[o.asset], o.volume) >>
    ELSE << Post(o.trader, BaseOf[o.asset], amount) >>

\* The two additions, in the code's order.  The quoting leg is the order's whole
\* Volume, however little of it the match exchanges.
ChangeBalance(o, amount) ==
    IF o.action = "Buy"
    THEN << Post(o.trader, QuotingOf[o.asset], o.volume),
            Post(o.trader, BaseOf[o.asset], -amount) >>
    ELSE << Post(o.trader, QuotingOf[o.asset], -o.volume),
            Post(o.trader, BaseOf[o.asset], amount) >>

=============================================================================
