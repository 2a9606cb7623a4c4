--------------------------- MODULE MCOrderExecutor ---------------------------
(***************************************************************************)
(* Instances of OrderExecutor: two instruments of one base currency and    *)
(* three traders.  Ann sells, Bob buys, Cat does both and is nearly broke. *)
(***************************************************************************)
EXTENDS OrderExecutor, TLC

CONSTANTS Ann, Bob, Cat, s1, s2

\* The sessions are alike: nothing but their names tells them apart.
SessionSymmetry == Permutations(Sessions)

MCTraders == {Ann, Bob, Cat}
MCCurrencies == {"EUR", "USD", "GBP"}
MCAssets == {"EURUSD", "EURGBP"}
MCBaseOf == [a \in MCAssets |-> "EUR"]
MCQuotingOf == [a \in MCAssets |-> IF a = "EURUSD" THEN "USD" ELSE "GBP"]

Limit(t, act, v, p, ccy) ==
    [kind |-> "Limit", trader |-> t, asset |-> "EURUSD", action |-> act,
     volume |-> v, price |-> p, ccy |-> ccy]
Market(t, act, v, ccy) ==
    [kind |-> "Market", trader |-> t, asset |-> "EURUSD", action |-> act,
     volume |-> v, price |-> 0, ccy |-> ccy]

OtherAsset(o) == [o EXCEPT !.asset = "EURGBP"]

\* Volumes read against the base currency, where an exchange of v costs v * price, but
\* for one order.  One is for another instrument, one is empty: the hub accepts both.
MCRequests ==
    { << Limit(Ann, "Sell", 2, 1, "EUR") >>, << Limit(Ann, "Sell", 4, 2, "EUR") >>,
      << Limit(Bob, "Buy", 4, 2, "EUR") >>, << Market(Bob, "Buy", 4, "EUR") >>,
      << Market(Ann, "Sell", 2, "USD") >>, << Limit(Ann, "Sell", 0, 2, "EUR") >>,
      << OtherAsset(Limit(Bob, "Buy", 2, 2, "EUR")) >>,
      << Limit(Cat, "Sell", 2, 2, "EUR"), Limit(Cat, "Buy", 2, 1, "EUR") >> }

\* A few of them, for two sessions.
MCFewRequests ==
    { << Limit(Ann, "Sell", 2, 1, "EUR") >>, << Limit(Bob, "Buy", 4, 2, "EUR") >>,
      << Market(Bob, "Buy", 2, "EUR") >> }

\* Enough for some matches but not for all.
MCInitialBalance ==
    [t \in MCTraders |-> [c \in MCCurrencies |->
        CASE t = Ann -> IF c = "USD" THEN 6 ELSE 0
          [] t = Bob -> IF c = "EUR" THEN 8 ELSE 0
          [] t = Cat -> IF c = "EUR" THEN 1 ELSE IF c = "USD" THEN 2 ELSE 0]]

=============================================================================
