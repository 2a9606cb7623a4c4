---------------------------- MODULE OrderExecutor ----------------------------
(***************************************************************************)
(* Order registration, matching and settlement: SrvOrdersRegistrator,      *)
(* SrvOrdersExecutor and OrdersRepository, composed.  A session is one     *)
(* request of the hub (DoMarketOrder, DoLimitOrder, DoLimitOrder2): it     *)
(* registers its orders, runs one pass of Execute over every Registered    *)
(* order, and ends.  Nothing serialises sessions: SrvOrdersExecutor is a   *)
(* singleton without a lock, so a step here is the code between two awaits *)
(* and sessions interleave at every table operation.                       *)
(*                                                                         *)
(* A table operation (insert, replace under optimistic concurrency,        *)
(* delete, insert-or-replace, read of a partition) is one atomic step.     *)
(* Order ids are the positions in "orders", starting from 1.               *)
(***************************************************************************)
EXTENDS Orders

CONSTANTS
    Sessions,        \* requests that may be served at the same time
    Requests,        \* what a request asks: a sequence of one order, or of a linked pair
    InitialBalance,  \* balances at the start, by trader and currency
    DepositAmounts,  \* amounts MockDeposit is called with
    MaxOrders,       \* bound: orders ever submitted
    MaxDeposits,     \* bound: deposits ever made
    MaxFaults        \* bound: sessions ever cut short by a crash or an exception

ASSUME ExecutorAssumption ==
    /\ Requests \subseteq (Seq(TraderOrder) \ {<<>>})
    /\ InitialBalance \in [Traders -> [Currencies -> Int]]
    /\ DepositAmounts \subseteq Int
    /\ MaxOrders \in Nat /\ MaxDeposits \in Nat /\ MaxFaults \in Nat

Ids == 1..MaxOrders

VARIABLES
    orders,     \* the orders that have an id: their unchanging fields
    statusRow,  \* rows of the status partitions, by status and id
    traderRow,  \* rows of the trader partitions, by id (the id fixes the trader)
    balance,    \* rows of the balance table, by trader and currency
    submitted,  \* orders submitted so far      (counts for MaxOrders)
    deposits,   \* deposits made so far         (counts for MaxDeposits)
    faults,     \* sessions cut short so far    (counts for MaxFaults)
    pc,         \* where each session is
    draft,      \* its orders that have no id yet
    regs,       \* its ids still to be inserted
    mem,        \* its copies of the orders it loaded
    phase,      \* "market" or "limit": the half of the pass it is in
    queue,      \* orders of the outer loop still to visit
    todo,       \* orders of the inner loop still to visit
    taker,      \* order1 of the match under way
    maker,      \* order2 of the match under way
    upd,        \* ids whose UpdateOrderAsync is under way or still to come
    old,        \* oldStatus of the UpdateOrderAsync under way
    settle      \* additions to balances still to be made

store    == << orders, statusRow, traderRow, balance >>
counters == << submitted, deposits, faults >>
loops    == << mem, phase, queue, todo, taker, maker >>
posting  == << upd, old, settle >>
vars == << store, counters, pc, draft, regs, loops, posting >>

Blank == [id \in Ids |-> NoRow]

Init ==
    /\ orders = <<>>
    /\ statusRow = [st \in OrderStatus |-> Blank]
    /\ traderRow = Blank
    /\ balance = InitialBalance
    /\ submitted = 0 /\ deposits = 0 /\ faults = 0
    /\ pc = [s \in Sessions |-> "idle"]
    /\ draft = [s \in Sessions |-> <<>>]
    /\ regs = [s \in Sessions |-> <<>>]
    /\ mem = [s \in Sessions |-> Blank]
    /\ phase = [s \in Sessions |-> "market"]
    /\ queue = [s \in Sessions |-> {}]
    /\ todo = [s \in Sessions |-> {}]
    /\ taker = [s \in Sessions |-> 0]
    /\ maker = [s \in Sessions |-> 0]
    /\ upd = [s \in Sessions |-> <<>>]
    /\ old = [s \in Sessions |-> "Registered"]
    /\ settle = [s \in Sessions |-> <<>>]

-----------------------------------------------------------------------------
(* Registration: SrvOrdersRegistrator and RegisterOrderAsync.              *)

\* A request of the hub reaches RegisterTradeOrderAsync or
\* RegisterLinkedLimitOrders.  (The link itself is stored and never read.)
Submit(s, req) ==
    /\ pc[s] = "idle"
    /\ submitted + Len(req) =< MaxOrders
    /\ submitted' = submitted + Len(req)
    /\ draft' = [draft EXCEPT ![s] = req]
    /\ pc' = [pc EXCEPT ![s] = "identify"]
    /\ UNCHANGED << store, deposits, faults, regs, loops, posting >>

\* HandleCommonStuff, once for each order of the request.
GenerateId(s) ==
    /\ pc[s] = "identify"
    /\ Len(orders) < MaxOrders    \* always so: Submit has counted this order
    /\ orders' = Append(orders, Head(draft[s]))
    /\ draft' = [draft EXCEPT ![s] = Tail(@)]
    /\ regs' = [regs EXCEPT ![s] = Append(@, Len(orders) + 1)]
    /\ pc' = [pc EXCEPT ![s] = IF Len(draft[s]) = 1 THEN "insertStatus" ELSE "identify"]
    /\ UNCHANGED << statusRow, traderRow, balance, counters, loops, posting >>

\* RegisterOrderAsync, first insert: the status partition.
RegisterStatus(s) ==
    /\ pc[s] = "insertStatus"
    /\ statusRow' = [statusRow EXCEPT !["Registered"][Head(regs[s])] = Fresh]
    /\ pc' = [pc EXCEPT ![s] = "insertTrader"]
    /\ UNCHANGED << orders, traderRow, balance, counters, draft, regs, loops, posting >>

\* RegisterOrderAsync, second insert: the trader partition.
RegisterTrader(s) ==
    /\ pc[s] = "insertTrader"
    /\ traderRow' = [traderRow EXCEPT ![Head(regs[s])] = Fresh]
    /\ regs' = [regs EXCEPT ![s] = Tail(@)]
    /\ pc' = [pc EXCEPT ![s] = IF Len(regs[s]) = 1 THEN "load" ELSE "insertStatus"]
    /\ UNCHANGED << orders, statusRow, balance, counters, draft, loops, posting >>

-----------------------------------------------------------------------------
(* The pass: Execute, ExecuteMarketOrders and ExecuteLimitOrders.          *)

Loaded(s) == {id \in Ids : mem[s][id] # NoRow}

\* The limit orders OrderList still holds: every reading of the lists comes after
\* CleanUpFullfiledLimitOrders has removed those no longer Registered.
Live(s) == {id \in Loaded(s) : orders[id].kind = "Limit" /\ mem[s][id].status = "Registered"}

\* Faulty variant: every other limit order will do.
PartnersUnfiltered(s, id) == Live(s) \ {id}

Partners(s, id) == {l \in Live(s) : CanTrade(orders[id], orders[l])}

\* The loops visit orders by id.
Earliest(m, ids) == \A k \in ids : m =< k

\* GetOrdersByStatusAsync(Registered) and SeparateOrders.
Load(s) ==
    /\ pc[s] = "load"
    /\ mem' = [mem EXCEPT ![s] = statusRow["Registered"]]
    /\ queue' = [queue EXCEPT ![s] = {id \in Ids : /\ statusRow["Registered"][id] # NoRow
                                                   /\ orders[id].kind = "Market"}]
    /\ phase' = [phase EXCEPT ![s] = "market"]
    /\ pc' = [pc EXCEPT ![s] = "next"]
    /\ UNCHANGED << store, counters, draft, regs, todo, taker, maker, posting >>

\* The while loop around a market order: leave the order when it is fulfilled or
\* nothing is left to match it with, otherwise rank what there is and try it all.
\* The order's own status is not looked at.
NextMarket(s) ==
    /\ pc[s] = "next" /\ phase[s] = "market" /\ todo[s] = {} /\ queue[s] # {}
    /\ \E m \in queue[s] :
          /\ Earliest(m, queue[s])
          /\ IF IsOrderFullfiled(orders[m], mem[s][m]) \/ Partners(s, m) = {}
             THEN /\ queue' = [queue EXCEPT ![s] = @ \ {m}]
                  /\ UNCHANGED << todo, taker >>
             ELSE /\ todo' = [todo EXCEPT ![s] = Partners(s, m)]
                  /\ taker' = [taker EXCEPT ![s] = m]
                  /\ UNCHANGED queue
    /\ UNCHANGED << store, counters, pc, draft, regs, mem, phase, maker, posting >>

\* ExecuteLimitOrders begins: its outer loop runs over the buy orders of now.
BeginLimits(s) ==
    /\ pc[s] = "next" /\ phase[s] = "market" /\ todo[s] = {} /\ queue[s] = {}
    /\ phase' = [phase EXCEPT ![s] = "limit"]
    /\ queue' = [queue EXCEPT ![s] = {b \in Live(s) : orders[b].action = "Buy"}]
    /\ UNCHANGED << store, counters, pc, draft, regs, mem, todo, taker, maker, posting >>

\* Faulty variant: the inner loop stops after its first match.
NextBuyBreaks(s) ==
    /\ pc[s] = "next" /\ phase[s] = "limit" /\ todo[s] = {} /\ queue[s] # {}
    /\ \E b \in queue[s] :
          /\ Earliest(b, queue[s])
          /\ queue' = [queue EXCEPT ![s] = @ \ {b}]
          /\ todo' = [todo EXCEPT ![s] = {l \in Partners(s, b) : Earliest(l, Partners(s, b))}]
          /\ taker' = [taker EXCEPT ![s] = b]
    /\ UNCHANGED << store, counters, pc, draft, regs, mem, phase, maker, posting >>

\* Faulty variant: the outer loop goes on while the book has a buy order.
NextBuyRepeats(s) ==
    /\ pc[s] = "next" /\ phase[s] = "limit" /\ todo[s] = {} /\ queue[s] # {}
    /\ \E b \in queue[s] :
          /\ todo' = [todo EXCEPT ![s] = Partners(s, b)]
          /\ taker' = [taker EXCEPT ![s] = b]
    /\ UNCHANGED << store, counters, pc, draft, regs, mem, phase, queue, maker, posting >>

\* The next buy order, and the sell orders of now that cross it.
NextBuy(s) ==
    /\ pc[s] = "next" /\ phase[s] = "limit" /\ todo[s] = {} /\ queue[s] # {}
    /\ \E b \in queue[s] :
          /\ Earliest(b, queue[s])
          /\ queue' = [queue EXCEPT ![s] = @ \ {b}]
          /\ todo' = [todo EXCEPT ![s] = Partners(s, b)]
          /\ taker' = [taker EXCEPT ![s] = b]
    /\ UNCHANGED << store, counters, pc, draft, regs, mem, phase, maker, posting >>

\* Faulty variant: market orders take limit orders by id as well.
FirstById(s, l) == Earliest(l, todo[s])

\* The inner loop takes the best price for a market order (orders of one price in
\* any order) and the smallest id for a limit order.
First(s, l) ==
    IF phase[s] = "market"
    THEN \A k \in todo[s] : ~ BetterPrice(orders[taker[s]], orders[k].price, orders[l].price)
    ELSE Earliest(l, todo[s])

Pick(s) ==
    /\ pc[s] = "next"
    /\ \E l \in todo[s] :
          /\ First(s, l)
          /\ maker' = [maker EXCEPT ![s] = l]
          /\ todo' = [todo EXCEPT ![s] = @ \ {l}]
    /\ pc' = [pc EXCEPT ![s] = "check1"]
    /\ UNCHANGED << store, counters, draft, regs, mem, phase, queue, taker, posting >>

\* RefreshOrderBooks only reads the tables; the request then returns.  Its locals
\* are gone, as they are when it is cut short.
Forget(s) ==
    /\ pc' = [pc EXCEPT ![s] = "idle"]
    /\ draft' = [draft EXCEPT ![s] = <<>>]
    /\ regs' = [regs EXCEPT ![s] = <<>>]
    /\ mem' = [mem EXCEPT ![s] = Blank]
    /\ phase' = [phase EXCEPT ![s] = "market"]
    /\ queue' = [queue EXCEPT ![s] = {}]
    /\ todo' = [todo EXCEPT ![s] = {}]
    /\ taker' = [taker EXCEPT ![s] = 0]
    /\ maker' = [maker EXCEPT ![s] = 0]
    /\ upd' = [upd EXCEPT ![s] = <<>>]
    /\ old' = [old EXCEPT ![s] = "Registered"]
    /\ settle' = [settle EXCEPT ![s] = <<>>]
    /\ UNCHANGED store

EndPass(s) ==
    /\ pc[s] = "next" /\ phase[s] = "limit" /\ todo[s] = {} /\ queue[s] = {}
    /\ Forget(s)
    /\ UNCHANGED counters

-----------------------------------------------------------------------------
(* One match: ExecuteOrders.                                               *)

ExchangeVolume(s) ==
    GetExchangeVolume(FullVolume(orders[taker[s]], mem[s][taker[s]]),
                      FullVolume(orders[maker[s]], mem[s][maker[s]]))

ExchangePrice(s) == GetOrderPrice(taker[s], orders[taker[s]], maker[s], orders[maker[s]])

\* marketOrderExchangeVolume and limitOrderExchangeVolume.
Amount(s, id) == BaseAmount(orders[id], ExchangeVolume(s), ExchangePrice(s))

Affordable(s, id) ==
    CheckIfEnoughBalance(orders[id], Amount(s, id), balance[orders[id].trader])

\* The order is cancelled for lack of funds, in memory and then by UpdateOrderAsync.
Cancel(s, id) ==
    /\ mem' = [mem EXCEPT ![s][id].status = "Canceled"]
    /\ upd' = [upd EXCEPT ![s] = << id >>]
    /\ pc' = [pc EXCEPT ![s] = "replace"]
    /\ UNCHANGED settle

\* The check of order1: a read of its trader's balances.
CheckTaker(s) ==
    /\ pc[s] = "check1"
    /\ IF Affordable(s, taker[s])
       THEN /\ pc' = [pc EXCEPT ![s] = "check2"]
            /\ UNCHANGED << mem, upd, settle >>
       ELSE Cancel(s, taker[s])
    /\ UNCHANGED << store, counters, draft, regs, phase, queue, todo, taker, maker, old >>

\* A copy after v more of it was exchanged with order "other".
Exchange1(o, r, v, other) ==
    LET r1 == AddExchangingOrder([r EXCEPT !.exchanged = @ + v], other)
    IN  IF IsOrderFullfiled(o, r1) THEN [r1 EXCEPT !.status = "Done"] ELSE r1

\* The check of order2 and, when it passes, the match: both copies change and
\* what is to be written is fixed.  (The code sets order2's Done after writing
\* order1; nobody else sees the copy.)
CheckMaker(s) ==
    /\ pc[s] = "check2"
    /\ IF Affordable(s, maker[s])
       THEN LET t == taker[s]
                m == maker[s]
                v == ExchangeVolume(s)
            IN  /\ mem' = [mem EXCEPT ![s][t] = Exchange1(orders[t], @, v, m),
                                      ![s][m] = Exchange1(orders[m], @, v, t)]
                /\ upd' = [upd EXCEPT ![s] = << t, m >>]
                /\ settle' = [settle EXCEPT ![s] = ChangeBalance(orders[t], Amount(s, t))
                                                   \o ChangeBalance(orders[m], Amount(s, m))]
                /\ pc' = [pc EXCEPT ![s] = "replace"]
       ELSE Cancel(s, maker[s])
    /\ UNCHANGED << store, counters, draft, regs, phase, queue, todo, taker, maker, old >>

-----------------------------------------------------------------------------
(* OrdersRepository.UpdateOrderAsync: the trader partition first, then one *)
(* status partition or two.                                                *)

\* Faulty variant: only the first of two orders is written.
UpdatedOnce(s) ==
    /\ upd' = [upd EXCEPT ![s] = Tail(@)]
    /\ pc' = [pc EXCEPT ![s] = IF settle[s] # <<>> THEN "settle" ELSE "next"]

\* Faulty variant: one update too many.
UpdatedOnceMore(s) ==
    /\ upd' = [upd EXCEPT ![s] = Tail(@)]
    /\ pc' = [pc EXCEPT ![s] = IF Len(upd[s]) >= 1 THEN "replace"
                               ELSE IF settle[s] # <<>> THEN "settle" ELSE "next"]

\* What comes after an UpdateOrderAsync: the next one, the balances, the next match.
Updated(s) ==
    /\ upd' = [upd EXCEPT ![s] = Tail(@)]
    /\ pc' = [pc EXCEPT ![s] = IF Len(upd[s]) > 1 THEN "replace"
                               ELSE IF settle[s] # <<>> THEN "settle" ELSE "next"]

\* ReplaceAsync of the trader's row, if it is there; oldStatus is its status, or
\* Registered when it is not.
UpdateReplace(s) ==
    /\ pc[s] = "replace"
    /\ LET id  == Head(upd[s])
           was == IF traderRow[id] = NoRow THEN "Registered" ELSE traderRow[id].status
       IN  /\ traderRow' = IF traderRow[id] = NoRow
                           THEN traderRow ELSE [traderRow EXCEPT ![id] = mem[s][id]]
           /\ old' = [old EXCEPT ![s] = was]
           /\ pc' = [pc EXCEPT ![s] = IF was = mem[s][id].status THEN "same" ELSE "delete"]
    /\ UNCHANGED << orders, statusRow, balance, counters, draft, regs, loops, upd, settle >>

\* Same status: ReplaceAsync of the status row, if it is there.
UpdateSame(s) ==
    /\ pc[s] = "same"
    /\ LET id == Head(upd[s])
       IN  statusRow' = IF statusRow[old[s]][id] = NoRow
                        THEN statusRow ELSE [statusRow EXCEPT ![old[s]][id] = mem[s][id]]
    /\ Updated(s)
    /\ UNCHANGED << orders, traderRow, balance, counters, draft, regs, loops, old, settle >>

\* Faulty variant: the row stays in the old partition.
UpdateDeleteNothing(s) ==
    /\ pc[s] = "delete"
    /\ pc' = [pc EXCEPT ![s] = "insert"]
    /\ UNCHANGED << store, counters, draft, regs, loops, posting >>

\* New status: the row leaves the old partition ...
UpdateDelete(s) ==
    /\ pc[s] = "delete"
    /\ statusRow' = [statusRow EXCEPT ![old[s]][Head(upd[s])] = NoRow]
    /\ pc' = [pc EXCEPT ![s] = "insert"]
    /\ UNCHANGED << orders, traderRow, balance, counters, draft, regs, loops, posting >>

\* Faulty variant: the new partition's row is replaced, if it is there.
UpdateInsertReplaces(s) ==
    /\ pc[s] = "insert"
    /\ LET id == Head(upd[s])
           st == mem[s][id].status
       IN  statusRow' = IF statusRow[st][id] = NoRow
                        THEN statusRow ELSE [statusRow EXCEPT ![st][id] = mem[s][id]]
    /\ Updated(s)
    /\ UNCHANGED << orders, traderRow, balance, counters, draft, regs, loops, old, settle >>

\* ... and enters the new one.
UpdateInsert(s) ==
    /\ pc[s] = "insert"
    /\ LET id == Head(upd[s])
       IN  statusRow' = [statusRow EXCEPT ![mem[s][id].status][id] = mem[s][id]]
    /\ Updated(s)
    /\ UNCHANGED << orders, traderRow, balance, counters, draft, regs, loops, old, settle >>

-----------------------------------------------------------------------------
(* Balances, and what may go wrong.                                        *)

\* One SrvBalanceAccess.ChangeBalance of the four a match makes.
Settle(s) ==
    /\ pc[s] = "settle"
    /\ LET p == Head(settle[s])
       IN  balance' = [balance EXCEPT ![p.trader][p.ccy] = @ + p.delta]
    /\ settle' = [settle EXCEPT ![s] = Tail(@)]
    /\ pc' = [pc EXCEPT ![s] = IF Len(settle[s]) = 1 THEN "next" ELSE "settle"]
    /\ UNCHANGED << orders, statusRow, traderRow, counters, draft, regs, loops, upd, old >>

\* MockDepositsController.MockDeposit.
Deposit(t, c, amount) ==
    /\ deposits < MaxDeposits
    /\ deposits' = deposits + 1
    /\ balance' = [balance EXCEPT ![t][c] = @ + amount]
    /\ UNCHANGED << orders, statusRow, traderRow, submitted, faults, pc, draft, regs, loops, posting >>

\* The process stops, or a table operation throws and the hub method catches it:
\* what the session has not written is lost, what it has written stays.
Fail(s) ==
    /\ pc[s] # "idle"
    /\ faults < MaxFaults
    /\ faults' = faults + 1
    /\ Forget(s)
    /\ UNCHANGED << submitted, deposits >>

\* The steps a running session takes by itself.
Step(s) ==
    \/ GenerateId(s) \/ RegisterStatus(s) \/ RegisterTrader(s)
    \/ Load(s) \/ NextMarket(s) \/ BeginLimits(s) \/ NextBuy(s) \/ Pick(s) \/ EndPass(s)
    \/ CheckTaker(s) \/ CheckMaker(s)
    \/ UpdateReplace(s) \/ UpdateSame(s) \/ UpdateDelete(s) \/ UpdateInsert(s)
    \/ Settle(s)

\* The server has nothing to do but wait for requests.
Wait == (\A s \in Sessions : pc[s] = "idle") /\ UNCHANGED vars

Next ==
    \/ Wait
    \/ \E s \in Sessions : Step(s) \/ Fail(s) \/ \E req \in Requests : Submit(s, req)
    \/ \E t \in Traders, c \in Currencies, amount \in DepositAmounts : Deposit(t, c, amount)

Spec == Init /\ [][Next]_vars

\* The scheduler keeps running every request it has accepted.
FairSpec == Spec /\ \A s \in Sessions : WF_vars(Step(s))

-----------------------------------------------------------------------------
(* Types.                                                                  *)

Row == Rows(Ids) \cup {NoRow}
PC == {"idle", "identify", "insertStatus", "insertTrader", "load", "next", "check1", "check2",
       "replace", "same", "delete", "insert", "settle"}
Matching == {"check1", "check2"}
Updating == {"replace", "same", "delete", "insert"}
Pass == {"next", "settle"} \cup Matching \cup Updating

Known == 1..Len(orders)

Types ==
    /\ orders \in Seq(TraderOrder) /\ Len(orders) =< MaxOrders
    /\ statusRow \in [OrderStatus -> [Ids -> Row]]
    /\ traderRow \in [Ids -> Row]
    /\ balance \in [Traders -> [Currencies -> Int]]
    /\ submitted \in 0..MaxOrders /\ deposits \in 0..MaxDeposits /\ faults \in 0..MaxFaults
    /\ pc \in [Sessions -> PC]
    /\ draft \in [Sessions -> Seq(TraderOrder)]
    /\ regs \in [Sessions -> Seq(Ids)]
    /\ mem \in [Sessions -> [Ids -> Row]]
    /\ phase \in [Sessions -> {"market", "limit"}]
    /\ queue \in [Sessions -> SUBSET Ids]
    /\ todo \in [Sessions -> SUBSET Ids]
    /\ taker \in [Sessions -> Ids \cup {0}]
    /\ maker \in [Sessions -> Ids \cup {0}]
    /\ upd \in [Sessions -> Seq(Ids)]
    /\ old \in [Sessions -> OrderStatus]
    /\ settle \in [Sessions -> Seq(Posting)]

\* What a session finds when it takes its next step.
Ready(s) ==
    /\ pc[s] = "identify" => draft[s] # <<>>
    /\ pc[s] \in {"insertStatus", "insertTrader"} => regs[s] # <<>>
    /\ pc[s] \notin Pass => todo[s] = {}
    /\ pc[s] \in Pass =>
          /\ queue[s] \cup todo[s] \subseteq Loaded(s)
          /\ todo[s] # {} => taker[s] \in Loaded(s)
          /\ \A l \in todo[s] : CanTrade(orders[taker[s]], orders[l])
    /\ pc[s] \in Matching =>
          /\ taker[s] \in Loaded(s) /\ maker[s] \in Loaded(s)
          /\ CanTrade(orders[taker[s]], orders[maker[s]])
    /\ pc[s] \in Updating => upd[s] # <<>> /\ \A k \in 1..Len(upd[s]) : upd[s][k] \in Loaded(s)
    /\ pc[s] = "settle" => settle[s] # <<>>

\* No table, copy or list mentions an order before it has its id.
OnlyKnown ==
    /\ \A id \in Ids \ Known :
          /\ traderRow[id] = NoRow
          /\ \A st \in OrderStatus : statusRow[st][id] = NoRow
          /\ \A s \in Sessions : mem[s][id] = NoRow
    /\ \A s \in Sessions : \A k \in 1..Len(regs[s]) : regs[s][k] \in Known

\* Every variable has its type, and at every point of a session the locals it is
\* about to use are there: no step reads the head of an empty list, a copy that
\* was not loaded, or an order that has no id; and a match under way is between
\* two orders that may trade.
TypeOK == Types /\ OnlyKnown /\ \A s \in Sessions : Ready(s)

-----------------------------------------------------------------------------
(* Safety, for any number of sessions.                                     *)

\* What tables and sessions hold of an order.
Copies(id) == {traderRow[id]} \cup {statusRow[st][id] : st \in OrderStatus}
                              \cup {mem[s][id] : s \in Sessions}

\* The first insert of RegisterOrderAsync has been made.
Registered(id) ==
    \/ traderRow[id] # NoRow
    \/ \E s \in Sessions : pc[s] = "insertTrader" /\ Head(regs[s]) = id

\* Some status partition has the order; or a session has deleted it from one and is
\* on its way to inserting it into another.
Listed(id)    == \E st \in OrderStatus : statusRow[st][id] # NoRow
InTransit(id) == \E s \in Sessions : pc[s] = "insert" /\ Head(upd[s]) = id

\* Moving an order between status partitions (a delete, then an insert-or-replace,
\* by any number of sessions at once, each trusting the oldStatus it has read)
\* never leaves a registered order in no partition at all but in transit.  A crash
\* then does lose it, hence the condition.
NoOrderLost ==
    faults = 0 => \A id \in Known : Registered(id) => Listed(id) \/ InTransit(id)

\* However stale the copies sessions match on, an order is only ever matched with
\* orders it may trade with: another trader's, for the same instrument, on the
\* other side, and, between limit orders, at prices that cross.
TradesLegal ==
    \A id \in Known : \A r \in Copies(id) : \A k \in r.matched :
        /\ k \in Known
        /\ CanTrade(orders[id], orders[k]) \/ CanTrade(orders[k], orders[id])

\* No copy of an order, stale or not, has exchanged more than the order's volume,
\* and a copy that is Done has exchanged all of it.
NoOverfill ==
    \A id \in Known : \A r \in Copies(id) :
        /\ 0 =< r.exchanged /\ r.exchanged =< orders[id].volume
        /\ r.status = "Done" => r.exchanged = orders[id].volume

\* What a list of postings adds to one balance.
Owed(q, t, c) ==
    SumFunctionOnSet([k \in DOMAIN q |-> q[k].delta],
                     {k \in DOMAIN q : q[k].trader = t /\ q[k].ccy = c})

\* A trader's balance as it will be when the settlements under way are done.
LedgerOf(t, c) == balance[t][c] + SumFunction([s \in Sessions |-> Owed(settle[s], t, c)])

Total(c) == SumFunction([t \in Traders |-> LedgerOf(t, c)])

\* The volumes of two orders are read against the same currency.
ReadAlike(o, l) == (o.ccy = BaseOf[o.asset]) <=> (l.ccy = BaseOf[l.asset])

\* A match begins to be settled: its postings are fixed.
Matches(s) == pc[s] = "check2" /\ settle'[s] # <<>>

\* Settlements under way included, matching creates and destroys no money, with two
\* exceptions.  A match of two orders of different volumes moves the whole Volume of
\* each in the quoting currency, however little is exchanged; and the same exchange
\* costs one side v * p and the other v / p in the base currency when their volumes are
\* read against different currencies.  Otherwise only a deposit, or a session cut short,
\* changes the sum over all traders.
MoneyConserved ==
    [][ \/ deposits' # deposits \/ faults' # faults
        \/ \A c \in Currencies :
              \/ Total(c)' = Total(c)
              \/ \E s \in Sessions :
                    /\ Matches(s)
                    /\ LET o == orders[taker[s]]
                           l == orders[maker[s]]
                       IN  \/ c = QuotingOf[o.asset] /\ o.volume # l.volume
                           \/ c = BaseOf[o.asset] /\ ~ ReadAlike(o, l) ]_vars

\* CheckIfEnoughBalance, whatever it is asked, keeps every balance at 0 or more.
NoOverdraft == \A t \in Traders, c \in Currencies : balance[t][c] >= 0

-----------------------------------------------------------------------------
(* Safety, when requests are served one at a time and none is cut short.   *)

Quiescent == \A s \in Sessions : pc[s] = "idle"
BeingUpdated(id) == \E s \in Sessions : pc[s] \in {"same", "delete", "insert"} /\ Head(upd[s]) = id

\* The two partitions UpdateOrderAsync writes agree: outside an update, an order is
\* in exactly the status partition its trader's row names, with the same contents.
PartitionsAgree ==
    \A id \in Known : traderRow[id] # NoRow /\ ~ BeingUpdated(id) =>
        \A st \in OrderStatus :
            statusRow[st][id] = IF st = traderRow[id].status THEN traderRow[id] ELSE NoRow

Open(id) ==
    /\ statusRow["Registered"][id] # NoRow
    /\ ~ IsOrderFullfiled(orders[id], statusRow["Registered"][id])

\* A pass leaves nothing to do: no order still Registered and unfilled could trade
\* with a limit order still Registered.
BookSettled ==
    Quiescent =>
        \A i, j \in Known : Open(i) /\ Open(j) => ~ CanTrade(orders[i], orders[j])

Exchanged(a, side) ==
    SumFunctionOnSet([id \in Known |-> traderRow[id].exchanged],
                     {id \in Known : orders[id].asset = a /\ orders[id].action = side})

\* Both sides of every match are recorded: per instrument, as much was bought as
\* was sold, and of two matched orders each names the other.
FillsBalance ==
    Quiescent =>
        /\ \A a \in Assets : Exchanged(a, "Buy") = Exchanged(a, "Sell")
        /\ \A i, j \in Known : i \in traderRow[j].matched <=> j \in traderRow[i].matched

\* A market order not yet filled or cancelled is never matched at a price while
\* the book holds an order it could have had at a better one.
BestPriceFirst ==
    [][ \A s \in Sessions :
          /\ Matches(s)
          /\ orders[taker[s]].kind = "Market"
          /\ mem[s][taker[s]].status = "Registered"
          => \A l \in Known :
                Open(l) /\ CanTrade(orders[taker[s]], orders[l])
                    => ~ BetterPrice(orders[taker[s]], orders[l].price, orders[maker[s]].price) ]_vars

\* Where volumes are read against the base currency, a limit order never costs
\* more, or brings less, than the exchanged volume at its own price.
LimitHonoured ==
    [][ \A s \in Sessions : Matches(s) =>
          \A id \in {taker[s], maker[s]} :
             LET own == BaseAmount(orders[id], ExchangeVolume(s), orders[id].price)
             IN  orders[id].kind = "Limit" /\ orders[id].ccy = BaseOf[orders[id].asset] =>
                    IF orders[id].action = "Buy" THEN Amount(s, id) =< own
                                                 ELSE Amount(s, id) >= own ]_vars

-----------------------------------------------------------------------------
(* Liveness.                                                               *)

\* A request that does not return has been held up by one thing: a market order that
\* was cancelled because its trader cannot pay, and that the pass matches again and again.
AtCanceled(s) ==
    /\ pc[s] # "idle" /\ phase[s] = "market"
    /\ taker[s] \in Known /\ mem[s][taker[s]] # NoRow
    /\ mem[s][taker[s]].status = "Canceled"
ReturnUnlessCanceled ==
    \A s \in Sessions : []<>(pc[s] = "idle") \/ <>[]AtCanceled(s)

-----------------------------------------------------------------------------
(* Refinement: one session implements Exchange, whose matches are atomic.  *)

BookOf(id) ==
    IF \E s \in Sessions : \E k \in DOMAIN upd[s] : upd[s][k] = id
    THEN mem[CHOOSE s \in Sessions : \E k \in DOMAIN upd[s] : upd[s][k] = id][id]
    ELSE traderRow[id]

E == INSTANCE Exchange WITH
        Forms <- UNION {{req[k] : k \in DOMAIN req} : req \in Requests},
        book <- [id \in Ids |-> BookOf(id)],
        ledger <- [t \in Traders |-> [c \in Currencies |-> LedgerOf(t, c)]]

\* The dozen table operations of a match, seen from outside, are one atomic match
\* (or cancellation) of two orders as they stood.
ImplementsExchange == E!Spec

=============================================================================
