# Lykke marketplace: specifications, checks and proofs

TLA+ models of the marketplace, checked with TLC and, for the properties that matter
most, proved with TLAPS: the core (registering orders, matching them, writing the results,
moving the money), the storage operations it rests on, the traders' accounts, the price
feed with its socket and timer, the hub and the SignalR connection of a page to it, and
what the page does with clicks and answers.

- [The system](#the-system): components, their state, how they interact, what is hard
- [Modules](#modules): what models what
- [Runs](#runs): what is checked, with which bounds, and what it shows
- [Disagreements](#disagreements): expectations the code does not meet
- [Proofs](#proofs)
- [Not modelled](#not-modelled)

## The system

A trader's browser talks to a SignalR hub.  Each order request registers one order
(or a linked pair of limit orders) and then, in the same request, runs one pass
that matches all registered orders.  There is no matching thread and no lock:
`SrvOrdersExecutor` is one object that all requests share, so passes of different
requests interleave wherever the code awaits a table operation.

    browser -> LkHub.DoMarketOrder / DoLimitOrder / DoLimitOrder2
                 -> SrvOrdersRegistrator -> IdentityGenerator
                                         -> OrdersRepository.RegisterOrderAsync
                                         -> SrvOrdersExecutor.Execute
                                              -> OrdersRepository (read, update)
                                              -> SrvBalanceAccess -> BalanceRepository
                                              -> call-backs: LkHub.RefreshBalance, RefreshOrderBooks
    browser -> MockDepositsController.MockDeposit -> SrvBalanceAccess
    browser -> HomeController (sign in, sign up)  -> TradersRepository
    MT4 bridge -> sockets -> feed source -> MarketProfileCache, LkHub.BroadcastPrice
    LkHub -> (SignalR: web socket, server-sent events or long polling) -> LkMarket's handlers
    browser: selectAsset, UiDesktop -> Requests -> controllers; jQuery's fades

| Component (source) | State | Operations | Makes it correct | Status |
|---|---|---|---|---|
| Orders (`Core/Orders`) | volume, price, side, status, exchanged volume, matched ids | open volume, fulfilment | never filled beyond the volume | modelled: `Orders` |
| Registrator (`LkeServices/Orders/SrvOrdersRegistrator.cs`) | none | give an id, insert, execute | an order is visible only with its id; none is lost | modelled: `OrderExecutor` |
| Executor (`LkeServices/Orders/SrvOrdersExecutor.cs`) | the lists of a pass, in memory | pass over market orders, pass over limit orders, match, settle | legal, funded, best-priced matches; money conserved; the pass ends | modelled: `OrderExecutor`, `Exchange` |
| Orders repository (`AzureRepositories/Orders`) | each order twice: in its trader's partition and in its status's | insert, read a status, update | both copies agree | modelled: `OrderExecutor` |
| Balances (`Core/Finance`, `AzureRepositories/Finance`) | a row per trader and currency | read all, add | no lost addition | modelled: `BalanceRepository`; one step in `OrderExecutor` |
| Mock deposits (`Areas/Settings`) | none | add to a balance | - | modelled: action `Deposit` |
| Instruments (`Core/GlobalSettings.cs`) | constants | find an instrument | - | constants of `Orders` |
| Hub (`LykkeMarketPlace/Hubs`) | table of connections | requests, connect, disconnect, pushes of balances, broadcasts of books and prices | the last push is the newest state | requests in `OrderExecutor`, the rest in `TradingHub` |
| SignalR client (`Scripts/jquery.signalR-2.2.0.js`) | connection state, transport, timers, message id, buffered messages, calls | start, fall back, receive, watch, reconnect, stop, call | the outcome of start is true; no message lost or repeated; no reconnect without end; nothing left of a stopped connection | modelled but for what [below](#not-modelled) names: `HubConnection` |
| Page (`Views/MarketPlace`, `Scripts/LkMarket.js`, `Requests.js`, `UI.js`, jQuery's effects) | current currency, dialog shown, contents and fades of two elements | select a currency, open and close dialogs, deposit | what was asked for last is seen; a dialog can be closed; no form stays blocked | modelled in part: `Page`, and the message handlers in `HubConnection` |
| Order book generator | none | aggregate limit orders | - | not modelled: a pure function of one read |
| Identity generator (`AzureRepositories`) | one counter row | next id | ids are unique and increase | modelled: `IdentityGenerator`; one step in `OrderExecutor` |
| Traders (`AzureRepositories/Traders`, `HomeController`) | trader rows, index rows by e-mail | register, sign in | one trader per address; nobody signed in as another | modelled: `Traders` |
| Feed (`LkeServices/Feed`, `Core/Feed`, `Common/TimerPeriod.cs`) | bytes received, two dictionaries of quotes, the profile | split lines, collect, publish | no line torn, no quote lost, none after a newer one | modelled: `FeedSource`, `TimerPeriod` |
| Client socket (`Sockets/SimpleClientTcpSocket.cs`) | connection, time of last data | connect, read, ping, reconnect | a dead connection is noticed and replaced, a live one kept | modelled: `SimpleSocket` |
| Table storage (`AzureStorage/.../Tables`) | tables | insert, replace with retry, insert-or-modify | replace is atomic | one row modelled: `TableRow` |
| Server sockets, cached tables, queues, blobs, concurrency helpers, serialisers, utilities, injection, third-party scripts | - | - | - | not modelled: not used by the marketplace, or sequential conversions and wiring |

What is hard here, and where: balances checked long before they are charged
(`SrvOrdersExecutor.cs:245`), passes on stale copies (`:330`), two updates of one
order interleaved (`OrdersRepository.cs:138`), an order executed between its two
inserts (`:96`), a request cut short halfway (`:150`), loops that go on after
their order is finished (`SrvOrdersExecutor.cs:298`) or for ever (`:289`),
and arithmetic that is right for whole matches only (`:151`).  Around the core: retries of
writes that were made (`AzureStorageUtils.cs:689`), the race for a first row
(`BalanceRepository.cs:70`), sign-ups that race for an address (`TradersRepository.cs:90`),
answers to pings that come late or never (`SimpleClientTcpSocket.cs:58`), and a stream
cut into reads anywhere (`Mt4BridgeFeedSource.cs:81`).  In the browser: a transport given up
while it opens (`jquery.signalR-2.2.0.js:1064`), messages over a reconnect (`:1505`), a price
before the list of assets (`LkMarket.js:51`), pushes that overtake one another (`LkHub.cs:48`),
answers in another order than the clicks (`Requests.js:29`), a dialog opened while another
closes (`UI.js:36`).  The full list is under
"hazards" in PROJECT.json, each with the properties that would catch it.

## Modules

| Module | Contents |
|---|---|
| `Orders` | no variables: order types, who may trade with whom, the arithmetic of one match |
| `OrderExecutor` | registrator, executor, orders repository and balances composed: the detailed specification and its properties |
| `Exchange` | abstract specification: a book and a ledger, a match is one step |
| `MCOrderExecutor` | the instances TLC checks |
| `TableRow` | one row of a table with its ETag, and a client's steps on it: read, insert, replace, faults |
| `BalanceRepository` | `ChangeBalanceAsync` over `TableRow`: the additions of several tasks to one balance |
| `AtomicBalance` | abstract specification: an addition is one step, made once if its call returns |
| `IdentityGenerator` | `GenerateNewIdAsync` over `TableRow`, with the retries of `InsertOrModifyAsync` |
| `Traders` | sign-up and sign-in over the trader table and the index of addresses |
| `TimerPeriod`, `FeedSource` | the periodic loop; the feed from bytes to `MarketProfileCache`, which extends it |
| `SimpleSocket` | the client socket, with time |
| `HubConnection` | the SignalR client's connection and LkMarket's message handlers: one function per function of the source, one action per callback |
| `TradingHub` | `HubConnection` composed with `LkHub`: connections, pushes, broadcasts; the properties of both |
| `Page` | clicks, requests, answers and fades of the marketplace page |
| `MCBalanceRepository`, `MCTraders`, `MCTradingHub` | the instances TLC checks; `IdentityGenerator`, `FeedSource`, `SimpleSocket` and `Page` are checked as they are |
| `ExchangeProofs`, `OrderExecutorProofs`, `BalanceRepositoryProofs`, `IdentityGeneratorProofs`, `FeedProofs`, `TradersProofs`, `HubConnectionProofs`, `PageProofs` | theorems |

### OrderExecutor

A *session* is one request of the hub.  Its program counter `pc` stands before the
next `await` of the code; a step is the code from there to the following one.

| pc | action | code |
|---|---|---|
| idle | `Submit` | hub method calls the registrator |
| identify | `GenerateId` | `HandleCommonStuff`, once per order of the request |
| insertStatus, insertTrader | `RegisterStatus`, `RegisterTrader` | the two inserts of `RegisterOrderAsync` |
| load | `Load` | `GetOrdersByStatusAsync(Registered)`, `SeparateOrders` |
| next | `NextMarket`, `BeginLimits`, `NextBuy`, `Pick`, `EndPass` | the loops of `ExecuteMarketOrders` and `ExecuteLimitOrders` |
| check1, check2 | `CheckTaker`, `CheckMaker` | the two `CheckIfEnoughBalance` of `ExecuteOrders`, with the cancellation, or the match in memory, that follows |
| replace, same, delete, insert | `UpdateReplace`, `UpdateSame`, `UpdateDelete`, `UpdateInsert` | the table operations of `UpdateOrderAsync` |
| settle | `Settle` | one of the four `ChangeBalance` additions |
| any | `Fail` | a crash, or an exception caught by the hub: locals are gone, tables stay |
| - | `Deposit` | `MockDeposit` |

State: `orders` holds what never changes of each order, its id being its position.
`statusRow` and `traderRow` are the two places a row is stored, `balance` the
balance table.  Per session, `mem` is its copies of the orders it loaded, `phase`,
`queue`, `todo`, `taker`, `maker` the variables of its loops (`order1` is the taker,
`order2` the maker), `upd`, `old`, `settle` what it still has to write.  The three
lists of `OrderList` need no variables of their own: each reading of them follows a
clean-up, so they are the loaded limit orders whose copy is still Registered (`Live`).

Abstractions.  Money, volumes and prices are integers, in units in which the
divisions of the instances are exact; the tolerance of 0.001 in `IsOrderFullfiled`
becomes equality.  Volumes are not negative and prices positive, which the hub does
not check (zero volumes are in the instances).  Dates, `FailReason`, the link of a
linked pair (stored, never read) and the call-backs to clients (they only read) are
left out.  The list of matched ids is kept as a set.  Each table operation is atomic,
as the storage's optimistic replace promises: `BalanceRepository` and `IdentityGenerator`
show it for additions to balances and for ids.  Exceptions the code itself can cause, such
as a conflict or a row gone missing when two sessions write one order, are `Fail` steps.  Orders of
one price are ranked in any order.

Definitions commented "Faulty variant" are not part of the specification: each is
an operator with a plausible mistake, used to confirm that a property notices it.

### Exchange

What execution promises to somebody who sees no sessions, copies or tables:
`orders`, a `book` saying what has become of each, and a `ledger`.  `Match` fills both
orders and pays at once; `Reject` cancels one whose trader cannot pay.  It
keeps the code's arithmetic and the code's liberties (a taker's status is not
looked at), so that the executor implements it and its theorems are about this
program.  It does not prescribe priorities: those are properties of `OrderExecutor`.

The mapping (`E` in `OrderExecutor`): an order's entry in the book is its trader's row,
or the session's copy while that is being written; the ledger is the balance
plus the additions a session still has to make.  A match thus happens, abstractly, at
`CheckMaker`, and the writes that follow are invisible.

### TableRow, BalanceRepository, IdentityGenerator

`AzureTableStorage.ReplaceAsync` reads a row, lets the caller change the copy and writes it
back on the condition that its ETag is still the one read; if not, it starts over.
`TableRow` is that row and those steps, for any number of clients: `row` is the stored value
and tag, `seen` each client's copy.  A fault may come before or after the effect of a
write (the answer is lost).  `BalanceRepository` adds `ChangeBalanceAsync`'s own part: insert a
row if there is none, and give up with an exception when somebody inserted it first.  `IdentityGenerator`
adds `InsertOrModifyAsync`, which takes any exception for a reason to try again, up to
`MaxAttempts` times, and so may count one call twice; ids stay unique and ordered.

The refinement mapping of `BalanceRepository` to `AtomicBalance` places each addition at
the write that makes it.  A caller whose answer was lost gets an exception although the
addition was made; `AtomicBalance` says just that: at most once if it throws.

### Traders

A request (`pc`) is `SignUp` or `SignIn` with a `form`.  A sign-up looks for the address
as typed (`exists`), draws an id, inserts the index row under the address in lower case
(`index`) and then the trader (`trader`), and is signed in.  A sign-in reads the index
(`find`) and the trader (`check`).  `Fail` cuts any request short.

The look-ups use the address as typed and the index is in lower case.  So for an address with
capitals a second sign-up passes the look-up and fails in the insert, and a sign-in never
finds the trader.  The model has this (`MCTraders` has two spellings of one address); its
properties hold all the same, since a failed request changes nothing.

### FeedSource, TimerPeriod, SimpleSocket

`SimpleSocket` is about time: the ping loop's delays and `LastReadData`, in ticks, against a peer
that answers within `AnswerTime`, falls silent, or closes.  A tick passes only when nothing
is due: timers fire in time and what the pool can run it runs.  `FeedSource` has no clock; it is
about data: bytes on the `wire`, read in parts of any size into `buffer`, cut into lines by
`HandleData`, noted in `feed` and `profile` under two separate locks, and published by the loop
of `TimerPeriod`.  It takes from `SimpleSocket` that one connection is read at a time
(`OneConnection`, a theorem), and lets a connection end at any read.

A price is a number that grows with every line, so that "older" can be said.  A symbol and a
price are each one byte: reads may fall between any two of symbol, price, carriage return and line feed.
The framing of a line that only a lone carriage return ends stops until the next connection,
as `IndexOf` (`Utils.cs:775`) gives up at the first one; `Framed` states the lines accordingly.

### HubConnection, TradingHub

The browser runs one handler at a time, so a callback, a timer or an answer is one action, and
the handler is a composition of functions on the record `c`, one per function of the source
and in its order: `Initialize`, `TransportFailed`, `InitReceived`, `EnsureReconnecting`, `Reconnect`,
`Stop` and so on are `initialize`, `transportFailed`, `initReceived`, `ensureReconnectingState`,
`reconnect` and `stop`.  There is no clock: `c.timers` is the set of timers that are armed, and any
of them may fire at any moment, so a property holds whatever the delays are.  The three transports
differ where the code does: a web socket and an event source are a `channel` that opens,
closes or falls silent; long polling is a request that is answered, fails or hangs; only
`webSockets` fails pending calls when the connection is lost, only event sources have the
attempt timer, only polls raise "reconnected" by a timer.

| Part of `c` | Stands for |
|---|---|
| `state`, `promise`, `request` | the connection state, what `start()` has returned, the negotiate or start request under way |
| `requested`, `completed`, `stopped`, `failed` | the flags of `InitHandler` |
| `index`, `channel`, `first`, `greeted`, `alive`, `raising` | the transport in use and its channel |
| `timers`, `monitoring`, `quiet`, `slept` | armed timers; the two time stamps `beat` looks at |
| `base`, `cursor`, `buffer`, `delivered` | where the server began, `messageId`, `ConnectingMessageBuffer`, what LkMarket's handlers were called with |
| `calls` | per hub call: `sent` over the socket, `posted`, `dropped` by a closed socket, `settled` |

`log` is what the server has published to the connection, in one order, and a message is its
position in it.  A response brings all messages from `cursor` up to some point, so any grouping
occurs.  LkMarket's `price` and `orderBooks` throw before `Assets` has been handled; the
exception ends the loop it happens in, as in the code: the messages behind it in a response are
lost, in the buffer they stay, and a poll is not followed by another.  `Thrown` names that state.

`TradingHub` adds the server.  `OnConnected` registers the connection and sends `Assets`;
`OnReconnected` happens with the channel that reaches the server again; `OnDisconnected` at any time
the channel is not alive.  `RefreshBalance` is three steps, for it looks the connection up, awaits
the balances and sends; several may overlap.  A balance is known by its version.  `LookUp`
takes the *first* connection of the trader, so it may miss this page's.

The server's side of SignalR is not in the repository: that its messages to one connection have
one order, that it resumes after the `messageId` it is given, and when it calls the hub's
methods is what the client's source assumes of it.

### Page

A click, an answer or the end of a fade is one action.  An element has a queue of fades, as
`jQuery.fn.queue` keeps it: a fade that has nothing to do ends as soon as it begins, a fade in shows
the element when it begins, a fade out hides it when it ends, and then the callback is called,
which makes the request.  `show()`, `hide()` and `html()` act at once, beside the queue; that is where
answers that come in another order than the clicks can go wrong.  `dialogIsShown` is set
by the click and cleared by the callback of a fade, `crossed` remembers that a dialog was opened
while another was being hidden.

In the code a callback begins the next fade, which may end at once and call its own callback, and so
on.  No callback queues anything, so this goes no further than the queue is long: `EndThose` is a
recursive function of the number of fades ended.

## Runs

The instances of the executor have three traders: Ann sells, Bob buys, Cat does both and can
pay for nearly nothing; balances suffice for some matches but not for all, so every check
both succeeds and fails.  Three to four orders are enough for a partial match
followed by another, for an order with two possible partners at two prices, and
for a match that follows a cancellation.

| Run | Instance | Properties | Shows |
|---|---|---|---|
| `serial` | 1 session, 4 orders, a deposit at any moment, fair | `PartitionsAgree`, `BookSettled`, `FillsBalance`, `NoOverdraft`, `MoneyConserved`, `BestPriceFirst`, `LimitHonoured`, `ImplementsExchange`, `ReturnUnlessCanceled` | served one by one and uninterrupted, requests keep both partitions in agreement, leave no two open orders that could trade, record each match on both sides, overdraw nothing, create and destroy no money but in a match of two different volumes, take the best price and honour limits; the table operations of a match amount to one atomic match; only a cancelled market order keeps a request |
| `concurrent` | 2 sessions, 3 orders, 1 fault, symmetric sessions | `TypeOK`, `NoOrderLost`, `TradesLegal`, `NoOverfill`, `MoneyConserved` | what survives every interleaving: no step without its data, no order lost, only legal trades, no copy overfilled, no money created but by the matches `MoneyConserved` names |
| `balance` | 3 tasks, faults, one balance without a row | `ImplementsAddition`, `CallsEnd` | every addition is one atomic addition, the first row's race included; every call ends |
| `identity` | 3 tasks, faults before or after a write | `IdsUnique`, `IdsInOrder`, `Persistent` | no id twice, ids in the order of calls, only faults use up attempts |
| `feed` | 3 symbols (2 instruments), 2 lines, 1 lost connection, timer started twice | `Framed`, `NeverOlder`, `Published` | quotes are those of the lines however they are cut; each is published, never after a newer one |
| `socket` | the feed's time-outs (10 and 3), answers within 2 | `OneConnection`, `DeadNoticed`, `HealthyKept`, `Replaced` | silence is noticed within 14 ticks, an answering peer is kept, a dead connection is replaced after its loops have ended |
| `traders` | 2 requests, 3 sign-ups, 2 sign-ins, 1 cut short, 3 spellings of 2 addresses | `OneTraderPerAddress`, `RightUser`, `PasswordKept` | one trader per address however sign-ups race; nobody is signed in as another |
| `connection` | 3 transports, 2 failures, 1 sleep, 1 call, 1 push, 1 broadcast, fair | `OutcomeTrue`, `NothingLeft`, `BoundedReconnect`, `StartSettles`, `NoCallHangs` | start() is answered, and truly; a connection that is down stays down; a reconnect ends; every call sent is answered or fails |
| `hub` | 2 transports, 2 failures, 2 pushes, 2 changes, 1 broadcast | `ExactlyOnce`, `UpToDate` | each message is handled once and in order; the page shows the balances of the table once all is quiet, if the last push found it and ran alone |
| `page` | 2 currencies, 2 dialogs, 2 clicks on each kind, 1 deposit, fades 3 deep | `LastSelectionSeen`, `NothingLeftBlocked`, `DialogCloses`, `LastDialogSeen` | what was asked for last is seen, a dialog can be closed, no form stays blocked |
| `overdraft`, `stuck_buffer` | | `NoOverdraft`, `BufferDrained` | violated, see below |

Bounds: every bound is a constant named `Max...` and a guard of one action: `MaxOrders` of
`Submit`, `MaxDeposits` of `Deposit`, `MaxFaults` of `Fail`, `MaxLines` of `Send`, `MaxLosses` of `Lose`,
`MaxSignUps` and `MaxSignIns` of the requests; `Loops` bounds the calls of the timer's `Start`
that take effect, `Ids` the Guids.  Two sessions suffice for the races the executor
has, which are all between two passes (or a pass and a registration); the
properties of `concurrent` are proved for any number.  Three tasks
on a row are one that writes, one whose copy is stale, and one that writes while that one starts
over.  Two failures let one transport fail and the next one be lost and come back, or two
reconnects follow each other; `hub` leaves server-sent events out, which carry messages as web sockets
do and differ only in timers, all of which `connection` has.  `KeepAliveBeats` is one heartbeat: timers
fire at any moment, so a larger number adds only waiting.  Two clicks of a kind are enough for
answers in either order and for a dialog that opens in every phase of another.  Two lines with a connection lost between them show what one leaves to the
next; a third makes `feed` too large for the two symbols publishing needs.

`MoneyConserved` counts the settlements under way and excuses deposits and sessions cut short.  It
names the two kinds of match that do change the sum over all traders (see below): two orders of
different volumes, in the quoting currency, and two orders whose volumes are read against different
currencies, in the base currency.  Both occur in the instances.  `BestPriceFirst`
is claimed for a taker that is still Registered: the inner loop goes on with takers that
are Done or Canceled, for nothing or against their will.  `LimitHonoured` is claimed where
the volume is read against the base currency: otherwise the amount is v / price, which
falls as the price rises.  `NoOverdraft` holds with one session and is violated with two.
`ReturnUnlessCanceled` says that a request returns unless its market order was cancelled.
`UpToDate` names the cases in which a page may show an old balance: the last push did not find its
connection, or ran beside another.  `LastSelectionSeen` and `LastDialogSeen` are about the case that the last
click is answered last; answered earlier, an older answer is what is seen.  `LastSelectionSeen`
also says that the orders made in a panel are sent with its own currency.

Fairness.  `OrderExecutor`: weak fairness of each session's `Step`, that is, that the
thread pool keeps running an accepted request and table operations answer; the same of each
client of a row.  Nothing is assumed of new requests, deposits and faults.  A call on a row
ends (`CallsEnd`) because finitely many others compete for it.  `FeedSource`: the pool runs the reader and each
loop of the timer; nothing is assumed of the bridge or the network.  `SimpleSocket`: what
is due happens, time goes on, and a live peer that has been pinged and is read answers.
`TradingHub`: a timer that is armed fires in the end (the browser's); the negotiate and the start
request are answered or fail, as is a call that was sent or posted while its channel lives; a task of
the server goes on.  Nothing is assumed of channels opening, of messages arriving, of the network
recovering, of users, or of how timers that are armed together follow each other.

Deadlock is checked everywhere (an idle server is the stuttering action `Wait`), save in
the runs of `TradingHub`, where a connection that is down for good, with all calls settled, really stops.

## Disagreements

Two runs check what a test or a comment takes for granted, in situations it does not try, and
TLC shows the code does otherwise:

- `overdraft`: two passes both find a balance sufficient before either charges it
  (`SrvOrdersExecutor.cs:245`); `Tests/OrderExecutionTests.cs:72` says that an order its trader cannot pay
  for leaves his balance alone.
- `stuck_buffer`: a price or an order book that reaches a page before `Assets` makes its handler throw
  (`LkMarket.js:51`, `:34`).  If that happens while the buffer of a connecting page is drained, where
  `jquery.signalR-2.2.0.js:611` says all is, the loop ends: `Assets` and what follows stay in
  the buffer of a page that is connected, and its start promise is never resolved.  Every later price
  throws too.  It takes no failure: broadcasts go to a page from the time its transport is open,
  `Assets` is sent only with the start request.

Where the code falls short of what a reader may expect of it, the properties draw the line, and the
model has the code's behaviour on its other side:

- a match of part of an order moves its *whole* volume in the quoting currency
  (`SrvOrdersExecutor.cs:151`, `:156`), each time it is matched: the first exception in `MoneyConserved`;
- orders whose volumes are read against different currencies pay and receive different amounts
  of the base currency (`:235-242`): the second;
- a market order its trader cannot pay for is cancelled over and over (`:289`), and the request never
  returns: the exception in `ReturnUnlessCanceled`;
- a dialog opened while another fades out cannot be closed by a click (`UI.js:36`, `:48`):
  `crossed` in `DialogCloses`;
- a call made after a socket was lost and before its replacement has begun to open is dropped
  without a word (`jquery.signalR-2.2.0.js:1688`): the calls `NoCallHangs` is about are those that were sent;
- a page may keep an old balance: the cases `UpToDate` leaves out.

## Proofs

All theorems hold for any traders, instruments, requests, balances, numbers of sessions
and bounds that satisfy the named assumptions of the modules (`InstrumentAssumption`,
`ExecutorAssumption`, `ExchangeAssumption`, `RowAssumption`, `AttemptsAssumption`, `TimeOutAssumption`,
`TradersAssumption`, `ConnectionAssumption`, `HubAssumption`, `PageAssumption`, `FeedAssumption`: the constants
have their types, and the two currencies of an instrument differ; a price is no other byte, and
a carriage return no line feed; an answer comes within the time it is waited for; lower case of
lower case is the same).

| Theorem | States | Argument |
|---|---|---|
| `TypeCorrect` (`OrderExecutorProofs`) | `Spec => []TypeOK` | inductive as stated: `Types`, `OnlyKnown` (nothing mentions an order without id) and `Ready` (each program point finds its data) need one another; one lemma per action |
| `NeverOverfilled`, `TradesAlwaysLegal` (`OrderExecutorProofs`) | `NoOverfill`, `TradesLegal` | together they are `AllGood`, inductive with `TypeOK`: a copy, however stale, was once good, every step but a match copies rows, and a match of two good copies is good because the volume exchanged is at most either open volume and the pair passed `CanTrade` |
| `NoOrderEverLost` (`OrderExecutorProofs`) | `NoOrderLost` | inductive with `TypeOK`: registration lists first, a delete is followed by its insert in the same session |
| `LimitsHonoured` (`OrderExecutorProofs`) | `LimitHonoured` | the pair passed `CanTrade`, so the maker's price suits both; `BaseAmount` of a volume that is not negative grows with the price |
| `MoneyKept` (`OrderExecutorProofs`) | `FinitelyMany => (Spec => MoneyConserved)` | a ledger is a balance plus what is owed to it; a settlement moves a posting from the one to the other; a match adds four postings, and for each currency the sum over the traders changes by their sum, which is 0 but in the two cases named |
| `PartitionsAlwaysAgree` (`OrderExecutorProofs`) | `Serial => (Spec => []PartitionsAgree)` | `TablesInv(s)`, with `TypeOK`: how far the session has come says which rows of each order exist (`Entering`, `Moved`, `Agree`), what of its locals is empty (`Clean`), and that its copies are the rows but for those still to be written (`Coherent`) |
| `NeverOverdrawn` (`OrderExecutorProofs`) | `Serial /\ NonNegative => (Spec => []NoOverdraft)` | `Solid`: each balance covers the postings still to be made; inductive with `Checked`: what was found for the taker is still there when the maker is checked |
| `BestPriceAlways`, `BookAlwaysSettled` (`OrderExecutorProofs`) | `Serial => (Spec => BestPriceFirst)`, `Serial => (Spec => []BookSettled)` | `Passing`, with `TablesInv`: the partners of the taker that are still open are all in `todo` (`Inner`), and the orders the outer loops have finished with have no partner left (`Outer`); a match fills one of its two orders, so it never leaves a pair behind |
| `MatchesAreAtomic` (`OrderExecutorProofs`) | `Serial /\ DepositsAdd => (Spec => ImplementsExchange)` | each action maps to a step of `Exchange` or to a stutter, given the invariants above: at `CheckMaker` the copies are the book (`Coherent`, nothing left to write) and the balances are the ledger (nothing left to settle); `Drafts` says orders are given ids as they were asked for |
| `FillsAlwaysBalance` (`OrderExecutorProofs`) | `Serial => (Spec => []FillsBalance)` | stated of the book `Exchange` sees: `Symmetric`, `Balanced`; a match adds one volume on each side, and writing the copies does not change the book |
| `BalanceRepositoryProofs!TypeCorrect` | `Spec => []TypeOK` | a copy with the row's tag is the row: tags grow with every write |
| `Addition` (`BalanceRepositoryProofs`) | `ImplementsAddition` | with that invariant each write is the addition its call asked for, and every other step maps to a stutter, an ask, a return or a throw |
| `UniqueIds`, `OrderedIds`, `PersistentCalls` (`IdentityGeneratorProofs`) | `IdsUnique`, `IdsInOrder`, `Persistent` | the row holds the largest id ever written; only an insert that comes second fails without a fault, once per call |
| `QuietBounded`, `OneAtATime`, `AnswersKeepConnection` (`FeedProofs`) | `DeadNoticed`, `OneConnection`, `HealthyKept` | at each point of the ping loop the silence plus what is left of its delay is bounded; while an answer is awaited it is due in time, or data has come since the ping |
| `QuotesAreFramed` (`FeedProofs`) | `Framed` | `Serialized`: what has been read is, zero bytes aside, the part taken so far and then the buffer; the part taken ends where a line begins, and its quotes are what was made.  What is read next leaves the lines already complete as they were, wherever it is cut (`PrintingParts`, `LongerFramed`), and the first carriage return of the buffer is the end of the next line, or of none.  It is inductive with `LineInHand` (a quote in the call-back is still the first line of the buffer) |
| `PricesNeverOlder` (`FeedProofs`) | `NeverOlder` | `PricesInOrder`: no number still on the connection is below a price noted, taken by the timer or published, and these three are in order wherever they are not empty; with `InOrder` (numbers grow along the buffer and the wire) and `OneLoop` (the timer is started once, and has taken prices only while it executes), without which two loops could publish in either order |
| `AddressesUnique`, `SignedInAsOneself`, `PasswordsStay` (`TradersProofs`) | `OneTraderPerAddress`, `RightUser`, `PasswordKept` | the index is one-to-one and in lower case; a sign-up's id is its own until its trader is inserted; a sign-in goes where the index led it |
| `StartOutcomes`, `DownAltogether`, `ReconnectBounded` (`HubConnectionProofs`) | `OutcomeTrue`, `NothingLeft`, `BoundedReconnect` | `Good(c)` says which state of the connection goes with which promise, request, channel and timer; each function of the connection keeps it, and each handler is a composition of them |
| `MessagesExactlyOnce` (`HubConnectionProofs`) | `ExactlyOnce` | `Flowing`: with `Good`, what was delivered and what is buffered together are the run from `base` to `cursor`, unless a handler has thrown (`Stream`).  It is inductive only with what ties the first message to the start request (`Handshake`: nothing is delivered before it, and a first channel, which resets `cursor`, opens only before it), with `Replaced` (a transport whose start has failed is not heard of again), and with a connection not yet started being `Fresh`.  That the server appends to `log` keeps old positions |
| `BalancesUpToDate` (`HubConnectionProofs`) | `UpToDate` | `Flowing` (the page has every message since `base`) with `Pushed`: a page that is found has made its start request, after which `base` never moves again (`BeginsOnce`, shown of every function and handler), so balances are only pushed behind it (`Awaited`); and a push that runs alone sends what is stored (`Current`) |
| `LastSelectionIsSeen`, `NothingIsLeftBlocked`, `DialogsClose`, `LastDialogIsSeen` (`PageProofs`) | `LastSelectionSeen`, `NothingLeftBlocked`, `DialogCloses`, `LastDialogSeen` | an invariant of the state between two handlers, of which a state on the way through one still satisfies nearly all: a request that is still to be made, and every one after it, is that of a fade still queued, so nothing asked for later was answered (`SelectionFades`, `DialogFades`, in order); a panel that is to be seen is shown or has a fade in behind the one that runs (`Returns`); closing is queued behind opening (`Noted`); whatever fades a dialog is shown (`FadesShown`) |
| `ExchangeSolvent` (`ExchangeProofs`) | `NonNegative => (Spec => []Solvent)` | `Solvent` strengthened by the types of the book, including that no order is overfilled: then what a match charges is what was checked, at most the volume in one currency and the cost in the other; two currencies of an instrument and two traders of a match being different, no other charge interferes |

What the theorems about sessions assume beyond that, each by name:

- `FinitelyMany`: the traders and the sessions are finite sets, without which a sum over them means
  nothing.
- `Serial`: one session, never cut short (`Sessions` has one element and `MaxFaults` is 0), with requests,
  orders, traders, instruments and deposits unbounded.  That is the instance of `serial`; nothing in the code
  enforces it, and with two sessions `NoOverdraft` fails (run `overdraft`).  So these theorems say what the
  executor does when requests do not overlap, and the others what it does when they do.
- `DepositsAdd`, `NonNegative`: deposits, and initial balances, are not negative.  They are external:
  `MockDeposit` accepts any number.  `MatchesAreAtomic` needs the first, since a withdrawal between the two
  checks of a match would have `Exchange` check a smaller balance than the executor did.

The second half of `OrderExecutorProofs` is one inductive invariant, `TypeOK`, `AllGood`, `NothingOwed`,
`TablesInv`, `Passing`, `Checked`, `Solid`, `Drafts`, `Symmetric`, `Balanced`, of which each theorem takes the
parts it needs.  The sums (`SumFunctionOnSet` of the community modules) are reasoned about in its
first section: a sum is the value at one element plus the sum over the others (`SumFacts`), which follows
by descent to a smallest set for which it fails, so no induction over an operator is needed.  In the same
way `EndThose` of `Page` is taken apart: a run of fades that end at once exists for every length (`AfterExists`),
for there is no least length without one, and each end keeps the panel's and the dialogs' part of the invariant
(`PanelFadeKeeps`, `DeskFadeKeeps`), so the whole run does (`PanelSettles`, `DeskSettles`).  So too is `Printing` of
`FeedSource`, which drops zero bytes one after the other (`KeptExists`, `PrintingParts`).

Every invariant and every action property of the passing runs, and both refinements, is stated by a theorem.  Only
model-checked is liveness, which is out of the prover's reach: `CallsEnd`, `Published`, `Replaced`,
`ReturnUnlessCanceled`, `StartSettles`, `NoCallHangs`.

## Not modelled

In the modelled parts: negative volumes and prices, rounding of doubles, faults of single table operations in
the executor (one row alone is modelled with them), and several server processes with
separate memory.  Tables are shared by all sessions and `mem` is per session, so several processes
would execute orders as several sessions do here; their tables of connections would differ.

Of the SignalR client: `foreverFrame` (offered to Internet Explorer only; a browser without web sockets or
event sources is a shorter `Transports`), jsonp and cross-domain requests, groups, progress,
`connectionSlow`, the unload of the page, a second `start()`, and a protocol mismatch, which only another
version of the server causes.  What the server's SignalR does is assumed, as said above.

Of the page: the tab that the settings dialog loads into itself (one request at a time, into an element
nothing else uses), popovers and focus, resizing, the texts of messages, `showDialogWithCallBack` and
`hideDialogWithResult`, which nothing calls, the reload of the page when a request finds the sign-in lost, and the
forms of the home page, whose server side is `Traders`.  Of jQuery only the queue of effects is modelled;
its ajax calls are requests that are answered or fail.

Whole components: the order book generator (a pure function of one read), the mock feed (its start is commented
out), server and packet sockets, cached tables, queues, blobs and most concurrency helpers (no caller in
the marketplace), serialisers, general utilities, injection and other third-party scripts (sequential
conversions, wiring, presentation).  Most of the JavaScript in the repository is of that last kind: jQuery beyond its effects
queue, Bootstrap, the validation and editor-support files and Modernizr.
