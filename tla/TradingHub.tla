----------------------------- MODULE TradingHub -----------------------------
(***************************************************************************)
(* LkHub and one page that is connected to it: what the server registers,  *)
(* broadcasts and pushes, and what of it the page ends up showing.         *)
(*                                                                         *)
(* A balance is known by its version: `stored' counts the changes, and a   *)
(* message of kind "balance" carries the version that was read for it.     *)
(***************************************************************************)
EXTENDS HubConnection, FiniteSets

CONSTANTS
    Pushes,         \* tasks of the server that change the trader's balance and push it
    MaxChanges,     \* bound: changes of the balance
    MaxBroadcasts   \* bound: prices and order books sent to every page

ASSUME HubAssumption == MaxChanges \in Nat /\ MaxBroadcasts \in Nat

VARIABLES
    registered,   \* this connection is in LkHub.Connections
    stored,       \* version of the balances in the table
    push,         \* where each task of RefreshBalance is, and the version it has read
    found,        \* the last of them has found this page's connection
    overlapped    \* it has run beside another one

serverVars == << registered, stored, push, found, overlapped >>
vars == << connectionVars, serverVars >>

Message(kind, value) == [kind |-> kind, value |-> value]
Publish(m) == log' = Append(log, m)
Broadcasts == Cardinality({i \in DOMAIN log : log[i].kind = "broadcast"})

Init ==
    /\ ConnectionInit
    /\ registered = FALSE
    /\ stored = 0
    /\ push = [p \in Pushes |-> [at |-> "idle", version |-> 0]]
    /\ found = TRUE
    /\ overlapped = FALSE

-----------------------------------------------------------------------------
(* The hub.                                                                *)

\* OnConnected, called for the start request: the page is registered and sent Assets.
OnConnected ==
    /\ c.request = "start"
    /\ c' = [c EXCEPT !.request = "started"]
    /\ registered' = TRUE
    /\ Publish(Message("assets", 0))
    /\ UNCHANGED << losses, sleeps, stored, push, found, overlapped >>

\* OnReconnected: a channel other than the first, or a poll that says it comes after a
\* failed one, has reached the server.
Reopened ==
    \/ c.channel = "opening" /\ c'.channel = "open" /\ ~ c.first
    \/ "raise" \in c'.timers \ c.timers

OnReconnected == registered' = (registered \/ Reopened)

\* OnDisconnected: the server has heard nothing from the page for the disconnect timeout,
\* or the page has told it to abort.
OnDisconnected ==
    /\ registered
    /\ ~ (c.channel = "open" /\ c.alive)
    /\ registered' = FALSE
    /\ UNCHANGED << connectionVars, stored, push, found, overlapped >>

\* BroadcastPrice and RefreshOrderBooks: Clients.All, so to pages not yet connected too.
Broadcast ==
    /\ c.index > 0
    /\ Broadcasts < MaxBroadcasts
    /\ Publish(Message("broadcast", 0))
    /\ UNCHANGED << c, losses, sleeps, serverVars >>

Running == {p \in Pushes : push[p].at # "idle"}

\* A balance is saved and the handler of its change called.
ChangeBalance(p) ==
    /\ push[p].at = "idle"
    /\ stored < MaxChanges
    /\ stored' = stored + 1
    /\ push' = [push EXCEPT ![p].at = "lookup"]
    /\ overlapped' = (Running # {})
    /\ UNCHANGED << connectionVars, registered, found >>

\* RefreshBalance up to its await: the first connection of the trader, in the order of a
\* dictionary, which may be that of another page of his, or one that is gone already.
LookUp(p) ==
    /\ push[p].at = "lookup"
    /\ \E mine \in {registered, FALSE} :
        /\ found' = mine
        /\ push' = [push EXCEPT ![p].at = IF mine THEN "read" ELSE "idle"]
    /\ UNCHANGED << connectionVars, registered, stored, overlapped >>

\* GetCurrencyBalances.
ReadBalances(p) ==
    /\ push[p].at = "read"
    /\ push' = [push EXCEPT ![p] = [at |-> "send", version |-> stored]]
    /\ UNCHANGED << connectionVars, registered, stored, found, overlapped >>

SendBalances(p) ==
    /\ push[p].at = "send"
    /\ Publish(Message("balance", push[p].version))
    /\ push' = [push EXCEPT ![p] = [at |-> "idle", version |-> 0]]
    /\ UNCHANGED << c, losses, sleeps, registered, stored, found, overlapped >>

\* A step of the page, with what the server does about it.
Of(A) == A /\ OnReconnected /\ UNCHANGED << stored, push, found, overlapped >>

Push(p) == ChangeBalance(p) \/ LookUp(p) \/ ReadBalances(p) \/ SendBalances(p)

Server ==
    \/ OnConnected \/ OnDisconnected \/ Broadcast
    \/ \E p \in Pushes : Push(p)

Next == Of(ConnectionNext) \/ Server

Spec == Init /\ [][Next]_vars

-----------------------------------------------------------------------------
(* Fairness: armed timers fire; the tasks of the server go on; what is     *)
(* sent over a channel that is alive arrives, and an answer comes or the   *)
(* request fails.                                                          *)

FairSpec ==
    /\ Spec
    /\ WF_vars(Of(TransportTimeout)) /\ WF_vars(Of(ReconnectTimer))
    /\ WF_vars(Of(AttemptTimer)) /\ WF_vars(Of(PollTimer))
    /\ WF_vars(Of(StopReconnectingTimer))
    /\ WF_vars(Of(Beat))
    /\ WF_vars(Of(NegotiateAnswered \/ NegotiateFailed))
    /\ WF_vars(OnConnected \/ Of(StartAnswered \/ StartFailed))
    /\ \A k \in Calls : WF_vars(Of(Answer(k))) /\ WF_vars(Of(PostEnded(k)))
    /\ \A p \in Pushes : WF_vars(LookUp(p) \/ ReadBalances(p) \/ SendBalances(p))

-----------------------------------------------------------------------------
(* Correctness.                                                            *)

\* What start() promised is true: it is rejected only for a connection that is down, and
\* resolved only for one that has been started.
OutcomeTrue ==
    /\ c.promise = "rejected" => c.state = "disconnected"
    /\ c.promise = "resolved" => c.completed
    /\ c.state \in {"connected", "reconnecting"} => c.completed /\ c.promise # "rejected"

\* A connection that is down is down altogether: no channel, no request and no timer is
\* left that could bring it back; the heartbeat may go on once more.
NothingLeft ==
    c.state = "disconnected" =>
        /\ c.channel = "none" /\ c.request = "none"
        /\ c.timers \subseteq {"beat"}
        /\ c.buffer = << >>

\* The time to get back is bounded exactly while the connection tries to.
BoundedReconnect == (c.state = "reconnecting") <=> Armed("stopReconnecting")

\* Whatever fails and whichever transport is used, LkMarket's handlers are called with
\* each message since the connection was made, once and in the order of the server,
\* as long as none of them throws.
ExactlyOnce ==
    c.state # "disconnected" /\ ~ Thrown =>
        c.delivered \o c.buffer = [i \in 1..(c.cursor - c.base) |-> c.base + i]

\* The version of the balances the page shows: that of the last message, or the one it
\* was rendered with.
Shown ==
    LET B == {i \in DOMAIN c.delivered : log[c.delivered[i]].kind = "balance"}
    IN  IF B = {} THEN 0
        ELSE log[c.delivered[CHOOSE i \in B : \A j \in B : j =< i]].value

\* Once every message has arrived and every push has ended, the page shows the balances
\* of the table, if the last push found its connection and ran beside no other.
UpToDate ==
    c.state = "connected" /\ c.cursor = Len(log) /\ Running = {} /\ ~ Thrown
    /\ found /\ ~ overlapped => Shown = stored

\* The success handler of the start request drains the messages that came before it:
\* a connected page has none waiting.  It has, when a price or an order book has come
\* before Assets, whose handler throws and ends the loop.
BufferDrained == c.state = "connected" => c.buffer = << >>

\* start() is answered, one way or the other, unless a handler throws.
StartSettles == c.promise = "pending" ~> c.promise \in {"resolved", "rejected"} \/ Thrown

\* A call that has been sent is answered, or its caller told that it failed.
NoCallHangs == \A k \in Calls : c.calls[k] \in {"sent", "posted"} ~> c.calls[k] = "settled"

=============================================================================
