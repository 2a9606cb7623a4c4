--------------------------- MODULE HubConnection ---------------------------
(***************************************************************************)
(* The page's connection to the hub: jquery.signalR's client as            *)
(* LkMarket.start uses it, and what the handlers of LkMarket do with the   *)
(* messages it delivers.                                                   *)
(*                                                                         *)
(* The browser runs one handler at a time, so every callback, timer or     *)
(* answer is one action.  A handler is a composition of functions of the   *)
(* connection, one for each function of the source, in its order.  Time is *)
(* the set of timers that are armed: one of them may fire at any moment.   *)
(***************************************************************************)
EXTENDS Integers, Sequences

CONSTANTS
    Transports,      \* those the server offers and the browser has, in the order tried
    KeepAliveBeats,  \* heartbeats without a message after which a connection is lost
    Calls,           \* the hub methods the page calls
    MaxLosses,       \* bound: times the network or the server fails
    MaxSleeps        \* bound: times the computer sleeps for longer than reconnectWindow

Kinds == {"webSockets", "serverSentEvents", "longPolling"}

ASSUME ConnectionAssumption ==
    /\ Transports \in Seq(Kinds)
    /\ KeepAliveBeats \in Nat \ {0}
    /\ MaxLosses \in Nat /\ MaxSleeps \in Nat

VARIABLES
    c,       \* the connection object, with what belongs to it
    log,     \* what the server has published to this connection
    losses,  \* failures so far    (counts for MaxLosses)
    sleeps   \* sleeps so far      (counts for MaxSleeps)

connectionVars == << c, log, losses, sleeps >>

NewConnection ==
    [ state     |-> "disconnected",
      promise   |-> "none",      \* what start() has returned
      request   |-> "none",      \* negotiate, start; started once the server has done it
      index     |-> 0,           \* the transport in use
      requested |-> FALSE,       \* InitHandler.startRequested
      completed |-> FALSE,       \* InitHandler.startCompleted
      stopped   |-> FALSE,       \* InitHandler.connectionStopped
      failed    |-> FALSE,       \* failCalled of the transport's start
      channel   |-> "none",      \* the socket, the event source or the poll under way
      first     |-> FALSE,       \* it is the one start() has opened
      greeted   |-> FALSE,       \* the server's first message has come over it
      alive     |-> FALSE,       \* what is sent over it arrives
      raising   |-> FALSE,       \* raiseReconnect of the next poll
      timers    |-> {},
      monitoring |-> FALSE,      \* keepAliveData.monitoring
      quiet     |-> 0,           \* heartbeats since lastMessageAt
      slept     |-> FALSE,       \* lastActiveAt is longer ago than reconnectWindow
      base      |-> 0,           \* where the server began to send
      cursor    |-> 0,           \* messageId
      buffer    |-> << >>,       \* ConnectingMessageBuffer
      delivered |-> << >>,       \* messages a handler of LkMarket was called with
      calls     |-> [k \in Calls |-> "unused"] ]

ConnectionInit ==
    /\ c = NewConnection
    /\ log = << >>
    /\ losses = 0 /\ sleeps = 0

Using(x, t) == x.index \in DOMAIN Transports /\ Transports[x.index] = t
Polling(x) == Using(x, "longPolling")
Armed(t) == t \in c.timers
Arm(x, T) == [x EXCEPT !.timers = @ \cup T]
Clear(x, T) == [x EXCEPT !.timers = @ \ T]
Lose == losses < MaxLosses /\ losses' = losses + 1

-----------------------------------------------------------------------------
(* Messages and LkMarket's handlers.                                       *)

KnowsAssets(x) == \E i \in DOMAIN x.delivered : log[x.delivered[i]].kind = "assets"

\* price and orderBooks look into this.assets, which assetsRecieved has set or not.
Throws(x, s, i) ==
    /\ log[s[i]].kind = "broadcast"
    /\ ~ KnowsAssets(x)
    /\ \A j \in 1..(i - 1) : log[s[j]].kind # "assets"

Throwing(x, s) == {i \in DOMAIN s : Throws(x, s, i)}

\* How many messages of s are taken: an exception ends the loop over them.
Taken(x, s) ==
    IF Throwing(x, s) = {} THEN Len(s)
    ELSE CHOOSE i \in Throwing(x, s) : \A j \in Throwing(x, s) : i =< j

Deliver(x, s) == [x EXCEPT !.delivered = @ \o SubSeq(s, 1, Taken(x, s))]

\* triggerReceived, for the messages of one response.
Received(x, s) ==
    IF x.state = "connecting" THEN [x EXCEPT !.buffer = @ \o s] ELSE Deliver(x, s)

Interrupted(x, s) == x.state # "connecting" /\ Throwing(x, s) # {}

Drained(x) ==
    [Deliver(x, x.buffer) EXCEPT
        !.buffer = SubSeq(@, Taken(x, x.buffer) + 1, Len(@))]

\* A handler has failed since the page was loaded.
Thrown ==
    \E i \in DOMAIN c.delivered :
        /\ log[c.delivered[i]].kind = "broadcast"
        /\ \A j \in 1..(i - 1) : log[c.delivered[j]].kind # "assets"

-----------------------------------------------------------------------------
(* The functions the handlers are made of.                                 *)

Pending == {"sent", "posted", "dropped"}

\* clearInvocationCallbacks.
FailCalls(x) ==
    [x EXCEPT !.calls = [k \in Calls |-> IF @[k] \in Pending THEN "settled" ELSE @[k]]]

Reject(x) == [x EXCEPT !.promise = IF @ = "pending" THEN "rejected" ELSE @]

\* Faulty variant: a reconnect under way goes on.
TransportStopForgets(x) == [x EXCEPT !.timers = @ \ {"attempt", "poll", "raise"}, !.channel = "none"]

\* stop of each transport: of these timers each has armed only its own.
TransportStop(x) ==
    [x EXCEPT !.timers = @ \ {"reconnect", "attempt", "poll", "raise"}, !.channel = "none"]

\* connection.stop: a negotiate or start request still under way is aborted, which
\* rejects the promise, and the callbacks of calls are told that there is no answer.
Stop(x) ==
    IF x.state = "disconnected" THEN x
    ELSE [FailCalls(TransportStop(x)) EXCEPT
            !.state = "disconnected",
            !.timers = @ \ {"beat", "ping", "stopReconnecting", "transportTimeout"},
            !.promise = IF @ = "pending" /\ x.request # "none" THEN "rejected" ELSE @,
            !.request = "none",
            !.monitoring = FALSE,
            !.stopped = TRUE,
            !.index = 0,
            !.buffer = << >>,
            !.slept = FALSE]

\* Faulty variant: a transport is tried for ever.
InitializePatient(x, i) ==
    IF i > Len(Transports) THEN Stop(Reject(x))
    ELSE [x EXCEPT !.index = i,
                   !.failed = FALSE,
                   !.first = TRUE,
                   !.greeted = FALSE,
                   !.raising = FALSE,
                   !.channel = IF Transports[i] = "longPolling" THEN "none" ELSE "opening",
                   !.timers = @ \cup IF Transports[i] = "longPolling" THEN {"poll"} ELSE {}]

\* initialize(transports, index), with InitHandler.start and the transport's start.
Initialize(x, i) ==
    IF i > Len(Transports) THEN Stop(Reject(x))
    ELSE [x EXCEPT !.index = i,
                   !.failed = FALSE,
                   !.first = TRUE,
                   !.greeted = FALSE,
                   !.raising = FALSE,
                   !.channel = IF Transports[i] = "longPolling" THEN "none" ELSE "opening",
                   !.timers = @ \cup {"transportTimeout"}
                                \cup IF Transports[i] = "longPolling" THEN {"poll"} ELSE {}]

\* Faulty variant: the connection is not stopped.
TransportFailedRejects(x) ==
    CASE x.stopped     -> x
      [] ~ x.requested /\ ~ x.stopped -> Initialize(TransportStop(Clear(x, {"transportTimeout"})), x.index + 1)
      [] x.requested /\ ~ x.completed /\ ~ x.stopped -> Reject(Clear(x, {"transportTimeout"}))
      [] OTHER -> Clear(x, {"transportTimeout"})

\* InitHandler.transportFailed: the next transport is tried, unless the start request
\* has been made; afterwards a failure is the transport's own affair.
TransportFailed(x) ==
    LET y == Clear(x, {"transportTimeout"})
    IN  IF x.stopped THEN x
        ELSE IF ~ x.requested THEN Initialize(TransportStop(y), x.index + 1)
        ELSE IF ~ x.completed THEN Stop(Reject(y))
        ELSE y

\* What a transport calls when its first channel fails, and what that returns.
OnFailed(x) == IF x.failed THEN x ELSE TransportFailed([x EXCEPT !.failed = TRUE])
Abandoned(x) == ~ x.completed \/ x.stopped

\* InitHandler.initReceived.
InitReceived(x) ==
    IF x.failed \/ x.requested \/ x.stopped THEN x
    ELSE [Clear(x, {"transportTimeout"}) EXCEPT !.requested = TRUE, !.request = "start"]

\* transportLogic.reconnect.
Reconnect(x) ==
    IF x.state \notin {"connected", "reconnecting"} \/ "reconnect" \in x.timers THEN x
    ELSE IF x.slept THEN Stop(x)
    ELSE Arm(x, {"reconnect"})

\* Faulty variant: calls made over the lost socket are left waiting.
EnsureReconnectingKeepsCalls(x) ==
    IF x.state # "connected" THEN x
    ELSE Arm([x EXCEPT !.state = "reconnecting"], {"stopReconnecting"})

\* Faulty variant: nothing bounds the time it takes.
EnsureReconnectingForever(x) ==
    IF x.state # "connected" THEN x
    ELSE LET y == [x EXCEPT !.state = "reconnecting"]
         IN  IF Using(x, "webSockets") THEN FailCalls(y) ELSE y

\* ensureReconnectingState, with the two handlers of "reconnecting": that of the hub
\* connection, and that of configureStopReconnectingTimeout.
EnsureReconnecting(x) ==
    IF x.state # "connected" THEN x
    ELSE LET y == Arm([x EXCEPT !.state = "reconnecting"], {"stopReconnecting"})
         IN  IF Using(x, "webSockets") THEN FailCalls(y) ELSE y

\* changeState(reconnecting, connected), with the handlers of "reconnected".
Reconnected(x) ==
    IF x.state # "reconnecting" THEN x
    ELSE [Clear(x, {"stopReconnecting"}) EXCEPT !.state = "connected", !.quiet = 0]

-----------------------------------------------------------------------------
(* Starting.                                                               *)

\* LkMarket.start.
Start ==
    /\ c.promise = "none"
    /\ c' = [c EXCEPT !.state = "connecting", !.promise = "pending", !.request = "negotiate"]
    /\ UNCHANGED << log, losses, sleeps >>

NegotiateAnswered ==
    /\ c.request = "negotiate"
    /\ c' = Initialize([c EXCEPT !.request = "none"], 1)
    /\ UNCHANGED << log, losses, sleeps >>

NegotiateFailed ==
    /\ c.request = "negotiate"
    /\ Lose
    /\ c' = Stop(Reject([c EXCEPT !.request = "none"]))
    /\ UNCHANGED << log, sleeps >>

TransportTimeout ==
    /\ Armed("transportTimeout")
    /\ c' = OnFailed(Clear(c, {"transportTimeout"}))
    /\ UNCHANGED << log, losses, sleeps >>

\* The start request has succeeded: the success handler of initialize.  An exception in
\* a handler of a buffered message ends it before it resolves the promise.
StartAnswered ==
    /\ c.request = "started"
    /\ LET x == [Arm(c, {"beat", "ping"}) EXCEPT
                    !.request = "none",
                    !.completed = TRUE,
                    !.monitoring = ~ Polling(c),
                    !.quiet = 0,
                    !.slept = FALSE,
                    !.state = "connected"]
       IN  c' = IF Throwing(x, x.buffer) = {}
                THEN [Drained(x) EXCEPT !.promise = "resolved"]
                ELSE Drained(x)
    /\ UNCHANGED << log, losses, sleeps >>

\* triggerStartError.
StartFailed ==
    /\ c.request \in {"start", "started"}
    /\ Lose
    /\ c' = Stop(Reject([c EXCEPT !.request = "none"]))
    /\ UNCHANGED << log, sleeps >>

-----------------------------------------------------------------------------
(* A web socket or an event source.                                        *)

\* Faulty variant: messageId is not given.
OpenAfresh ==
    /\ c.channel = "opening"
    /\ LET x == [Clear(c, {"reconnect", "attempt"}) EXCEPT
                    !.channel = "open", !.alive = TRUE, !.base = Len(log), !.cursor = Len(log)]
       IN  c' = Reconnected(x)
    /\ UNCHANGED << log, losses, sleeps >>

\* onopen.  The first channel is sent what is published from now on, any other what
\* follows the messageId it gives.
Open ==
    /\ c.channel = "opening"
    /\ LET x == [Clear(c, {"reconnect", "attempt"}) EXCEPT
                    !.channel = "open", !.alive = TRUE,
                    !.base   = IF c.first THEN Len(log) ELSE @,
                    !.cursor = IF c.first THEN Len(log) ELSE @]
       IN  c' = Reconnected(x)
    /\ UNCHANGED << log, losses, sleeps >>

Reaches == c.channel = "open" /\ c.alive /\ ~ Polling(c)

\* The response with S, the first over a first channel.
Initialized ==
    /\ Reaches
    /\ c.first /\ ~ c.greeted
    /\ c' = InitReceived([c EXCEPT !.greeted = TRUE, !.quiet = 0])
    /\ UNCHANGED << log, losses, sleeps >>

Batch(k) == [i \in 1..(k - c.cursor) |-> c.cursor + i]

\* Faulty variant: the id of the last message is not kept.
ReceiveForgetful(k) ==
    /\ Reaches
    /\ c.first => c.greeted
    /\ k > c.cursor
    /\ c' = Received([c EXCEPT !.quiet = 0, !.cursor = k - 1], Batch(k))
    /\ UNCHANGED << log, losses, sleeps >>

\* processMessages: one response brings the messages up to the k-th.
Receive(k) ==
    /\ Reaches
    /\ c.first => c.greeted
    /\ k > c.cursor
    /\ c' = Received([c EXCEPT !.quiet = 0, !.cursor = k], Batch(k))
    /\ UNCHANGED << log, losses, sleeps >>

\* An empty response only shows that there is a connection.
KeepAlive ==
    /\ Reaches
    /\ c.quiet > 0
    /\ c' = [c EXCEPT !.quiet = 0]
    /\ UNCHANGED << log, losses, sleeps >>

\* handleParseFailure.
Garbled ==
    /\ Reaches
    /\ Lose
    /\ LET x == IF c.first THEN OnFailed(c) ELSE c
       IN  c' = IF c.first /\ Abandoned(x) THEN x ELSE Stop(x)
    /\ UNCHANGED << log, sleeps >>

\* onclose, and the error event of an event source.
Close ==
    /\ c.channel \in {"opening", "open"} /\ ~ Polling(c)
    /\ Lose
    /\ LET x == IF c.first THEN OnFailed(c) ELSE c
       IN  c' = IF c.first /\ Abandoned(x) THEN x ELSE Reconnect([x EXCEPT !.channel = "closed"])
    /\ UNCHANGED << log, sleeps >>

\* The other end is gone, and nothing says so.
FallSilent ==
    /\ c.channel = "open" /\ c.alive
    /\ Lose
    /\ c' = [c EXCEPT !.alive = FALSE]
    /\ UNCHANGED << log, sleeps >>

ReconnectTimer ==
    /\ Armed("reconnect")
    /\ LET x == EnsureReconnecting(TransportStop(c))
       IN  c' = IF c.slept THEN Stop(c)
                ELSE IF x.state # "reconnecting" THEN x
                ELSE [x EXCEPT !.channel = "opening", !.first = FALSE,
                               !.timers = @ \cup IF Using(c, "serverSentEvents")
                                                 THEN {"attempt"} ELSE {}]
    /\ UNCHANGED << log, losses, sleeps >>

\* An event source that does not open in time is replaced.
AttemptTimer ==
    /\ Armed("attempt")
    /\ c' = Reconnect(Clear(c, {"attempt"}))
    /\ UNCHANGED << log, losses, sleeps >>

\* onReconnectTimeout.
StopReconnectingTimer ==
    /\ Armed("stopReconnecting")
    /\ c' = Stop(Clear(c, {"stopReconnecting"}))
    /\ UNCHANGED << log, losses, sleeps >>

-----------------------------------------------------------------------------
(* Long polling: the channel is the request that waits for an answer.      *)

\* poll().  Until a response has come it is a connect.
Poll(x) ==
    [x EXCEPT !.channel = "open", !.alive = TRUE,
              !.timers = @ \cup IF x.greeted /\ x.raising THEN {"raise"} ELSE {},
              !.base   = IF x.greeted THEN @ ELSE Len(log),
              !.cursor = IF x.greeted THEN @ ELSE Len(log)]

PollTimer ==
    /\ Armed("poll")
    /\ c' = Poll(Clear(c, {"poll"}))
    /\ UNCHANGED << log, losses, sleeps >>

\* success, with the messages up to the k-th; the server may ask to reconnect.  After
\* an exception there is no next poll.
PollAnswered(k, shouldReconnect) ==
    /\ Polling(c) /\ c.channel = "open" /\ c.alive
    /\ k >= c.cursor
    /\ IF shouldReconnect THEN Lose ELSE UNCHANGED losses
    /\ LET back  == IF "raise" \in c.timers THEN Reconnected(Clear(c, {"raise"})) ELSE c
           got   == Received([back EXCEPT !.quiet = 0, !.cursor = k, !.channel = "none"],
                             Batch(k))
           begun == [IF c.greeted THEN got ELSE InitReceived(got) EXCEPT !.greeted = TRUE]
           next  == [IF shouldReconnect THEN EnsureReconnecting(begun) ELSE begun EXCEPT
                        !.raising = shouldReconnect]
       IN  c' = IF Interrupted(back, Batch(k)) THEN got
                ELSE IF shouldReconnect /\ next.state # "reconnecting" THEN next
                ELSE Poll(next)
    /\ UNCHANGED << log, sleeps >>

\* error, or no answer in time.
PollFailed ==
    /\ Polling(c) /\ c.channel = "open"
    /\ IF c.alive THEN Lose ELSE UNCHANGED losses
    /\ LET x == OnFailed([Clear(c, {"raise"}) EXCEPT !.channel = "none"])
           y == EnsureReconnecting(x)
       IN  c' = IF Abandoned(x) THEN x
                ELSE IF x.slept THEN Stop(x)
                ELSE IF y.state # "reconnecting" THEN y
                ELSE Arm([y EXCEPT !.raising = TRUE], {"poll"})
    /\ UNCHANGED << log, sleeps >>

\* fireReconnected: a poll that has not failed for long enough.
RaiseTimer ==
    /\ Armed("raise")
    /\ c' = Reconnected(Clear(c, {"raise"}))
    /\ UNCHANGED << log, losses, sleeps >>

-----------------------------------------------------------------------------
(* Watching, and calling.                                                  *)

\* beat: checkIfAlive, then markActive.  When the former has stopped the connection
\* there is no lastActiveAt any more, and the latter finds nothing wrong.
Beat ==
    /\ Armed("beat")
    /\ LET watched == c.monitoring /\ c.state = "connected"
           x == CASE watched /\ c.quiet >= KeepAliveBeats -> Reconnect(c)
                  [] watched /\ c.quiet < KeepAliveBeats  -> [c EXCEPT !.quiet = @ + 1]
                  [] OTHER                                -> c
       IN  c' = IF x.slept THEN Stop(x) ELSE Arm(x, {"beat"})
    /\ UNCHANGED << log, losses, sleeps >>

\* A ping to keep the page signed in is refused.
PingRefused ==
    /\ Armed("ping")
    /\ Lose
    /\ c' = Stop(c)
    /\ UNCHANGED << log, sleeps >>

Sleep ==
    /\ c.state \in {"connected", "reconnecting"}
    /\ ~ c.slept
    /\ sleeps < MaxSleeps
    /\ sleeps' = sleeps + 1
    /\ c' = [c EXCEPT !.slept = TRUE]
    /\ UNCHANGED << log, losses >>

\* hubProxy.invoke and connection.send.  A call is settled when its caller has been told
\* how it ended, which for a connection or a socket that is not open yet is at once.  A
\* socket that is closed drops what is sent: while the connection does not know of that
\* the call fails when it does, but afterwards nobody is told.
Invoke(k) ==
    /\ c.calls[k] = "unused"
    /\ c.promise # "none"
    /\ c' = [c EXCEPT !.calls[k] =
                IF c.state \in {"disconnected", "connecting"} THEN "settled"
                ELSE IF ~ Using(c, "webSockets") THEN "posted"
                ELSE IF c.channel = "opening" THEN "settled"
                ELSE IF c.channel = "closed" /\ c.state = "reconnecting" THEN "dropped"
                ELSE "sent"]
    /\ UNCHANGED << log, losses, sleeps >>

\* The answer over the socket.
Answer(k) ==
    /\ c.calls[k] = "sent"
    /\ Reaches
    /\ c' = [c EXCEPT !.calls[k] = "settled", !.quiet = 0]
    /\ UNCHANGED << log, losses, sleeps >>

\* The answer to the request a call was posted in, or that request's failure.
PostEnded(k) ==
    /\ c.calls[k] = "posted"
    /\ c' = [c EXCEPT !.calls[k] = "settled"]
    /\ UNCHANGED << log, losses, sleeps >>

\* Its answer cannot be read, which stops the connection.
PostGarbled(k) ==
    /\ c.calls[k] = "posted"
    /\ Lose
    /\ c' = Stop([c EXCEPT !.calls[k] = "settled"])
    /\ UNCHANGED << log, sleeps >>

-----------------------------------------------------------------------------

\* What depends on the page and its server alone.
Timers ==
    \/ TransportTimeout \/ ReconnectTimer \/ AttemptTimer \/ StopReconnectingTimer
    \/ PollTimer \/ RaiseTimer \/ Beat

Traffic ==
    \/ NegotiateAnswered \/ StartAnswered \/ Open \/ Initialized \/ KeepAlive
    \/ \E k \in 1..Len(log) : Receive(k)
    \/ \E k \in 0..Len(log) : PollAnswered(k, FALSE)
    \/ \E k \in Calls : Answer(k) \/ PostEnded(k)

Failures ==
    \/ NegotiateFailed \/ StartFailed \/ Garbled \/ Close \/ FallSilent \/ PollFailed
    \/ PingRefused \/ Sleep
    \/ \E k \in 0..Len(log) : PollAnswered(k, TRUE)
    \/ \E k \in Calls : PostGarbled(k)

User == Start \/ \E k \in Calls : Invoke(k)

ConnectionNext == Timers \/ Traffic \/ Failures \/ User

=============================================================================
