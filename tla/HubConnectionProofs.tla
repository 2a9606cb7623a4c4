------------------------ MODULE HubConnectionProofs ------------------------
(***************************************************************************)
(* What holds of the page's connection for any transports, any number of   *)
(* failures, sleeps, calls, messages and tasks of the server.  The         *)
(* invariant says which state of the connection goes with which request,   *)
(* channel and timer; each function of the connection keeps it, and so     *)
(* does each handler, as it is a composition of them.                      *)
(* A second invariant is about the messages themselves, and a third about  *)
(* the balances the server's tasks push: what the page shows in the end.   *)
(***************************************************************************)
EXTENDS TradingHub, SequenceTheorems, WellFoundedInduction, TLAPS

AllTimers == {"transportTimeout", "reconnect", "attempt", "stopReconnecting", "poll", "raise",
              "beat", "ping"}

\* The fields the invariant is about.
Fields == {"state", "promise", "request", "requested", "completed", "stopped", "channel",
           "timers", "buffer"}

Typed(x) ==
    /\ Fields \subseteq DOMAIN x
    /\ x.state \in {"disconnected", "connecting", "connected", "reconnecting"}
    /\ x.timers \subseteq AllTimers
    /\ x.promise = "none" => x.state = "disconnected" /\ x.stopped = FALSE
    /\ x.promise = "resolved" => x.completed = TRUE

\* What is left of a connection that is down.
Down(x) ==
    /\ x.channel = "none" /\ x.request = "none"
    /\ x.timers \subseteq {"beat"}
    /\ x.buffer = << >>

Good(x) ==
    /\ Typed(x)
    /\ x.state = "disconnected" => Down(x)
    /\ x.promise = "rejected" => x.state = "disconnected"
    /\ x.stopped = TRUE => x.state = "disconnected"
    /\ x.state = "reconnecting" <=> "stopReconnecting" \in x.timers
    /\ x.state \in {"connected", "reconnecting"} => x.completed = TRUE /\ x.requested = TRUE
    /\ x.request # "none" => x.state = "connecting"
    /\ x.request \in {"start", "started"} => x.requested = TRUE

-----------------------------------------------------------------------------
(* The functions of the connection.                                        *)

\* stop leaves a connection that is down, whatever was wrong with it before.
LEMMA StopGood ==
    ASSUME NEW x, Typed(x), x.state = "disconnected" => Good(x)
    PROVE  Good(Stop(x)) /\ Stop(x).state = "disconnected"
<1>1. CASE x.state = "disconnected"
  BY <1>1 DEF Stop
<1>2. CASE x.state # "disconnected"
  <2> DEFINE y == FailCalls(TransportStop(x))
             z == Stop(x)
  <2>1. /\ DOMAIN y = DOMAIN x
        /\ y.timers = x.timers \ {"reconnect", "attempt", "poll", "raise"}
        /\ y.channel = "none"
        /\ \A f \in Fields \ {"timers", "channel"} : y[f] = x[f]
    BY DEF FailCalls, TransportStop, Typed, Fields
  <2> HIDE DEF y
  <2>2. /\ DOMAIN z = DOMAIN x
        /\ z.timers = y.timers \ {"beat", "ping", "stopReconnecting", "transportTimeout"}
        /\ z.state = "disconnected" /\ z.request = "none" /\ z.stopped = TRUE
        /\ z.channel = "none" /\ z.buffer = << >>
        /\ z.completed = x.completed /\ z.promise \in {x.promise, "rejected"}
    BY <1>2, <2>1 DEF Stop, y, Typed, Fields
  <2> HIDE DEF z
  <2>3. z.timers = {}
    BY <2>1, <2>2 DEF Typed, AllTimers
  <2> QED
    BY <1>2, <2>2, <2>3 DEF Good, Typed, Down, z
<1> QED
  BY <1>1, <1>2

LEMMA RejectStopGood ==
    ASSUME NEW x, Typed(x), x.state # "disconnected"
    PROVE  /\ Good(Stop(Reject(x))) /\ Stop(Reject(x)).state = "disconnected"
           /\ Stop(Reject(x)).stopped = TRUE
<1>1. Typed(Reject(x)) /\ Reject(x).state # "disconnected"
  BY DEF Reject, Typed, Fields
<1>2. Stop(Reject(x)).stopped = TRUE
  BY <1>1 DEF Stop, TransportStop, FailCalls, Typed, Fields
<1> QED
  BY <1>1, <1>2, StopGood

LEMMA TransportStopGood ==
    ASSUME NEW x, Good(x)
    PROVE  Good(TransportStop(x)) /\ TransportStop(x).state = x.state
  BY DEF TransportStop, Good, Typed, Down, Fields

LEMMA InitializeGood ==
    ASSUME NEW x, NEW i, Good(x), x.state # "disconnected"
    PROVE  /\ Good(Initialize(x, i))
           /\ Initialize(x, i).state # "disconnected" \/ Initialize(x, i).stopped = TRUE
<1>1. CASE i > Len(Transports)
  BY <1>1, RejectStopGood DEF Initialize, Good
<1>2. CASE ~ (i > Len(Transports))
  BY <1>2 DEF Initialize, Good, Typed, Down, Fields, AllTimers
<1> QED
  BY <1>1, <1>2

LEMMA ClearGood ==
    ASSUME NEW x, Good(x), NEW T, "stopReconnecting" \notin T
    PROVE  Good(Clear(x, T)) /\ Clear(x, T).state = x.state
  BY DEF Clear, Good, Typed, Down, Fields

LEMMA ArmGood ==
    ASSUME NEW x, Good(x), NEW T, T \subseteq AllTimers, "stopReconnecting" \notin T,
           x.state = "disconnected" => T \subseteq {"beat"}
    PROVE  Good(Arm(x, T)) /\ Arm(x, T).state = x.state
  BY DEF Arm, Good, Typed, Down, Fields

\* What the failure of a transport's start comes to.
LEMMA TransportFailedGood ==
    ASSUME NEW x, Good(x), x.state # "disconnected"
    PROVE  /\ Good(TransportFailed(x))
           /\ TransportFailed(x).state # "disconnected" \/ TransportFailed(x).stopped = TRUE
<1> DEFINE y == Clear(x, {"transportTimeout"})
<1>1. Good(y) /\ y.state # "disconnected"
  BY ClearGood
<1>2. Good(TransportStop(y)) /\ TransportStop(y).state # "disconnected"
  BY <1>1, TransportStopGood
<1>3. CASE x.stopped
  BY <1>3 DEF TransportFailed
<1>4. CASE ~ x.stopped /\ ~ x.requested
  BY <1>2, <1>4, InitializeGood DEF TransportFailed
<1>5. CASE ~ x.stopped /\ x.requested /\ ~ x.completed
  BY <1>1, <1>5, RejectStopGood DEF TransportFailed, Good
<1>6. CASE ~ x.stopped /\ x.requested /\ x.completed
  BY <1>1, <1>6 DEF TransportFailed
<1> QED
  BY <1>3, <1>4, <1>5, <1>6

LEMMA OnFailedGood ==
    ASSUME NEW x, Good(x), x.state # "disconnected"
    PROVE  /\ Good(OnFailed(x))
           /\ OnFailed(x).state # "disconnected" \/ OnFailed(x).stopped = TRUE
<1>1. Good([x EXCEPT !.failed = TRUE]) /\ [x EXCEPT !.failed = TRUE].state # "disconnected"
  BY DEF Good, Typed, Down, Fields
<1> QED
  BY <1>1, TransportFailedGood DEF OnFailed

LEMMA InitReceivedGood ==
    ASSUME NEW x, Good(x), x.state # "disconnected"
    PROVE  Good(InitReceived(x)) /\ InitReceived(x).state = x.state
  BY DEF InitReceived, Clear, Good, Typed, Down, Fields

LEMMA ReconnectGood ==
    ASSUME NEW x, Good(x)
    PROVE  Good(Reconnect(x))
<1>1. CASE x.state \notin {"connected", "reconnecting"} \/ "reconnect" \in x.timers
  BY <1>1 DEF Reconnect
<1>2. CASE x.state \in {"connected", "reconnecting"}
  <2>1. Good(Stop(x)) /\ Good(Arm(x, {"reconnect"}))
    BY <1>2, StopGood, ArmGood DEF AllTimers, Good
  <2> QED
    BY <2>1 DEF Reconnect
<1> QED
  BY <1>1, <1>2

LEMMA EnsureReconnectingGood ==
    ASSUME NEW x, Good(x)
    PROVE  /\ Good(EnsureReconnecting(x))
           /\ EnsureReconnecting(x).state = "disconnected" <=> x.state = "disconnected"
  BY DEF EnsureReconnecting, Arm, FailCalls, Good, Typed, Down, Fields, AllTimers

LEMMA ReconnectedGood ==
    ASSUME NEW x, Good(x)
    PROVE  /\ Good(Reconnected(x))
           /\ Reconnected(x).state = "disconnected" <=> x.state = "disconnected"
  BY DEF Reconnected, Clear, Good, Typed, Down, Fields

LEMMA ReceivedGood ==
    ASSUME NEW x, NEW s, Good(x)
    PROVE  Good(Received(x, s)) /\ Received(x, s).state = x.state
  BY DEF Received, Deliver, Good, Typed, Down, Fields

LEMMA PollGood ==
    ASSUME NEW x, Good(x), x.state # "disconnected"
    PROVE  Good(Poll(x))
  BY DEF Poll, Good, Typed, Down, Fields, AllTimers

-----------------------------------------------------------------------------
(* The handlers.                                                           *)

\* Starting.
LEMMA StartingGood ==
    ASSUME Good(c),
           Start \/ NegotiateAnswered \/ NegotiateFailed \/ TransportTimeout
           \/ StartAnswered \/ StartFailed \/ OnConnected
    PROVE  Good(c')
<1> DEFINE y == [c EXCEPT !.request = "none"]
<1>1. Good(y) /\ y.state = c.state
  BY DEF Good, Typed, Down, Fields
<1> HIDE DEF y
<1>2. c.request # "none" => c.state # "disconnected"
  BY DEF Good, Down
<1>3. CASE Start
  BY <1>3 DEF Start, Good, Typed, Down, Fields
<1>4. CASE NegotiateAnswered
  BY <1>1, <1>2, <1>4, InitializeGood DEF NegotiateAnswered, y
<1>5. CASE NegotiateFailed \/ StartFailed
  <2>1. c' = Stop(Reject(y)) /\ c.request # "none"
    BY <1>5 DEF NegotiateFailed, StartFailed, y
  <2> QED
    BY <1>1, <1>2, <2>1, RejectStopGood DEF Good
<1>6. CASE TransportTimeout
  <2>1. c.state # "disconnected"
    BY <1>6 DEF TransportTimeout, Armed, Good, Down
  <2>2. /\ Good(Clear(c, {"transportTimeout"}))
        /\ Clear(c, {"transportTimeout"}).state # "disconnected"
    BY <2>1, ClearGood
  <2> QED
    BY <1>6, <2>2, OnFailedGood DEF TransportTimeout
<1>7. CASE StartAnswered
  BY <1>7 DEF StartAnswered, Drained, Deliver, Arm, Good, Typed, Down, Fields, AllTimers
<1>8. CASE OnConnected
  BY <1>8 DEF OnConnected, Good, Typed, Down, Fields
<1> QED
  BY <1>3, <1>4, <1>5, <1>6, <1>7, <1>8

\* A web socket or an event source.
LEMMA ChannelGood ==
    ASSUME Good(c),
           \/ Open \/ Initialized \/ KeepAlive \/ Garbled \/ Close \/ FallSilent
           \/ ReconnectTimer \/ AttemptTimer \/ StopReconnectingTimer
           \/ \E k \in 1..Len(log) : Receive(k)
    PROVE  Good(c')
<1>1. c.channel # "none" => c.state # "disconnected"
  BY DEF Good, Down
<1>2. CASE Open
  <2> DEFINE x == [Clear(c, {"reconnect", "attempt"}) EXCEPT
                      !.channel = "open", !.alive = TRUE,
                      !.base   = IF c.first THEN Len(log) ELSE @,
                      !.cursor = IF c.first THEN Len(log) ELSE @]
  <2>1. Good(x)
    BY <1>1, <1>2 DEF Open, Clear, Good, Typed, Down, Fields
  <2> QED
    BY <1>2, <2>1, ReconnectedGood DEF Open
<1>3. CASE Initialized
  <2>1. LET x == [c EXCEPT !.greeted = TRUE, !.quiet = 0]
        IN  Good(x) /\ x.state # "disconnected"
    BY <1>1, <1>3 DEF Initialized, Reaches, Good, Typed, Down, Fields
  <2> QED
    BY <1>3, <2>1, InitReceivedGood DEF Initialized
<1>4. CASE KeepAlive \/ FallSilent
  BY <1>4 DEF KeepAlive, FallSilent, Good, Typed, Down, Fields
<1>5. CASE Garbled \/ Close
  <2> DEFINE x == IF c.first THEN OnFailed(c) ELSE c
             y == [x EXCEPT !.channel = "closed"]
  <2>1. Good(x) /\ (x.state # "disconnected" \/ x.stopped = TRUE)
    BY <1>1, <1>5, OnFailedGood DEF Garbled, Close, Reaches
  <2> HIDE DEF x
  <2>2. Good(Stop(x))
    BY <2>1, StopGood DEF Good
  <2>3. x.state # "disconnected" => Good(Reconnect(y))
    <3>1. x.state # "disconnected" => Good(y)
      BY <2>1 DEF Good, Typed, Down, Fields
    <3> QED
      BY <3>1, ReconnectGood
  <2>4. c.first /\ ~ Abandoned(x) => x.state # "disconnected"
    BY <2>1 DEF Abandoned
  <2>5. ~ c.first => x.state # "disconnected"
    BY <1>1, <1>5 DEF Garbled, Close, Reaches, x
  <2>6. CASE Garbled
    BY <2>1, <2>2, <2>6 DEF Garbled, x
  <2>7. CASE Close
    BY <2>1, <2>3, <2>4, <2>5, <2>7 DEF Close, x
  <2> QED
    BY <1>5, <2>6, <2>7
<1>6. CASE ReconnectTimer
  <2> DEFINE x == EnsureReconnecting(TransportStop(c))
  <2>1. Good(x) /\ Good(Stop(c))
    BY TransportStopGood, EnsureReconnectingGood, StopGood DEF Good
  <2> HIDE DEF x
  <2>2. x.state = "reconnecting" =>
            Good([x EXCEPT !.channel = "opening", !.first = FALSE,
                           !.timers = @ \cup IF Using(c, "serverSentEvents")
                                             THEN {"attempt"} ELSE {}])
    BY <2>1 DEF Good, Typed, Down, Fields, AllTimers
  <2> QED
    BY <1>6, <2>1, <2>2 DEF ReconnectTimer, x
<1>7. CASE AttemptTimer
  BY <1>7, ClearGood, ReconnectGood DEF AttemptTimer
<1>8. CASE StopReconnectingTimer
  <2>1. /\ Typed(Clear(c, {"stopReconnecting"}))
        /\ Clear(c, {"stopReconnecting"}).state # "disconnected"
    BY <1>8 DEF StopReconnectingTimer, Armed, Clear, Good, Typed, Down, Fields
  <2> QED
    BY <1>8, <2>1, StopGood DEF StopReconnectingTimer
<1>9. ASSUME NEW k \in 1..Len(log), Receive(k) PROVE Good(c')
  <2>1. Good([c EXCEPT !.quiet = 0, !.cursor = k])
    BY DEF Good, Typed, Down, Fields
  <2> QED
    BY <1>9, <2>1, ReceivedGood DEF Receive
<1> QED
  BY <1>2, <1>3, <1>4, <1>5, <1>6, <1>7, <1>8, <1>9

\* Long polling.
LEMMA PollingGood ==
    ASSUME Good(c),
           \/ PollTimer \/ PollFailed \/ RaiseTimer
           \/ \E k \in 0..Len(log), again \in BOOLEAN : PollAnswered(k, again)
    PROVE  Good(c')
<1>1. c.channel # "none" => c.state # "disconnected"
  BY DEF Good, Down
<1>2. CASE PollTimer
  <2>1. c.state # "disconnected"
    BY <1>2 DEF PollTimer, Armed, Good, Down
  <2> QED
    BY <1>2, <2>1, ClearGood, PollGood DEF PollTimer
<1>3. CASE PollFailed
  <2> DEFINE v == Clear(c, {"raise"})
             w == [v EXCEPT !.channel = "none"]
             x == OnFailed(w)
             y == EnsureReconnecting(x)
             z == [y EXCEPT !.raising = TRUE]
  <2>1. Good(v) /\ v.state # "disconnected"
    BY <1>1, <1>3, ClearGood DEF PollFailed
  <2> HIDE DEF v
  <2>2. Good(w) /\ w.state # "disconnected"
    BY <2>1 DEF Good, Typed, Down, Fields
  <2> HIDE DEF w
  <2>3. Good(x) /\ Good(y) /\ Good(Stop(x))
    <3>1. Good(x)
      BY <2>2, OnFailedGood
    <3> HIDE DEF x
    <3>2. Good(Stop(x))
      BY <3>1, StopGood DEF Good
    <3> QED
      BY <3>1, <3>2, EnsureReconnectingGood
  <2>4. y.state = "reconnecting" => Good(Arm(z, {"poll"}))
    <3> HIDE DEF y
    <3>1. Good(z) /\ z.state = y.state
      BY <2>3 DEF Good, Typed, Down, Fields
    <3> QED
      BY <3>1, ArmGood DEF AllTimers
  <2> QED
    BY <1>3, <2>3, <2>4 DEF PollFailed, v, w
<1>4. CASE RaiseTimer
  BY <1>4, ClearGood, ReconnectedGood DEF RaiseTimer
<1>5. ASSUME NEW k \in 0..Len(log), NEW again \in BOOLEAN, PollAnswered(k, again)
      PROVE  Good(c')
  <2> DEFINE back  == IF "raise" \in c.timers THEN Reconnected(Clear(c, {"raise"})) ELSE c
             prior == [back EXCEPT !.quiet = 0, !.cursor = k, !.channel = "none"]
             got   == Received(prior, Batch(k))
             heard == IF c.greeted THEN got ELSE InitReceived(got)
             begun == [heard EXCEPT !.greeted = TRUE]
             ended == IF again THEN EnsureReconnecting(begun) ELSE begun
             next  == [ended EXCEPT !.raising = again]
  <2>1. Good(back) /\ back.state # "disconnected"
    <3>1. Good(Clear(c, {"raise"})) /\ Clear(c, {"raise"}).state # "disconnected"
      BY <1>1, <1>5, ClearGood DEF PollAnswered
    <3> QED
      BY <1>1, <1>5, <3>1, ReconnectedGood DEF PollAnswered
  <2>2. Good(prior) /\ prior.state # "disconnected"
    <3> HIDE DEF back
    <3> QED
      BY <2>1 DEF Good, Typed, Down, Fields
  <2>3. Good(got) /\ got.state # "disconnected"
    <3> HIDE DEF prior
    <3> QED
      BY <2>2, ReceivedGood
  <2>4. Good(heard) /\ heard.state # "disconnected"
    <3> HIDE DEF got
    <3> QED
      BY <2>3, InitReceivedGood
  <2>5. Good(begun) /\ begun.state # "disconnected"
    <3> HIDE DEF heard
    <3> QED
      BY <2>4 DEF Good, Typed, Down, Fields
  <2>6. Good(ended) /\ ended.state # "disconnected"
    <3> HIDE DEF begun
    <3> QED
      BY <2>5, EnsureReconnectingGood
  <2>7. Good(next) /\ next.state # "disconnected"
    <3> HIDE DEF ended
    <3> QED
      BY <2>6 DEF Good, Typed, Down, Fields
  <2>8. c' \in {got, next, Poll(next)}
    BY <1>5 DEF PollAnswered
  <2>9. Good(Poll(next))
    <3> HIDE DEF next
    <3> QED
      BY <2>7, PollGood
  <2> HIDE DEF got, next
  <2> QED
    BY <2>3, <2>7, <2>8, <2>9
<1> QED
  BY <1>2, <1>3, <1>4, <1>5

\* Watching, and calling.
LEMMA WatchingGood ==
    ASSUME Good(c),
           \/ Beat \/ PingRefused \/ Sleep
           \/ \E k \in Calls : Invoke(k) \/ Answer(k) \/ PostEnded(k) \/ PostGarbled(k)
    PROVE  Good(c')
<1>1. CASE Beat
  <2> DEFINE watched == c.monitoring /\ c.state = "connected"
             x == CASE watched /\ c.quiet >= KeepAliveBeats -> Reconnect(c)
                    [] watched /\ c.quiet < KeepAliveBeats  -> [c EXCEPT !.quiet = @ + 1]
                    [] OTHER                                -> c
  <2>1. Good(Reconnect(c)) /\ Good([c EXCEPT !.quiet = @ + 1])
    BY ReconnectGood DEF Good, Typed, Down, Fields
  <2>2. c' = IF x.slept THEN Stop(x) ELSE Arm(x, {"beat"})
    BY <1>1 DEF Beat
  <2>3. \/ x = Reconnect(c) \/ x = [c EXCEPT !.quiet = @ + 1] \/ x = c
    OBVIOUS
  <2>4. Good(x)
    BY <2>1, <2>3
  <2> HIDE DEF x
  <2>5. Good(Stop(x)) /\ Good(Arm(x, {"beat"}))
    BY <2>4, StopGood, ArmGood DEF Good, AllTimers
  <2> QED
    BY <2>2, <2>5
<1>2. CASE PingRefused
  BY <1>2, StopGood DEF PingRefused, Good
<1>3. CASE Sleep
  BY <1>3 DEF Sleep, Good, Typed, Down, Fields
<1>4. ASSUME NEW k \in Calls, NEW to, c' = [c EXCEPT !.calls[k] = to] PROVE Good(c')
  BY <1>4 DEF Good, Typed, Down, Fields
<1>5. ASSUME NEW k \in Calls, Answer(k) PROVE Good(c')
  BY <1>5 DEF Answer, Good, Typed, Down, Fields
<1>6. ASSUME NEW k \in Calls, PostGarbled(k) PROVE Good(c')
  <2>1. Good([c EXCEPT !.calls[k] = "settled"])
    BY DEF Good, Typed, Down, Fields
  <2> QED
    BY <1>6, <2>1, StopGood DEF PostGarbled, Good
<1> QED
  BY <1>1, <1>2, <1>3, <1>4, <1>5, <1>6 DEF Invoke, PostEnded

GoodConnection == Good(c)

LEMMA InitGood == Init => GoodConnection
  BY DEF GoodConnection, Init, ConnectionInit, NewConnection, Good, Typed, Down, Fields, AllTimers

LEMMA NextGood == GoodConnection /\ [Next]_vars => GoodConnection'
<1> SUFFICES ASSUME Good(c), [Next]_vars PROVE Good(c')
  BY DEF GoodConnection
<1>1. CASE Of(ConnectionNext)
  BY <1>1, StartingGood, ChannelGood, PollingGood, WatchingGood
     DEF Of, ConnectionNext, Timers, Traffic, Failures, User
<1>2. CASE OnConnected
  BY <1>2, StartingGood
<1>3. CASE OnDisconnected \/ Broadcast \/ (\E p \in Pushes : Push(p)) \/ UNCHANGED vars
  BY <1>3 DEF OnDisconnected, Broadcast, Push, ChangeBalance, LookUp, ReadBalances, SendBalances,
              vars, connectionVars
<1> QED
  BY <1>1, <1>2, <1>3 DEF Next, Server

\* start() never says what is not so: when it rejects, the connection is down, and when
\* it resolves, it has been started.
THEOREM StartOutcomes == Spec => []OutcomeTrue
<1>1. GoodConnection => OutcomeTrue
  BY DEF GoodConnection, Good, Typed, OutcomeTrue
<1> QED
  BY <1>1, InitGood, NextGood, PTL DEF Spec

\* Whatever stops the connection, at whatever point of a start, a fallback or a reconnect,
\* leaves no channel, no request and no timer that could bring it back.
THEOREM DownAltogether == Spec => []NothingLeft
<1>1. GoodConnection => NothingLeft
  BY DEF GoodConnection, Good, Down, NothingLeft
<1> QED
  BY <1>1, InitGood, NextGood, PTL DEF Spec

\* A page that reconnects always has the timer running that ends it, and no other page has.
THEOREM ReconnectBounded == Spec => []BoundedReconnect
<1>1. GoodConnection => BoundedReconnect
  BY DEF GoodConnection, Good, BoundedReconnect, Armed
<1> QED
  BY <1>1, InitGood, NextGood, PTL DEF Spec

-----------------------------------------------------------------------------
(* Messages in a row.                                                      *)

\* The messages after the a-th, up to the b-th.
Run(a, b) == [i \in 1..(b - a) |-> a + i]

LEMMA Smallest ==
    ASSUME NEW S, S \subseteq Nat, S # {}
    PROVE  \E i \in S : \A j \in S : i =< j
<1> DEFINE R == {p \in Nat \X Nat : p[1] < p[2]}
<1>1. IsWellFoundedOn(R, Nat)
  BY NatLessThanWellFounded DEF OpToRel
<1>2. PICK i \in S : \A j \in S : ~ (<< j, i >> \in R)
  <2> HIDE DEF R
  <2> QED
    BY <1>1, WFMin
<1>3. \A j \in S : j < i => << j, i >> \in R
  OBVIOUS
<1> HIDE DEF R
<1>4. \A j \in S : ~ (j < i)
  BY <1>2, <1>3
<1> QED
  BY <1>4

LEMMA RunEmpty == \A a \in Nat : Run(a, a) = << >>
<1> TAKE a \in Nat
<1>1. 1..(a - a) = {}
  OBVIOUS
<1> QED
  BY <1>1 DEF Run

LEMMA RunTyped ==
    ASSUME NEW a \in Nat, NEW b \in Nat, a =< b, NEW n \in Nat, b =< n
    PROVE  /\ Run(a, b) \in Seq(1..n) /\ Len(Run(a, b)) = b - a
           /\ \A i \in 1..(b - a) : Run(a, b)[i] = a + i
<1>1. b - a \in Nat /\ \A i \in 1..(b - a) : a + i \in 1..n
  OBVIOUS
<1>2. Run(a, b) \in [1..(b - a) -> 1..n]
  BY <1>1 DEF Run
<1> QED
  BY <1>1, <1>2 DEF Run

\* The messages up to the b-th, and those that follow.
LEMMA RunConcat ==
    ASSUME NEW a \in Nat, NEW b \in Nat, NEW k \in Nat, a =< b, b =< k
    PROVE  Run(a, b) \o Run(b, k) = Run(a, k)
<1> DEFINE s == Run(a, b)
           t == Run(b, k)
           u == Run(a, k)
<1>1. /\ s \in Seq(1..k) /\ Len(s) = b - a
      /\ \A i \in 1..(b - a) : s[i] = a + i
  BY RunTyped
<1>2. /\ t \in Seq(1..k) /\ Len(t) = k - b
      /\ \A i \in 1..(k - b) : t[i] = b + i
  BY RunTyped
<1>3. /\ u \in Seq(1..k) /\ Len(u) = k - a
      /\ \A i \in 1..(k - a) : u[i] = a + i
  <2>1. a =< k
    OBVIOUS
  <2> QED
    BY <2>1, RunTyped
<1> HIDE DEF s, t, u
<1>4. /\ s \o t \in Seq(1..k) /\ Len(s \o t) = Len(s) + Len(t)
      /\ \A i \in 1..(Len(s) + Len(t)) :
            (s \o t)[i] = IF i =< Len(s) THEN s[i] ELSE t[i - Len(s)]
  BY <1>1, <1>2, ConcatProperties
<1>5. Len(s \o t) = Len(u) /\ \A i \in 1..Len(u) : (s \o t)[i] = u[i]
  <2>1. Len(s) + Len(t) = k - a
    BY <1>1, <1>2
  <2>2. ASSUME NEW i \in 1..(k - a) PROVE (s \o t)[i] = a + i
    <3>1. CASE i =< b - a
      BY <1>1, <1>4, <2>1, <3>1
    <3>2. CASE ~ (i =< b - a)
      <4>1. i - (b - a) \in 1..(k - b) /\ b + (i - (b - a)) = a + i
        BY <3>2
      <4> QED
        BY <1>1, <1>2, <1>4, <2>1, <3>2, <4>1
    <3> QED
      BY <3>1, <3>2
  <2> QED
    BY <1>3, <1>4, <2>1, <2>2
<1>6. s \o t = u
  BY <1>3, <1>4, <1>5, SeqEqual
<1> QED
  BY <1>6 DEF s, t, u

\* A handler has failed over the messages of d.
ThrownBy(d) ==
    \E i \in DOMAIN d : /\ log[d[i]].kind = "broadcast"
                        /\ \A j \in 1..(i - 1) : log[d[j]].kind # "assets"

LEMMA ThrownGrows ==
    ASSUME NEW S, NEW d \in Seq(S), NEW e \in Seq(S), ThrownBy(d)
    PROVE  ThrownBy(d \o e)
<1>1. PICK i \in DOMAIN d : /\ log[d[i]].kind = "broadcast"
                            /\ \A j \in 1..(i - 1) : log[d[j]].kind # "assets"
  BY DEF ThrownBy
<1>2. /\ d \o e \in Seq(S) /\ Len(d \o e) = Len(d) + Len(e)
      /\ \A k \in 1..(Len(d) + Len(e)) :
            (d \o e)[k] = IF k =< Len(d) THEN d[k] ELSE e[k - Len(d)]
  BY ConcatProperties
<1>3. /\ DOMAIN d = 1..Len(d) /\ Len(d) \in Nat /\ Len(e) \in Nat
      /\ DOMAIN (d \o e) = 1..(Len(d) + Len(e))
  BY <1>2, LenProperties
<1>4. i \in DOMAIN (d \o e) /\ \A k \in 1..i : (d \o e)[k] = d[k]
  BY <1>2, <1>3
<1>5. /\ log[(d \o e)[i]].kind = "broadcast"
      /\ \A j \in 1..(i - 1) : log[(d \o e)[j]].kind # "assets"
  BY <1>1, <1>3, <1>4
<1> QED
  BY <1>4, <1>5 DEF ThrownBy

\* Either every message is taken, or one that makes its handler throw is the last.
LEMMA TakenFacts ==
    ASSUME NEW x, NEW S, NEW s \in Seq(S)
    PROVE  /\ Taken(x, s) \in 0..Len(s)
           /\ Throwing(x, s) # {} => Taken(x, s) \in Throwing(x, s)
<1>1. Len(s) \in Nat /\ DOMAIN s = 1..Len(s)
  BY LenProperties
<1>2. Throwing(x, s) \subseteq 1..Len(s)
  BY <1>1 DEF Throwing
<1>3. CASE Throwing(x, s) = {}
  BY <1>1, <1>3 DEF Taken
<1>4. CASE Throwing(x, s) # {}
  <2>1. Throwing(x, s) \subseteq Nat
    BY <1>1, <1>2
  <2>2. \E i \in Throwing(x, s) : \A j \in Throwing(x, s) : i =< j
    BY <1>4, <2>1, Smallest
  <2>3. Taken(x, s) \in Throwing(x, s)
    BY <1>4, <2>2 DEF Taken
  <2> QED
    BY <1>1, <1>2, <2>3
<1> QED
  BY <1>3, <1>4

\* All of s is handled, or an exception has been thrown.
LEMMA DeliverFacts ==
    ASSUME NEW x, "delivered" \in DOMAIN x, NEW S, x.delivered \in Seq(S), NEW s \in Seq(S)
    PROVE  /\ Deliver(x, s).delivered \in Seq(S)
           /\ ThrownBy(x.delivered) => ThrownBy(Deliver(x, s).delivered)
           /\ \/ ThrownBy(Deliver(x, s).delivered)
              \/ /\ Throwing(x, s) = {} /\ Taken(x, s) = Len(s)
                 /\ Deliver(x, s).delivered = x.delivered \o s
<1> DEFINE d == x.delivered
           n == Taken(x, s)
           e == SubSeq(s, 1, n)
           y == Deliver(x, s)
<1>1. /\ Len(s) \in Nat /\ DOMAIN s = 1..Len(s) /\ s \in [1..Len(s) -> S]
      /\ Len(d) \in Nat /\ DOMAIN d = 1..Len(d)
  BY LenProperties
<1>2. n \in 0..Len(s) /\ (Throwing(x, s) # {} => n \in Throwing(x, s))
  BY TakenFacts
<1>3. y.delivered = d \o e
  BY DEF Deliver
<1>4. e \in Seq(S) /\ Len(e) = n /\ \A i \in 1..n : e[i] = s[i]
  <2> HIDE DEF n
  <2>1. \A i \in 1..n : s[i] \in S
    BY <1>1, <1>2
  <2>2. /\ e \in Seq(S) /\ Len(e) = IF 1 =< n THEN n - 1 + 1 ELSE 0
        /\ \A i \in 1..(n - 1 + 1) : e[i] = s[1 + i - 1]
    BY <1>1, <1>2, <2>1, SubSeqProperties
  <2> QED
    BY <1>1, <1>2, <2>2
<1> HIDE DEF d, e, y, n
<1>5. /\ d \o e \in Seq(S) /\ Len(d \o e) = Len(d) + Len(e)
      /\ \A k \in 1..(Len(d) + Len(e)) :
            (d \o e)[k] = IF k =< Len(d) THEN d[k] ELSE e[k - Len(d)]
  BY <1>4, ConcatProperties DEF d
<1>6. ThrownBy(d) => ThrownBy(d \o e)
  BY <1>4, ThrownGrows DEF d
<1>7. CASE Throwing(x, s) = {}
  <2>1. n = Len(s)
    BY <1>7 DEF Taken, n
  <2>2. e = s
    BY <2>1, SubSeqFull DEF e
  <2> QED
    BY <1>3, <1>5, <1>6, <1>7, <2>1, <2>2 DEF d, y, n
<1>8. CASE Throwing(x, s) # {}
  <2> DEFINE k == Len(d) + n
  <2>1. /\ n \in 1..Len(s) /\ log[s[n]].kind = "broadcast"
        /\ \A i \in DOMAIN d : log[d[i]].kind # "assets"
        /\ \A j \in 1..(n - 1) : log[s[j]].kind # "assets"
    BY <1>1, <1>2, <1>8 DEF Throwing, Throws, KnowsAssets, d
  <2>2. k \in DOMAIN (d \o e) /\ (d \o e)[k] = s[n]
    <3>1. DOMAIN (d \o e) = 1..(Len(d) + n)
      BY <1>4, <1>5, LenProperties
    <3>2. k \in 1..(Len(d) + n) /\ ~ (k =< Len(d)) /\ k - Len(d) = n /\ n \in 1..n
      BY <1>1, <2>1
    <3> HIDE DEF k
    <3>3. (d \o e)[k] = e[k - Len(d)]
      <4>1. k \in 1..(Len(d) + Len(e))
        BY <1>4, <3>2
      <4> QED
        BY <1>5, <3>2, <4>1
    <3>4. (d \o e)[k] = s[n]
      BY <1>4, <3>2, <3>3
    <3> QED
      BY <3>1, <3>2, <3>4
  <2>3. ASSUME NEW j \in 1..(k - 1) PROVE log[(d \o e)[j]].kind # "assets"
    <3>1. CASE j =< Len(d)
      <4>1. j \in DOMAIN d /\ j \in 1..(Len(d) + Len(e))
        BY <1>1, <1>4, <2>1, <3>1
      <4> QED
        BY <1>5, <2>1, <3>1, <4>1
    <3>2. CASE ~ (j =< Len(d))
      <4>1. j - Len(d) \in 1..(n - 1) /\ j \in 1..(Len(d) + Len(e)) /\ j - Len(d) \in 1..n
        BY <1>1, <1>4, <2>1, <3>2
      <4> QED
        BY <1>4, <1>5, <2>1, <3>2, <4>1
    <3> QED
      BY <3>1, <3>2
  <2>4. ThrownBy(d \o e)
    BY <2>1, <2>2, <2>3 DEF ThrownBy
  <2> QED
    BY <1>3, <1>5, <2>4 DEF y
<1> QED
  BY <1>7, <1>8

-----------------------------------------------------------------------------
(* What the page has been given.                                           *)

MessageFields == {"delivered", "buffer", "base", "cursor", "first", "greeted", "failed"}

\* Either a handler has failed, or what has been delivered and what waits are together
\* the messages since the connection was made.
Stream(x) ==
    /\ x.delivered \in Seq(1..Len(log)) /\ x.buffer \in Seq(1..Len(log))
    /\ x.base \in Nat /\ x.cursor \in Nat /\ x.base =< x.cursor /\ x.cursor =< Len(log)
    /\ x.state = "connecting" => x.delivered = << >>
    /\ \/ ThrownBy(x.delivered)
       \/ /\ x.delivered \o x.buffer = Run(x.base, x.cursor)
          /\ x.state # "connecting" => x.buffer = << >>

\* Nothing comes before the start request, and a first channel opens only before it.
Handshake(x) ==
    /\ x.greeted = TRUE <=> x.requested = TRUE
    /\ x.first = TRUE /\ x.channel = "opening" => x.requested # TRUE
    /\ x.first # TRUE /\ (x.channel # "none" \/ "poll" \in x.timers) => x.requested = TRUE
    /\ x.requested # TRUE => x.delivered = << >> /\ x.buffer = << >>
    /\ x.completed = TRUE => x.requested = TRUE
    /\ x.request = "negotiate" => x.requested # TRUE

\* A transport whose start has failed is not used any more, or had done its part.
Replaced(x) == x.failed = TRUE => x.requested = TRUE

Fresh(x) ==
    /\ x.delivered = << >> /\ x.base = 0 /\ x.cursor = 0
    /\ x.greeted = FALSE /\ x.requested = FALSE /\ x.completed = FALSE /\ x.failed = FALSE

Shaped(x) == Good(x) /\ MessageFields \subseteq DOMAIN x

Flow(x) ==
    /\ Shaped(x)
    /\ x.state # "disconnected" => Stream(x) /\ Handshake(x) /\ Replaced(x)

\* It has been started: only stop takes it down.
Begun(x) == x.state # "disconnected" \/ x.stopped = TRUE

LEMMA KeepFlow ==
    ASSUME NEW x, Stream(x), NEW y, Shaped(y),
           y.state # "disconnected" =>
               /\ y.delivered = x.delivered /\ y.buffer = x.buffer
               /\ y.base = x.base /\ y.cursor = x.cursor
               /\ y.state = "connecting" <=> x.state = "connecting"
               /\ Handshake(y) /\ Replaced(y)
    PROVE  Flow(y)
  BY DEF Flow, Stream

LEMMA StopFlow ==
    ASSUME NEW x, Typed(x), MessageFields \subseteq DOMAIN x, x.state # "disconnected"
    PROVE  Flow(Stop(x)) /\ Begun(Stop(x)) /\ Stop(x).stopped = TRUE
<1>1. Good(Stop(x)) /\ Stop(x).state = "disconnected"
  BY StopGood
<1>2. DOMAIN Stop(x) = DOMAIN x /\ Stop(x).stopped = TRUE
  BY DEF Stop, TransportStop, FailCalls, Typed, Fields
<1> QED
  BY <1>1, <1>2 DEF Flow, Shaped, Begun

LEMMA RejectStopFlow ==
    ASSUME NEW x, Typed(x), MessageFields \subseteq DOMAIN x, x.state # "disconnected"
    PROVE  Flow(Stop(Reject(x))) /\ Begun(Stop(Reject(x)))
<1>1. /\ Typed(Reject(x)) /\ Reject(x).state # "disconnected"
      /\ MessageFields \subseteq DOMAIN Reject(x)
  BY DEF Reject, Typed, Fields
<1> QED
  BY <1>1, StopFlow

\* The timers do not matter.
LEMMA TimersFlow ==
    ASSUME NEW x, Flow(x), NEW T, Good([x EXCEPT !.timers = T]),
           "poll" \in T => "poll" \in x.timers
    PROVE  Flow([x EXCEPT !.timers = T])
<1> DEFINE y == [x EXCEPT !.timers = T]
<1>1. /\ DOMAIN y = DOMAIN x /\ y.timers = T
      /\ \A f \in (Fields \cup MessageFields) \ {"timers"} : y[f] = x[f]
  BY DEF Flow, Shaped, Good, Typed, Fields, MessageFields
<1> HIDE DEF y
<1>2. Flow(y)
  BY <1>1 DEF y, Flow, Shaped, Stream, Handshake, Replaced, Fields, MessageFields
<1> QED
  BY <1>2 DEF y

LEMMA TransportStopFlow ==
    ASSUME NEW x, Shaped(x), x.state # "disconnected", Stream(x), Handshake(x)
    PROVE  /\ Shaped(TransportStop(x)) /\ TransportStop(x).state = x.state
           /\ TransportStop(x).requested = x.requested
           /\ Stream(TransportStop(x)) /\ Handshake(TransportStop(x))
<1> DEFINE y == TransportStop(x)
<1>1. /\ DOMAIN y = DOMAIN x /\ y.channel = "none" /\ "poll" \notin y.timers
      /\ \A f \in (Fields \cup MessageFields) \ {"timers", "channel"} : y[f] = x[f]
  BY DEF TransportStop, Shaped, Good, Typed, Fields, MessageFields
<1>2. Good(y)
  BY TransportStopGood DEF Shaped
<1> HIDE DEF y
<1>3. Shaped(y) /\ y.state = x.state /\ y.requested = x.requested /\ Stream(y) /\ Handshake(y)
  BY <1>1, <1>2 DEF Shaped, Stream, Handshake, Fields, MessageFields
<1> QED
  BY <1>3 DEF y

LEMMA InitializeFlow ==
    ASSUME NEW x, NEW i, Shaped(x), x.state # "disconnected", Stream(x), Handshake(x),
           x.requested # TRUE
    PROVE  Flow(Initialize(x, i)) /\ Begun(Initialize(x, i))
<1> DEFINE y == Initialize(x, i)
<1>1. CASE i > Len(Transports)
  BY <1>1, RejectStopFlow DEF Initialize, Shaped, Good
<1>2. CASE ~ (i > Len(Transports))
  <2>1. Good(y) /\ Begun(y)
    BY InitializeGood DEF Shaped, Begun
  <2>2. /\ DOMAIN y = DOMAIN x
        /\ y.failed = FALSE /\ y.first = TRUE /\ y.greeted = FALSE
        /\ \A f \in {"delivered", "buffer", "base", "cursor", "state", "request", "requested",
                      "completed"} : y[f] = x[f]
    BY <1>2 DEF Initialize, Shaped, Good, Typed, Fields, MessageFields
  <2> HIDE DEF y
  <2>3. Flow(y)
    BY <2>1, <2>2 DEF Flow, Shaped, Stream, Handshake, Replaced, Fields, MessageFields
  <2> QED
    BY <2>1, <2>3 DEF y
<1> QED
  BY <1>1, <1>2

LEMMA TransportFailedFlow ==
    ASSUME NEW x, Shaped(x), x.state # "disconnected", Stream(x), Handshake(x)
    PROVE  Flow(TransportFailed(x)) /\ Begun(TransportFailed(x))
<1> DEFINE y == Clear(x, {"transportTimeout"})
<1>1. Good(y) /\ y.state = x.state
  BY ClearGood DEF Shaped
<1>2. /\ DOMAIN y = DOMAIN x /\ y.timers \subseteq x.timers
      /\ \A f \in (Fields \cup MessageFields) \ {"timers"} : y[f] = x[f]
  BY DEF Clear, Shaped, Good, Typed, Fields, MessageFields
<1>3. TransportFailed(x) = IF x.stopped THEN x
                           ELSE IF ~ x.requested THEN Initialize(TransportStop(y), x.index + 1)
                           ELSE IF ~ x.completed THEN Stop(Reject(y))
                           ELSE y
  BY DEF TransportFailed
<1> HIDE DEF y
<1>4. Shaped(y) /\ Stream(y) /\ Handshake(y) /\ y.requested = x.requested
  BY <1>1, <1>2 DEF Shaped, Stream, Handshake, Fields, MessageFields
<1>5. CASE x.stopped
  BY <1>5 DEF Shaped, Good
<1>6. CASE ~ x.stopped /\ ~ x.requested
  <2> DEFINE z == TransportStop(y)
  <2>1. Shaped(z) /\ z.state # "disconnected" /\ z.requested # TRUE /\ Stream(z) /\ Handshake(z)
    BY <1>1, <1>4, <1>6, TransportStopFlow
  <2> HIDE DEF z
  <2>2. Flow(Initialize(z, x.index + 1)) /\ Begun(Initialize(z, x.index + 1))
    BY <2>1, InitializeFlow
  <2> QED
    BY <1>3, <1>6, <2>2 DEF z
<1>7. CASE ~ x.stopped /\ x.requested /\ ~ x.completed
  BY <1>1, <1>3, <1>4, <1>7, RejectStopFlow DEF Shaped, Good
<1>8. CASE ~ x.stopped /\ x.requested /\ x.completed
  BY <1>1, <1>3, <1>4, <1>8 DEF Flow, Replaced, Begun
<1> QED
  BY <1>5, <1>6, <1>7, <1>8

LEMMA OnFailedFlow ==
    ASSUME NEW x, Flow(x), x.state # "disconnected"
    PROVE  Flow(OnFailed(x)) /\ Begun(OnFailed(x))
<1> DEFINE y == [x EXCEPT !.failed = TRUE]
<1>1. /\ DOMAIN y = DOMAIN x
      /\ \A f \in (Fields \cup MessageFields) \ {"failed"} : y[f] = x[f]
  BY DEF Flow, Shaped, Good, Typed, Fields, MessageFields
<1>2. OnFailed(x) \in {x, TransportFailed(y)}
  BY DEF OnFailed
<1> HIDE DEF y
<1>3. Shaped(y) /\ Stream(y) /\ Handshake(y) /\ y.state # "disconnected"
  BY <1>1 DEF Flow, Shaped, Good, Typed, Down, Stream, Handshake, Fields, MessageFields
<1> QED
  BY <1>2, <1>3, TransportFailedFlow DEF Begun

\* The start request is made, unless that transport has been given up.
LEMMA InitReceivedFacts ==
    ASSUME NEW x, Shaped(x), x.state # "disconnected", Replaced(x),
           x.request = "negotiate" => x.requested # TRUE
    PROVE  LET y == InitReceived(x)
           IN  /\ Shaped(y) /\ y.requested = TRUE /\ y.request # "negotiate"
               /\ \A f \in MessageFields \cup {"state", "channel", "completed"} : y[f] = x[f]
<1>1. Good(InitReceived(x))
  BY InitReceivedGood DEF Shaped
<1>2. ~ x.stopped
  BY DEF Shaped, Good
<1>3. CASE x.failed \/ x.requested
  BY <1>1, <1>2, <1>3 DEF InitReceived, Replaced, Shaped
<1>4. CASE ~ (x.failed \/ x.requested)
  <2> DEFINE y == InitReceived(x)
  <2>1. /\ DOMAIN y = DOMAIN x /\ y.requested = TRUE /\ y.request # "negotiate"
        /\ \A f \in MessageFields \cup {"state", "channel", "completed"} : y[f] = x[f]
    BY <1>2, <1>4 DEF InitReceived, Clear, Shaped, Good, Typed, Fields, MessageFields
  <2> QED
    BY <1>1, <2>1 DEF Shaped
<1> QED
  BY <1>3, <1>4

LEMMA ReconnectFlow ==
    ASSUME NEW x, Flow(x), Begun(x)
    PROVE  Flow(Reconnect(x)) /\ Begun(Reconnect(x))
<1>1. CASE x.state \notin {"connected", "reconnecting"} \/ "reconnect" \in x.timers
  BY <1>1 DEF Reconnect
<1>2. CASE x.state \in {"connected", "reconnecting"}
  <2>1. Good(x) /\ Flow(Stop(x)) /\ Begun(Stop(x))
    BY <1>2, StopFlow DEF Flow, Shaped, Good
  <2>2. Good(Arm(x, {"reconnect"})) /\ Arm(x, {"reconnect"}).state = x.state
    BY <1>2, <2>1, ArmGood DEF AllTimers
  <2>3. Arm(x, {"reconnect"}) = [x EXCEPT !.timers = x.timers \cup {"reconnect"}]
    BY DEF Arm
  <2>4. Flow(Arm(x, {"reconnect"})) /\ Begun(Arm(x, {"reconnect"}))
    BY <1>2, <2>2, <2>3, TimersFlow DEF Begun
  <2> QED
    BY <2>1, <2>4 DEF Reconnect
<1> QED
  BY <1>1, <1>2

LEMMA EnsureReconnectingFlow ==
    ASSUME NEW x, Flow(x), x.state # "disconnected"
    PROVE  /\ Flow(EnsureReconnecting(x)) /\ EnsureReconnecting(x).state # "disconnected"
           /\ EnsureReconnecting(x).requested = x.requested
<1> DEFINE y == EnsureReconnecting(x)
<1>1. Good(y) /\ y.state # "disconnected"
  BY EnsureReconnectingGood DEF Flow, Shaped
<1>2. /\ DOMAIN y = DOMAIN x
      /\ \A f \in MessageFields \cup {"channel", "request", "requested", "completed"} : y[f] = x[f]
      /\ y.state = "connecting" <=> x.state = "connecting"
      /\ y.timers \subseteq x.timers \cup {"stopReconnecting"}
  BY DEF EnsureReconnecting, Arm, FailCalls, Flow, Shaped, Good, Typed, Fields, MessageFields
<1> HIDE DEF y
<1>3. Flow(y)
  BY <1>1, <1>2, KeepFlow DEF Flow, Shaped, Handshake, Replaced, MessageFields
<1> QED
  BY <1>1, <1>2, <1>3 DEF y

LEMMA ReconnectedFlow ==
    ASSUME NEW x, Flow(x), x.state # "disconnected"
    PROVE  Flow(Reconnected(x)) /\ Reconnected(x).state # "disconnected"
<1> DEFINE y == Reconnected(x)
<1>1. Good(y) /\ y.state # "disconnected"
  BY ReconnectedGood DEF Flow, Shaped
<1>2. /\ DOMAIN y = DOMAIN x
      /\ \A f \in MessageFields \cup {"channel", "request", "requested", "completed"} : y[f] = x[f]
      /\ y.state = "connecting" <=> x.state = "connecting"
      /\ y.timers \subseteq x.timers
  BY DEF Reconnected, Clear, Flow, Shaped, Good, Typed, Fields, MessageFields
<1> HIDE DEF y
<1>3. Flow(y)
  BY <1>1, <1>2, KeepFlow DEF Flow, Shaped, Handshake, Replaced, MessageFields
<1> QED
  BY <1>1, <1>3 DEF y

Length == Len(log) \in Nat

\* y is x with the cursor moved on to k.
Moved(x, y, k) ==
    /\ k \in Nat /\ x.cursor =< k /\ k =< Len(log)
    /\ Shaped(y) /\ y.cursor = k /\ y.channel # "opening"
    /\ \A f \in (MessageFields \ {"cursor"}) \cup {"state", "request", "requested",
                                                   "completed"} : y[f] = x[f]

\* The messages up to the k-th are received.
LEMMA ReceivedStream ==
    ASSUME NEW x, Flow(x), x.state # "disconnected",
           Length, NEW k, NEW y, Moved(x, y, k)
    PROVE  LET z == Received(y, Run(x.cursor, k))
           IN  /\ Shaped(z) /\ Stream(z) /\ z.failed = y.failed /\ z.completed = y.completed
               /\ z.state = y.state /\ z.request = y.request /\ z.requested = y.requested
               /\ z.channel = y.channel /\ z.first = y.first /\ z.greeted = y.greeted
<1> DEFINE s == Run(x.cursor, k)
           z == Received(y, s)
           M == 1..Len(log)
<1>0. /\ Len(log) \in Nat /\ k \in Nat /\ x.cursor =< k /\ k =< Len(log)
      /\ Shaped(y) /\ y.cursor = k /\ y.channel # "opening"
      /\ \A f \in (MessageFields \ {"cursor"}) \cup {"state", "request", "requested",
                                                     "completed"} : y[f] = x[f]
  BY DEF Moved, Length
<1>1. /\ x.base \in Nat /\ x.cursor \in Nat /\ x.base =< x.cursor /\ Len(log) \in Nat
      /\ x.delivered \in Seq(M) /\ x.buffer \in Seq(M) /\ s \in Seq(M)
  <2>1. x.base \in Nat /\ x.cursor \in Nat /\ x.base =< x.cursor
    BY DEF Flow, Stream
  <2>2. Len(log) \in Nat
    BY <1>0
  <2> QED
    BY <1>0, <2>1, <2>2, RunTyped DEF Flow, Stream
<1>2. Run(x.base, x.cursor) \o s = Run(x.base, k)
  BY <1>0, <1>1, RunConcat
<1>3. y.delivered = x.delivered /\ y.buffer = x.buffer /\ y.state = x.state /\ y.base = x.base
  BY <1>0 DEF MessageFields
<1> HIDE DEF s, M
<1>4. Shaped(z) /\ \A f \in (Fields \cup MessageFields) \ {"delivered", "buffer"} : z[f] = y[f]
  <2>1. Good(z)
    BY <1>0, ReceivedGood DEF Shaped
  <2>2. DOMAIN z = DOMAIN y
    BY DEF Received, Deliver
  <2>3. \A f \in (Fields \cup MessageFields) \ {"delivered", "buffer"} : z[f] = y[f]
    BY <1>0 DEF Received, Deliver, Shaped, Good, Typed, Fields, MessageFields
  <2> QED
    BY <1>0, <2>1, <2>2, <2>3 DEF Shaped
<1>5. /\ z.failed = y.failed /\ z.completed = y.completed
      /\ z.state = y.state /\ z.request = y.request /\ z.requested = y.requested
      /\ z.channel = y.channel /\ z.first = y.first /\ z.greeted = y.greeted
  BY <1>4 DEF Fields, MessageFields
<1> HIDE DEF z
<1>6. CASE x.state = "connecting"
  <2>1. z.buffer = x.buffer \o s /\ z.delivered = << >> /\ x.delivered = << >>
    BY <1>0, <1>3, <1>6 DEF z, Received, Shaped, Good, Typed, Fields, MessageFields, Flow, Stream
  <2>2. ~ ThrownBy(<< >>)
    BY DEF ThrownBy
  <2>3. x.buffer = Run(x.base, x.cursor)
    BY <1>1, <2>1, <2>2, ConcatEmptySeq DEF Flow, Stream
  <2>4. z.buffer = Run(x.base, k) /\ z.buffer \in Seq(M)
    BY <1>1, <1>2, <2>1, <2>3, ConcatProperties
  <2>5. z.delivered \o z.buffer = Run(x.base, k) /\ << >> \in Seq(M)
    BY <2>1, <2>4, ConcatEmptySeq, EmptySeq
  <2>6. z.base = x.base /\ z.cursor = k /\ z.state = "connecting"
    BY <1>0, <1>3, <1>4, <1>6 DEF Fields, MessageFields
  <2>7. Stream(z)
    BY <1>0, <1>1, <2>1, <2>4, <2>5, <2>6 DEF Stream, M
  <2> QED
    BY <1>4, <1>5, <2>7 DEF z, s
<1>7. CASE x.state # "connecting"
  <2>1. z = Deliver(y, s) /\ z.buffer = x.buffer
    BY <1>0, <1>3, <1>7 DEF z, Received, Deliver, Shaped, MessageFields
  <2>2. /\ z.delivered \in Seq(M)
        /\ ThrownBy(x.delivered) => ThrownBy(z.delivered)
        /\ ThrownBy(z.delivered) \/ z.delivered = x.delivered \o s
    BY <1>0, <1>1, <1>3, <2>1, DeliverFacts DEF Shaped, MessageFields
  <2>3. z.base = x.base /\ z.cursor = k /\ z.state = x.state
    BY <1>0, <1>3, <1>4 DEF Fields, MessageFields
  <2>4. ASSUME ~ ThrownBy(z.delivered)
        PROVE  z.delivered \o z.buffer = Run(x.base, k) /\ z.buffer = << >>
    <3>1. x.delivered \o x.buffer = Run(x.base, x.cursor) /\ x.buffer = << >>
      BY <1>7, <2>2, <2>4 DEF Flow, Stream
    <3>2. x.delivered = Run(x.base, x.cursor)
      BY <1>1, <3>1, ConcatEmptySeq
    <3>3. z.delivered = Run(x.base, k)
      BY <1>2, <2>2, <2>4, <3>2
    <3> QED
      BY <2>1, <2>2, <3>1, <3>3, ConcatEmptySeq
  <2>5. Stream(z)
    <3>1. z.delivered \in Seq(M) /\ z.buffer \in Seq(M)
      BY <1>1, <2>1, <2>2
    <3>2. /\ z.base \in Nat /\ z.cursor \in Nat /\ z.base =< z.cursor
          /\ z.cursor =< Len(log)
      BY <1>0, <1>1, <2>3
    <3>3. \/ ThrownBy(z.delivered)
          \/ z.delivered \o z.buffer = Run(z.base, z.cursor) /\ z.buffer = << >>
      BY <2>3, <2>4
    <3> QED
      BY <1>7, <2>3, <3>1, <3>2, <3>3 DEF Stream, M
  <2> QED
    BY <1>4, <1>5, <2>5 DEF z, s
<1> QED
  BY <1>6, <1>7

LEMMA ReceivedFlow ==
    ASSUME NEW x, Flow(x), x.state # "disconnected", x.requested = TRUE,
           Length, NEW k, NEW y, Moved(x, y, k)
    PROVE  Flow(Received(y, Run(x.cursor, k)))
<1> DEFINE z == Received(y, Run(x.cursor, k))
<1>1. /\ Shaped(z) /\ Stream(z) /\ z.failed = y.failed /\ z.completed = y.completed
      /\ z.state = y.state /\ z.request = y.request /\ z.requested = y.requested
      /\ z.channel = y.channel /\ z.first = y.first /\ z.greeted = y.greeted
  BY ReceivedStream
<1>2. /\ y.channel # "opening" /\ y.requested = TRUE /\ y.greeted = x.greeted
      /\ y.first = x.first /\ y.request = x.request /\ y.state = x.state
  BY DEF Moved, MessageFields
<1> HIDE DEF z
<1>3. Handshake(z) /\ Replaced(z)
  BY <1>1, <1>2 DEF Flow, Handshake, Replaced
<1>4. Flow(z)
  BY <1>1, <1>3 DEF Flow
<1> QED
  BY <1>4 DEF z

\* The first poll of a transport begins where the server is.
LEMMA PollFlow ==
    ASSUME NEW x, Flow(x), x.state # "disconnected", x.first = TRUE \/ x.requested = TRUE,
           Len(log) \in Nat
    PROVE  Flow(Poll(x)) /\ Poll(x).state # "disconnected"
<1> DEFINE y == Poll(x)
           n == Len(log)
<1>1. Good(y)
  BY PollGood DEF Flow, Shaped
<1>2. /\ DOMAIN y = DOMAIN x /\ y.channel = "open"
      /\ \A f \in {"delivered", "buffer", "first", "greeted", "failed", "state", "request",
                    "requested", "completed"} : y[f] = x[f]
      /\ y.base   = IF x.greeted THEN x.base ELSE n
      /\ y.cursor = IF x.greeted THEN x.cursor ELSE n
  BY DEF Poll, Flow, Shaped, Good, Typed, Fields, MessageFields
<1> HIDE DEF y
<1>3. Shaped(y) /\ y.state # "disconnected"
  BY <1>1, <1>2 DEF Flow, Shaped
<1>4. Stream(x) /\ Handshake(x) /\ Replaced(x)
  BY DEF Flow
<1>5. CASE x.greeted
  <2>1. Stream(y)
    BY <1>2, <1>4, <1>5 DEF Stream
  <2>2. x.requested = TRUE
    BY <1>4, <1>5 DEF Handshake
  <2>3. Handshake(y) /\ Replaced(y)
    BY <1>2, <1>4, <2>2 DEF Handshake, Replaced
  <2> QED
    BY <1>3, <2>1, <2>3 DEF Flow, y
<1>6. CASE ~ x.greeted
  <2>1. x.requested # TRUE /\ y.delivered = << >> /\ y.buffer = << >>
    BY <1>2, <1>4, <1>6 DEF Handshake
  <2>2. n \in Nat
    OBVIOUS
  <2>3. y.base = n /\ y.cursor = n
    BY <1>2, <1>6
  <2>4. Run(n, n) = << >>
    BY <2>2, RunEmpty
  <2>5. y.delivered \in Seq(1..n) /\ y.buffer \in Seq(1..n)
        /\ y.delivered \o y.buffer = Run(n, n)
    BY <2>1, <2>4, EmptySeq, ConcatEmptySeq
  <2> HIDE DEF n
  <2>6. Stream(y)
    BY <2>1, <2>2, <2>3, <2>5 DEF Stream, n
  <2>7. Handshake(y) /\ Replaced(y)
    BY <1>2, <1>4, <2>1 DEF Handshake, Replaced
  <2> QED
    BY <1>3, <2>6, <2>7 DEF Flow, y
<1> QED
  BY <1>3, <1>5, <1>6 DEF y

-----------------------------------------------------------------------------
(* The handlers of a connection that is not down.                          *)

\* Timers that end.
LEMMA ClearFlow ==
    ASSUME NEW x, Flow(x), NEW T, "stopReconnecting" \notin T
    PROVE  Flow(Clear(x, T)) /\ Clear(x, T).state = x.state
<1>1. Good(Clear(x, T)) /\ Clear(x, T).state = x.state
  BY ClearGood DEF Flow, Shaped
<1>2. Clear(x, T) = [x EXCEPT !.timers = x.timers \ T]
  BY DEF Clear
<1> QED
  BY <1>1, <1>2, TimersFlow

LEMMA StartingFlow ==
    ASSUME Flow(c), c.state # "disconnected", Length,
           NegotiateAnswered \/ NegotiateFailed \/ TransportTimeout \/ StartAnswered \/ StartFailed
    PROVE  Flow(c') /\ Begun(c')
<1> DEFINE y == [c EXCEPT !.request = "none"]
<1>1. /\ DOMAIN y = DOMAIN c /\ y.request = "none"
      /\ \A f \in (Fields \cup MessageFields) \ {"request"} : y[f] = c[f]
  BY DEF Flow, Shaped, Good, Typed, Fields, MessageFields
<1>2. Good(y)
  BY DEF Flow, Shaped, Good, Typed, Down, Fields
<1> HIDE DEF y
<1>3. Shaped(y) /\ y.state # "disconnected" /\ Stream(y) /\ Handshake(y)
  BY <1>1, <1>2 DEF Flow, Shaped, Stream, Handshake, Fields, MessageFields
<1>4. CASE NegotiateAnswered
  <2>1. y.requested # TRUE
    BY <1>1, <1>4 DEF NegotiateAnswered, Flow, Handshake, Fields
  <2> QED
    BY <1>3, <1>4, <2>1, InitializeFlow DEF NegotiateAnswered, y
<1>5. CASE NegotiateFailed \/ StartFailed
  <2>1. c' = Stop(Reject(y))
    BY <1>5 DEF NegotiateFailed, StartFailed, y
  <2> QED
    BY <1>3, <2>1, RejectStopFlow DEF Shaped, Good
<1>6. CASE TransportTimeout
  <2>1. /\ Flow(Clear(c, {"transportTimeout"}))
        /\ Clear(c, {"transportTimeout"}).state # "disconnected"
    BY ClearFlow
  <2> QED
    BY <1>6, <2>1, OnFailedFlow DEF TransportTimeout
<1>7. CASE StartAnswered
  <2> DEFINE x == [Arm(c, {"beat", "ping"}) EXCEPT
                      !.request = "none",
                      !.completed = TRUE,
                      !.monitoring = ~ Polling(c),
                      !.quiet = 0,
                      !.slept = FALSE,
                      !.state = "connected"]
             M == 1..Len(log)
  <2>1. /\ DOMAIN x = DOMAIN c /\ x.state = "connected" /\ x.completed = TRUE
        /\ x.request = "none" /\ x.timers = c.timers \cup {"beat", "ping"}
        /\ \A f \in MessageFields \cup {"requested", "channel", "buffer"} : x[f] = c[f]
    BY DEF Arm, Flow, Shaped, Good, Typed, Fields, MessageFields
  <2> HIDE DEF x
  <2>2. /\ DOMAIN c' = DOMAIN x
        /\ c'.delivered = Deliver(x, x.buffer).delivered
        /\ c'.buffer = SubSeq(x.buffer, Taken(x, x.buffer) + 1, Len(x.buffer))
        /\ \A f \in {"state", "request", "requested", "completed", "channel", "timers", "base",
                      "cursor", "first", "greeted", "failed"} : c'[f] = x[f]
    <3>1. c' \in {Drained(x), [Drained(x) EXCEPT !.promise = "resolved"]}
      BY <1>7 DEF StartAnswered, x
    <3>2. /\ DOMAIN Drained(x) = DOMAIN x
          /\ Drained(x).delivered = Deliver(x, x.buffer).delivered
          /\ Drained(x).buffer = SubSeq(x.buffer, Taken(x, x.buffer) + 1, Len(x.buffer))
          /\ \A f \in {"state", "request", "requested", "completed", "channel", "timers", "base",
                        "cursor", "first", "greeted", "failed"} : Drained(x)[f] = x[f]
      BY <2>1 DEF Drained, Deliver, Flow, Shaped, Good, Typed, Fields, MessageFields
    <3> QED
      BY <2>1, <3>1, <3>2 DEF Flow, Shaped, Good, Typed, Fields, MessageFields
  <2>3. Good(c')
    BY <1>7, StartingGood DEF Flow, Shaped
  <2>4. c.state = "connecting" /\ c.requested = TRUE
    BY <1>7 DEF StartAnswered, Flow, Shaped, Good
  <2>5. Stream(c) /\ Handshake(c) /\ Replaced(c) /\ c.delivered = << >>
    BY <2>4 DEF Flow, Stream
  <2>6. x.delivered = << >> /\ x.buffer \in Seq(M) /\ x.delivered \in Seq(M)
    BY <2>1, <2>5, EmptySeq DEF Stream, MessageFields
  <2>7. /\ Deliver(x, x.buffer).delivered \in Seq(M)
        /\ \/ ThrownBy(Deliver(x, x.buffer).delivered)
           \/ /\ Taken(x, x.buffer) = Len(x.buffer)
              /\ Deliver(x, x.buffer).delivered = x.delivered \o x.buffer
    BY <2>1, <2>6, DeliverFacts DEF Flow, Shaped, MessageFields
  <2>8. c'.buffer \in Seq(M)
    <3>1. Taken(x, x.buffer) \in 0..Len(x.buffer) /\ Len(x.buffer) \in Nat
          /\ x.buffer \in [1..Len(x.buffer) -> M]
      BY <2>6, TakenFacts, LenProperties
    <3>2. \A i \in (Taken(x, x.buffer) + 1)..Len(x.buffer) : x.buffer[i] \in M
      BY <3>1
    <3> QED
      BY <2>2, <3>1, <3>2, SubSeqProperties
  <2>9. ASSUME ~ ThrownBy(c'.delivered)
        PROVE  c'.buffer = << >> /\ c'.delivered \o c'.buffer = Run(c'.base, c'.cursor)
    <3>1. /\ Taken(x, x.buffer) = Len(x.buffer) /\ Len(x.buffer) \in Nat
          /\ c'.delivered = x.buffer
      BY <2>2, <2>6, <2>7, <2>9, ConcatEmptySeq, LenProperties
    <3>2. c'.buffer = << >>
      BY <2>2, <3>1, SubSeqEmpty
    <3>3. ~ ThrownBy(<< >>)
      BY DEF ThrownBy
    <3>4. c.buffer \in Seq(M) /\ c.delivered \o c.buffer = c.buffer
      BY <2>5, ConcatEmptySeq DEF Stream
    <3>5. c.buffer = Run(c.base, c.cursor)
      BY <2>5, <3>3, <3>4 DEF Stream
    <3>6. c'.delivered \o c'.buffer = c.buffer
      BY <2>1, <2>6, <3>1, <3>2, ConcatEmptySeq DEF MessageFields
    <3>7. c'.base = c.base /\ c'.cursor = c.cursor
      BY <2>2, <2>1 DEF MessageFields
    <3> QED
      BY <3>2, <3>5, <3>6, <3>7
  <2>10. /\ c'.base = c.base /\ c'.cursor = c.cursor /\ c'.state = "connected"
         /\ c'.requested = TRUE /\ c'.request = "none" /\ c'.greeted = c.greeted
         /\ c'.first = c.first /\ c'.channel = c.channel
    BY <2>2, <2>1, <2>4 DEF MessageFields
  <2>11. Stream(c')
    <3>1. c'.delivered \in Seq(M) /\ c'.buffer \in Seq(M)
      BY <2>2, <2>7, <2>8
    <3> QED
      BY <2>5, <2>9, <2>10, <3>1 DEF Stream, M
  <2>12. Handshake(c') /\ Replaced(c')
    BY <2>4, <2>5, <2>10 DEF Handshake, Replaced
  <2>13. Shaped(c') /\ Begun(c')
    BY <2>2, <2>1, <2>3, <2>10 DEF Flow, Shaped, Begun
  <2> QED
    BY <2>11, <2>12, <2>13 DEF Flow
<1> QED
  BY <1>4, <1>5, <1>6, <1>7

LEMMA ChannelFlow ==
    ASSUME Flow(c), c.state # "disconnected", Length,
           \/ Open \/ Initialized \/ KeepAlive \/ Garbled \/ Close \/ FallSilent
           \/ ReconnectTimer \/ AttemptTimer \/ StopReconnectingTimer
           \/ \E k \in 1..Len(log) : Receive(k)
    PROVE  Flow(c') /\ Begun(c')
<1>1. Stream(c) /\ Handshake(c) /\ Replaced(c)
  BY DEF Flow
<1>2. CASE Open
  <2> DEFINE n == Len(log)
             x == [Clear(c, {"reconnect", "attempt"}) EXCEPT
                      !.channel = "open", !.alive = TRUE,
                      !.base   = IF c.first THEN n ELSE @,
                      !.cursor = IF c.first THEN n ELSE @]
  <2>1. /\ DOMAIN x = DOMAIN c /\ x.channel = "open"
        /\ x.timers = c.timers \ {"reconnect", "attempt"}
        /\ \A f \in {"delivered", "buffer", "first", "greeted", "failed", "state", "request",
                      "requested", "completed"} : x[f] = c[f]
        /\ x.base   = IF c.first THEN n ELSE c.base
        /\ x.cursor = IF c.first THEN n ELSE c.cursor
    BY DEF Clear, Flow, Shaped, Good, Typed, Fields, MessageFields
  <2>2. Good(x)
    BY DEF Clear, Flow, Shaped, Good, Typed, Down, Fields
  <2>3. c' = Reconnected(x)
    BY <1>2 DEF Open
  <2> HIDE DEF x
  <2>4. Shaped(x) /\ x.state # "disconnected"
    BY <2>1, <2>2 DEF Flow, Shaped
  <2>5. c.channel = "opening"
    BY <1>2 DEF Open
  <2>6. Handshake(x) /\ Replaced(x)
    BY <1>1, <2>1, <2>5 DEF Handshake, Replaced
  <2>7. Stream(x)
    <3>1. CASE c.first
      <4>1. x.delivered = << >> /\ x.buffer = << >> /\ x.base = n /\ x.cursor = n
        BY <1>1, <2>1, <2>5, <3>1 DEF Handshake
      <4>2. n \in Nat /\ Run(n, n) = << >>
        BY RunEmpty DEF Length
      <4>3. x.delivered \in Seq(1..n) /\ x.buffer \in Seq(1..n)
            /\ x.delivered \o x.buffer = Run(n, n)
        BY <4>1, <4>2, EmptySeq, ConcatEmptySeq
      <4> HIDE DEF n
      <4> QED
        BY <4>1, <4>2, <4>3 DEF Stream, n
    <3>2. CASE ~ c.first
      BY <1>1, <2>1, <3>2 DEF Stream
    <3> QED
      BY <3>1, <3>2
  <2> QED
    BY <2>3, <2>4, <2>6, <2>7, ReconnectedFlow DEF Flow, Begun
<1>3. CASE Initialized
  <2> DEFINE x == [c EXCEPT !.greeted = TRUE, !.quiet = 0]
             y == InitReceived(x)
  <2>1. /\ DOMAIN x = DOMAIN c /\ x.greeted = TRUE
        /\ \A f \in (Fields \cup MessageFields) \ {"greeted"} : x[f] = c[f]
    BY DEF Flow, Shaped, Good, Typed, Fields, MessageFields
  <2>2. Good(x)
    BY DEF Flow, Shaped, Good, Typed, Down, Fields
  <2>3. c' = y /\ c.channel = "open"
    BY <1>3 DEF Initialized, Reaches
  <2> HIDE DEF x
  <2>4. /\ Shaped(x) /\ x.state # "disconnected" /\ Replaced(x)
        /\ x.request = "negotiate" => x.requested # TRUE
    BY <1>1, <2>1, <2>2 DEF Flow, Shaped, Handshake, Replaced, Fields, MessageFields
  <2>5. /\ Shaped(y) /\ y.requested = TRUE /\ y.request # "negotiate"
        /\ \A f \in MessageFields \cup {"state", "channel", "completed"} : y[f] = x[f]
    BY <2>4, InitReceivedFacts
  <2> HIDE DEF y
  <2>6. /\ y.delivered = c.delivered /\ y.buffer = c.buffer /\ y.state = c.state
        /\ y.base = c.base /\ y.cursor = c.cursor /\ y.first = c.first
        /\ y.greeted = TRUE /\ y.channel = "open"
    BY <2>1, <2>3, <2>5 DEF Fields, MessageFields
  <2>7. Handshake(y) /\ Replaced(y)
    BY <2>5, <2>6 DEF Handshake, Replaced
  <2>8. Stream(y)
    BY <1>1, <2>6 DEF Stream
  <2> QED
    BY <2>3, <2>5, <2>6, <2>7, <2>8 DEF Flow, Begun
<1>4. CASE KeepAlive \/ FallSilent
  <2>1. /\ DOMAIN c' = DOMAIN c
        /\ \A f \in Fields \cup MessageFields : c'[f] = c[f]
    BY <1>4 DEF KeepAlive, FallSilent, Flow, Shaped, Good, Typed, Fields, MessageFields
  <2>2. Good(c')
    BY <1>4, ChannelGood DEF Flow, Shaped
  <2> QED
    BY <1>1, <2>1, <2>2 DEF Flow, Shaped, Stream, Handshake, Replaced, Begun, Fields, MessageFields
<1>5. CASE Garbled \/ Close
  <2> DEFINE x == IF c.first THEN OnFailed(c) ELSE c
             y == [x EXCEPT !.channel = "closed"]
  <2>1. Flow(x) /\ Begun(x)
    BY OnFailedFlow DEF Begun
  <2>2. c.channel # "none"
    BY <1>5 DEF Garbled, Close, Reaches
  <2>3. ~ c.first => x = c
    OBVIOUS
  <2>4. Garbled => c' = IF c.first /\ Abandoned(x) THEN x ELSE Stop(x)
    BY DEF Garbled
  <2>5. Close => c' = IF c.first /\ Abandoned(x) THEN x ELSE Reconnect(y)
    BY DEF Close
  <2> HIDE DEF x
  <2>6. ~ (c.first /\ Abandoned(x)) => x.state # "disconnected" /\ x.requested = TRUE
    BY <1>1, <2>1, <2>2, <2>3 DEF Abandoned, Flow, Begun, Handshake
  <2>7. x.state # "disconnected" => Flow(Stop(x)) /\ Begun(Stop(x))
    BY <2>1, StopFlow DEF Flow, Shaped, Good
  <2>8. ASSUME x.state # "disconnected", x.requested = TRUE
        PROVE  Flow(y) /\ Begun(y)
    <3>1. /\ DOMAIN y = DOMAIN x /\ y.channel = "closed"
          /\ \A f \in (Fields \cup MessageFields) \ {"channel"} : y[f] = x[f]
      BY <2>1 DEF Flow, Shaped, Good, Typed, Fields, MessageFields
    <3>2. Good(y)
      BY <2>1, <2>8 DEF Flow, Shaped, Good, Typed, Down, Fields
    <3> HIDE DEF y
    <3>3. Shaped(y) /\ y.state # "disconnected" /\ Handshake(y) /\ Replaced(y)
      BY <2>1, <2>8, <3>1, <3>2 DEF Flow, Shaped, Handshake, Replaced, Fields, MessageFields
    <3>4. Stream(y)
      BY <2>1, <2>8, <3>1 DEF Flow, Stream, Fields, MessageFields
    <3> QED
      BY <3>3, <3>4 DEF Flow, Begun
  <2> QED
    BY <1>5, <2>1, <2>4, <2>5, <2>6, <2>7, <2>8, ReconnectFlow
<1>6. CASE ReconnectTimer
  <2> DEFINE v == TransportStop(c)
             x == EnsureReconnecting(v)
             y == [x EXCEPT !.channel = "opening", !.first = FALSE,
                            !.timers = @ \cup IF Using(c, "serverSentEvents")
                                              THEN {"attempt"} ELSE {}]
  <2>1. /\ Shaped(v) /\ v.state # "disconnected" /\ Stream(v) /\ Handshake(v)
    BY <1>1, TransportStopFlow DEF Flow
  <2>2. Replaced(v)
    BY <1>1 DEF Replaced, TransportStop, Flow, Shaped, Good, Typed, Fields, MessageFields
  <2>3. c' = IF c.slept THEN Stop(c) ELSE IF x.state # "reconnecting" THEN x ELSE y
    BY <1>6 DEF ReconnectTimer
  <2> HIDE DEF v
  <2>4. Flow(x) /\ x.state # "disconnected"
    BY <2>1, <2>2, EnsureReconnectingFlow DEF Flow
  <2> HIDE DEF x
  <2>5. ASSUME x.state = "reconnecting" PROVE Flow(y) /\ Begun(y)
    <3>1. x.requested = TRUE /\ x.request = "none"
      BY <2>4, <2>5 DEF Flow, Shaped, Good
    <3>2. /\ DOMAIN y = DOMAIN x /\ y.first = FALSE
          /\ \A f \in (Fields \cup MessageFields) \ {"channel", "first", "timers"} : y[f] = x[f]
      BY <2>4 DEF Flow, Shaped, Good, Typed, Fields, MessageFields
    <3>3. Good(y)
      BY <2>4, <2>5 DEF Flow, Shaped, Good, Typed, Fields, AllTimers
    <3> HIDE DEF y
    <3>4. Shaped(y) /\ y.state # "disconnected" /\ Handshake(y) /\ Replaced(y)
      BY <2>4, <3>1, <3>2, <3>3 DEF Flow, Shaped, Handshake, Replaced, Fields, MessageFields
    <3>5. Stream(y)
      BY <2>4, <3>2 DEF Flow, Stream, Fields, MessageFields
    <3> QED
      BY <3>4, <3>5 DEF Flow, Begun
  <2>6. Flow(Stop(c)) /\ Begun(Stop(c))
    BY StopFlow DEF Flow, Shaped, Good
  <2> QED
    BY <2>3, <2>4, <2>5, <2>6 DEF Begun
<1>7. CASE AttemptTimer
  <2>1. /\ Flow(Clear(c, {"attempt"})) /\ Begun(Clear(c, {"attempt"}))
    BY ClearFlow DEF Begun
  <2> QED
    BY <1>7, <2>1, ReconnectFlow DEF AttemptTimer
<1>8. CASE StopReconnectingTimer
  <2>1. /\ Typed(Clear(c, {"stopReconnecting"}))
        /\ Clear(c, {"stopReconnecting"}).state # "disconnected"
        /\ MessageFields \subseteq DOMAIN Clear(c, {"stopReconnecting"})
    BY DEF Clear, Flow, Shaped, Good, Typed, Fields
  <2> QED
    BY <1>8, <2>1, StopFlow DEF StopReconnectingTimer
<1>9. ASSUME NEW k \in 1..Len(log), Receive(k) PROVE Flow(c') /\ Begun(c')
  <2> DEFINE y == [c EXCEPT !.quiet = 0, !.cursor = k]
             z == Received(y, Run(c.cursor, k))
  <2>1. /\ DOMAIN y = DOMAIN c /\ y.cursor = k
        /\ \A f \in (Fields \cup MessageFields) \ {"cursor"} : y[f] = c[f]
    BY DEF Flow, Shaped, Good, Typed, Fields, MessageFields
  <2>2. Good(y)
    BY DEF Flow, Shaped, Good, Typed, Down, Fields
  <2>3. c' = z /\ c.channel = "open" /\ c.cursor < k /\ (c.first => c.greeted)
    BY <1>9 DEF Receive, Reaches, Batch, Run
  <2>4. k \in Nat /\ c.cursor =< k /\ k =< Len(log)
    BY <1>1, <2>3 DEF Length, Stream
  <2>5. c.requested = TRUE
    BY <1>1, <2>3 DEF Handshake
  <2> HIDE DEF y
  <2>6. /\ Shaped(y) /\ y.channel # "opening" /\ y.state = c.state
        /\ \A f \in (MessageFields \ {"cursor"}) \cup {"state", "request", "requested",
                                                      "completed"} : y[f] = c[f]
    BY <2>1, <2>2, <2>3 DEF Flow, Shaped, Fields, MessageFields
  <2>7. Flow(z) /\ z.state = y.state
    <3>1. Moved(c, y, k)
      BY <2>1, <2>4, <2>6 DEF Moved
    <3>2. c.requested = TRUE /\ Flow(c) /\ c.state # "disconnected" /\ Length
      BY <2>5
    <3>3. Flow(Received(y, Run(c.cursor, k)))
      BY <3>1, <3>2, ReceivedFlow
    <3>4. Received(y, Run(c.cursor, k)).state = y.state
      BY <2>2, ReceivedGood
    <3> QED
      BY <3>3, <3>4 DEF z
  <2> QED
    BY <2>3, <2>6, <2>7 DEF Begun
<1> QED
  BY <1>2, <1>3, <1>4, <1>5, <1>6, <1>7, <1>8, <1>9

LEMMA PollFailedFlow ==
    ASSUME Flow(c), c.state # "disconnected", PollFailed
    PROVE  Flow(c') /\ Begun(c')
<1> DEFINE v == Clear(c, {"raise"})
           w == [v EXCEPT !.channel = "none"]
           x == OnFailed(w)
           y == EnsureReconnecting(x)
           z == Arm([y EXCEPT !.raising = TRUE], {"poll"})
<1>1. c' = IF Abandoned(x) THEN x
           ELSE IF x.slept THEN Stop(x)
           ELSE IF y.state # "reconnecting" THEN y
           ELSE z
  BY DEF PollFailed
<1>2. Flow(v) /\ v.state # "disconnected"
  BY ClearFlow
<1> HIDE DEF v
<1>3. Flow(w) /\ w.state # "disconnected"
  <2>1. /\ DOMAIN w = DOMAIN v /\ w.channel = "none"
        /\ \A f \in (Fields \cup MessageFields) \ {"channel"} : w[f] = v[f]
    BY <1>2 DEF Flow, Shaped, Good, Typed, Fields, MessageFields
  <2>2. Good(w)
    BY <1>2 DEF Flow, Shaped, Good, Typed, Down, Fields
  <2> HIDE DEF w
  <2>3. Stream(w) /\ Handshake(w) /\ Replaced(w)
    BY <1>2, <2>1 DEF Flow, Stream, Handshake, Replaced, Fields, MessageFields
  <2> QED
    BY <1>2, <2>1, <2>2, <2>3 DEF Flow, Shaped, Fields
<1> HIDE DEF w
<1>4. Flow(x) /\ Begun(x)
  BY <1>3, OnFailedFlow
<1> HIDE DEF x
<1>5. CASE Abandoned(x)
  BY <1>1, <1>4, <1>5
<1>6. CASE ~ Abandoned(x)
  <2>1. x.state # "disconnected" /\ x.requested = TRUE
    BY <1>4, <1>6 DEF Abandoned, Begun, Flow, Handshake
  <2>2. Flow(Stop(x)) /\ Begun(Stop(x))
    BY <1>4, <2>1, StopFlow DEF Flow, Shaped, Good
  <2>3. Flow(y) /\ y.state # "disconnected" /\ y.requested = TRUE
    BY <1>4, <2>1, EnsureReconnectingFlow
  <2> HIDE DEF y
  <2>4. Flow(z) /\ z.state # "disconnected"
    <3>1. /\ DOMAIN z = DOMAIN y /\ z.timers = y.timers \cup {"poll"}
          /\ \A f \in (Fields \cup MessageFields) \ {"timers"} : z[f] = y[f]
      BY <2>3 DEF Arm, Flow, Shaped, Good, Typed, Fields, MessageFields
    <3> HIDE DEF z
    <3>2. Good(z)
      BY <2>3, <3>1 DEF Flow, Shaped, Good, Typed, Down, Fields, AllTimers
    <3>3. Stream(z) /\ Handshake(z) /\ Replaced(z)
      BY <2>3, <3>1 DEF Flow, Stream, Handshake, Replaced, Fields, MessageFields
    <3> QED
      BY <2>3, <3>1, <3>2, <3>3 DEF Flow, Shaped, Fields
  <2> HIDE DEF z
  <2> QED
    BY <1>1, <1>6, <2>2, <2>3, <2>4 DEF Begun
<1> QED
  BY <1>5, <1>6

LEMMA PollAnsweredFlow ==
    ASSUME Flow(c), c.state # "disconnected", Length,
           NEW k \in 0..Len(log), NEW again \in BOOLEAN, PollAnswered(k, again)
    PROVE  Flow(c') /\ c'.state # "disconnected"
<1> DEFINE back  == IF "raise" \in c.timers THEN Reconnected(Clear(c, {"raise"})) ELSE c
           prior == [back EXCEPT !.quiet = 0, !.cursor = k, !.channel = "none"]
           got   == Received(prior, Batch(k))
           heard == IF c.greeted THEN got ELSE InitReceived(got)
           begun == [heard EXCEPT !.greeted = TRUE]
           ended == IF again THEN EnsureReconnecting(begun) ELSE begun
           next  == [ended EXCEPT !.raising = again]
<1>1. c' = IF Interrupted(back, Batch(k)) THEN got
           ELSE IF again /\ next.state # "reconnecting" THEN next
           ELSE Poll(next)
  BY DEF PollAnswered
<1>2. /\ Flow(back) /\ back.state # "disconnected"
      /\ \A f \in MessageFields \cup {"request", "requested", "completed"} : back[f] = c[f]
  <2> DEFINE v == Clear(c, {"raise"})
  <2>1. /\ Flow(v) /\ v.state # "disconnected"
        /\ DOMAIN v = DOMAIN c
        /\ \A f \in MessageFields \cup {"request", "requested", "completed"} : v[f] = c[f]
    BY ClearFlow DEF Clear, Flow, Shaped, Good, Typed, Fields, MessageFields
  <2> HIDE DEF v
  <2>2. /\ Flow(Reconnected(v)) /\ Reconnected(v).state # "disconnected"
        /\ \A f \in MessageFields \cup {"request", "requested", "completed"} :
              Reconnected(v)[f] = v[f]
    <3>1. Flow(Reconnected(v)) /\ Reconnected(v).state # "disconnected"
      BY <2>1, ReconnectedFlow
    <3>2. \A f \in MessageFields \cup {"request", "requested", "completed"} :
              Reconnected(v)[f] = v[f]
      BY <2>1 DEF Reconnected, Clear, Flow, Shaped, Good, Typed, Fields, MessageFields
    <3> QED
      BY <3>1, <3>2
  <2> QED
    BY <2>1, <2>2 DEF v
<1> HIDE DEF back
<1>3. Moved(back, prior, k) /\ prior.state = back.state /\ prior.channel = "none"
  <2>1. /\ DOMAIN prior = DOMAIN back /\ prior.cursor = k /\ prior.channel = "none"
        /\ \A f \in (Fields \cup MessageFields) \ {"channel", "cursor"} : prior[f] = back[f]
    BY <1>2 DEF Flow, Shaped, Good, Typed, Fields, MessageFields
  <2>2. Good(prior)
    BY <1>2 DEF Flow, Shaped, Good, Typed, Down, Fields
  <2>3. k \in Nat /\ back.cursor =< k /\ k =< Len(log)
    BY <1>2 DEF PollAnswered, Length, Flow, Stream, MessageFields
  <2> HIDE DEF prior
  <2> QED
    BY <1>2, <2>1, <2>2, <2>3 DEF Moved, Flow, Shaped, Fields, MessageFields
<1>4. Batch(k) = Run(back.cursor, k)
  BY <1>2 DEF Batch, Run, MessageFields
<1>5. /\ Shaped(got) /\ Stream(got) /\ Replaced(got)
      /\ got.state # "disconnected" /\ got.channel = "none" /\ got.request = c.request
      /\ got.requested = c.requested /\ got.greeted = c.greeted /\ got.first = c.first
      /\ got.completed = c.completed
      /\ c.requested = TRUE => Flow(got)
  <2> HIDE DEF prior
  <2> DEFINE z == Received(prior, Run(back.cursor, k))
  <2>1. /\ Shaped(z) /\ Stream(z) /\ z.failed = prior.failed /\ z.completed = prior.completed
        /\ z.state = prior.state /\ z.request = prior.request /\ z.requested = prior.requested
        /\ z.channel = prior.channel /\ z.first = prior.first /\ z.greeted = prior.greeted
    BY <1>2, <1>3, ReceivedStream
  <2>2. back.requested = TRUE => Flow(z)
    BY <1>2, <1>3, ReceivedFlow
  <2>3. got = z
    BY <1>4
  <2> HIDE DEF z, got
  <2>4. /\ prior.failed = c.failed /\ prior.request = c.request /\ prior.requested = c.requested
        /\ prior.first = c.first /\ prior.greeted = c.greeted /\ prior.completed = c.completed
        /\ back.requested = c.requested
    BY <1>2, <1>3 DEF Moved, MessageFields
  <2>5. Replaced(c)
    BY DEF Flow
  <2> QED
    BY <1>2, <1>3, <2>1, <2>2, <2>3, <2>4, <2>5 DEF Replaced
<1> HIDE DEF got
<1>6. /\ Shaped(heard) /\ Stream(heard) /\ Replaced(heard)
      /\ heard.state # "disconnected" /\ heard.channel = "none"
      /\ heard.requested = TRUE /\ heard.request # "negotiate"
  <2>1. CASE c.greeted
    BY <1>5, <2>1 DEF Flow, Handshake
  <2>2. CASE ~ c.greeted
    <3>1. got.request = "negotiate" => got.requested # TRUE
      BY <1>5 DEF Flow, Handshake
    <3> DEFINE y == InitReceived(got)
    <3>2. /\ Shaped(y) /\ y.requested = TRUE /\ y.request # "negotiate"
          /\ \A f \in MessageFields \cup {"state", "channel", "completed"} : y[f] = got[f]
      BY <1>5, <3>1, InitReceivedFacts
    <3> HIDE DEF y
    <3>3. /\ y.delivered = got.delivered /\ y.buffer = got.buffer /\ y.base = got.base
          /\ y.cursor = got.cursor /\ y.state = got.state /\ y.channel = got.channel
      BY <3>2 DEF MessageFields
    <3>4. Stream(y)
      BY <1>5, <3>3 DEF Stream
    <3> QED
      BY <1>5, <2>2, <3>2, <3>3, <3>4 DEF Replaced, y
  <2> QED
    BY <2>1, <2>2
<1> HIDE DEF heard
<1>7. Flow(begun) /\ begun.state # "disconnected" /\ begun.requested = TRUE
  <2>1. /\ DOMAIN begun = DOMAIN heard /\ begun.greeted = TRUE
        /\ \A f \in (Fields \cup MessageFields) \ {"greeted"} : begun[f] = heard[f]
    BY <1>6 DEF Shaped, Good, Typed, Fields, MessageFields
  <2>2. Good(begun)
    BY <1>6 DEF Shaped, Good, Typed, Down, Fields
  <2> HIDE DEF begun
  <2>3. /\ begun.channel = "none" /\ begun.requested = TRUE /\ begun.request # "negotiate"
        /\ begun.state = heard.state
        /\ begun.delivered = heard.delivered /\ begun.buffer = heard.buffer
        /\ begun.base = heard.base /\ begun.cursor = heard.cursor
    BY <1>6, <2>1 DEF Fields, MessageFields
  <2>4. Stream(begun) /\ Handshake(begun) /\ Replaced(begun)
    BY <1>6, <2>1, <2>3 DEF Stream, Handshake, Replaced
  <2> QED
    BY <1>6, <2>1, <2>2, <2>3, <2>4 DEF Flow, Shaped
<1> HIDE DEF begun
<1>8. Flow(ended) /\ ended.state # "disconnected" /\ ended.requested = TRUE
  BY <1>7, EnsureReconnectingFlow
<1> HIDE DEF ended
<1>9. Flow(next) /\ next.state # "disconnected" /\ next.requested = TRUE
  <2>1. /\ DOMAIN next = DOMAIN ended
        /\ \A f \in Fields \cup MessageFields : next[f] = ended[f]
    BY <1>8 DEF Flow, Shaped, Good, Typed, Fields, MessageFields
  <2>2. Good(next)
    BY <1>8 DEF Flow, Shaped, Good, Typed, Down, Fields
  <2> HIDE DEF next
  <2>3. Stream(next) /\ Handshake(next) /\ Replaced(next)
    BY <1>8, <2>1 DEF Flow, Stream, Handshake, Replaced, Fields, MessageFields
  <2> QED
    BY <1>8, <2>1, <2>2, <2>3 DEF Flow, Shaped, Fields
<1> HIDE DEF next
<1>10. Flow(Poll(next)) /\ Poll(next).state # "disconnected"
  BY <1>9, PollFlow DEF Length
<1>11. Interrupted(back, Batch(k)) => Flow(got)
  <2>1. back.state # "connecting" => back.requested = TRUE
    BY <1>2 DEF Flow, Shaped, Good, Typed
  <2>2. back.requested = c.requested
    BY <1>2
  <2> QED
    BY <1>5, <2>1, <2>2 DEF Interrupted
<1> QED
  BY <1>1, <1>5, <1>9, <1>10, <1>11

LEMMA PollingFlow ==
    ASSUME Flow(c), c.state # "disconnected", Length,
           \/ PollTimer \/ PollFailed \/ RaiseTimer
           \/ \E k \in 0..Len(log), again \in BOOLEAN : PollAnswered(k, again)
    PROVE  Flow(c') /\ Begun(c')
<1>1. CASE PollTimer
  <2> DEFINE v == Clear(c, {"poll"})
  <2>1. Flow(v) /\ v.state # "disconnected"
    BY ClearFlow
  <2>2. v.first = c.first /\ v.requested = c.requested
    BY DEF Clear, Flow, Shaped, Good, Typed, Fields, MessageFields
  <2>3. c.first = TRUE \/ c.requested = TRUE
    BY <1>1 DEF PollTimer, Armed, Flow, Handshake
  <2>4. c' = Poll(v)
    BY <1>1 DEF PollTimer
  <2> HIDE DEF v
  <2> QED
    BY <2>1, <2>2, <2>3, <2>4, PollFlow DEF Length, Begun
<1>2. CASE RaiseTimer
  <2>1. Flow(Clear(c, {"raise"})) /\ Clear(c, {"raise"}).state # "disconnected"
    BY ClearFlow
  <2> QED
    BY <1>2, <2>1, ReconnectedFlow DEF RaiseTimer, Begun
<1> QED
  BY <1>1, <1>2, PollFailedFlow, PollAnsweredFlow DEF Begun

\* What neither the messages nor the state of the connection depend on.
LEMMA AlikeFlow ==
    ASSUME NEW x, Flow(x), NEW y, Good(y), DOMAIN y = DOMAIN x,
           \A f \in Fields \cup MessageFields : y[f] = x[f]
    PROVE  Flow(y)
  BY DEF Flow, Shaped, Stream, Handshake, Replaced, Fields, MessageFields

LEMMA CallFlow ==
    ASSUME NEW x, Flow(x), NEW k \in Calls, NEW to
    PROVE  /\ Flow([x EXCEPT !.calls[k] = to])
           /\ [x EXCEPT !.calls[k] = to].state = x.state
           /\ [x EXCEPT !.calls[k] = to].promise = x.promise
           /\ Fresh(x) => Fresh([x EXCEPT !.calls[k] = to])
<1> DEFINE y == [x EXCEPT !.calls[k] = to]
<1>1. /\ DOMAIN y = DOMAIN x
      /\ \A f \in Fields \cup MessageFields : y[f] = x[f]
  BY DEF Flow, Shaped, Good, Typed, Fields, MessageFields
<1>2. Good(y)
  BY DEF Flow, Shaped, Good, Typed, Down, Fields
<1> HIDE DEF y
<1>3. Flow(y) /\ y.state = x.state /\ y.promise = x.promise /\ (Fresh(x) => Fresh(y))
  BY <1>1, <1>2, AlikeFlow DEF Fresh, Fields, MessageFields
<1> QED
  BY <1>3 DEF y

LEMMA WatchingFlow ==
    ASSUME Flow(c), c.state # "disconnected",
           \/ Beat \/ PingRefused \/ Sleep
           \/ \E k \in Calls : Invoke(k) \/ Answer(k) \/ PostEnded(k) \/ PostGarbled(k)
    PROVE  Flow(c') /\ Begun(c')
<1>1. CASE Beat
  <2> DEFINE w == [c EXCEPT !.quiet = @ + 1]
             watched == c.monitoring /\ c.state = "connected"
             x == CASE watched /\ c.quiet >= KeepAliveBeats -> Reconnect(c)
                    [] watched /\ c.quiet < KeepAliveBeats  -> w
                    [] OTHER                                -> c
  <2>1. c' = IF x.slept THEN Stop(x) ELSE Arm(x, {"beat"})
    BY <1>1 DEF Beat
  <2>2. Flow(w) /\ Begun(w)
    <3>1. /\ DOMAIN w = DOMAIN c
          /\ \A f \in Fields \cup MessageFields : w[f] = c[f]
      BY DEF Flow, Shaped, Good, Typed, Fields, MessageFields
    <3>2. Good(w)
      BY DEF Flow, Shaped, Good, Typed, Down, Fields
    <3> HIDE DEF w
    <3> QED
      BY <3>1, <3>2, AlikeFlow DEF Begun, Fields
  <2>3. Flow(Reconnect(c)) /\ Begun(Reconnect(c))
    BY ReconnectFlow DEF Begun
  <2>4. x \in {Reconnect(c), w, c}
    OBVIOUS
  <2> HIDE DEF x, w
  <2>5. Flow(x) /\ Begun(x)
    BY <2>2, <2>3, <2>4 DEF Begun
  <2>6. Flow(Stop(x)) /\ Begun(Stop(x))
    <3>1. CASE x.state = "disconnected"
      BY <2>5, <3>1 DEF Stop
    <3>2. CASE x.state # "disconnected"
      BY <2>5, <3>2, StopFlow DEF Flow, Shaped, Good
    <3> QED
      BY <3>1, <3>2
  <2>7. Flow(Arm(x, {"beat"})) /\ Begun(Arm(x, {"beat"}))
    <3>1. Good(Arm(x, {"beat"}))
      BY <2>5, ArmGood DEF Flow, Shaped, AllTimers
    <3>2. Arm(x, {"beat"}) = [x EXCEPT !.timers = x.timers \cup {"beat"}]
      BY DEF Arm
    <3>3. Arm(x, {"beat"}).state = x.state /\ Arm(x, {"beat"}).stopped = x.stopped
      BY <2>5 DEF Arm, Flow, Shaped, Good, Typed, Fields
    <3> QED
      BY <2>5, <3>1, <3>2, <3>3, TimersFlow DEF Begun
  <2> QED
    BY <2>1, <2>6, <2>7
<1>2. CASE PingRefused
  BY <1>2, StopFlow DEF PingRefused, Flow, Shaped, Good
<1>3. CASE Sleep
  <2>1. /\ DOMAIN c' = DOMAIN c
        /\ \A f \in Fields \cup MessageFields : c'[f] = c[f]
    BY <1>3 DEF Sleep, Flow, Shaped, Good, Typed, Fields, MessageFields
  <2>2. Good(c')
    BY <1>3, WatchingGood DEF Flow, Shaped
  <2> QED
    BY <2>1, <2>2, AlikeFlow DEF Begun, Fields
<1>4. ASSUME NEW k \in Calls, Invoke(k) \/ PostEnded(k) PROVE Flow(c') /\ Begun(c')
  <2>1. \E to : c' = [c EXCEPT !.calls[k] = to]
    BY <1>4 DEF Invoke, PostEnded
  <2> QED
    BY <2>1, CallFlow DEF Begun
<1>5. ASSUME NEW k \in Calls, Answer(k) PROVE Flow(c') /\ Begun(c')
  <2>1. /\ DOMAIN c' = DOMAIN c
        /\ \A f \in Fields \cup MessageFields : c'[f] = c[f]
    BY <1>5 DEF Answer, Flow, Shaped, Good, Typed, Fields, MessageFields
  <2>2. Good(c')
    BY <1>5, WatchingGood DEF Flow, Shaped
  <2> QED
    BY <2>1, <2>2, AlikeFlow DEF Begun, Fields
<1>6. ASSUME NEW k \in Calls, PostGarbled(k) PROVE Flow(c') /\ Begun(c')
  <2> DEFINE y == [c EXCEPT !.calls[k] = "settled"]
  <2>1. Flow(y) /\ y.state # "disconnected"
    BY CallFlow
  <2>2. c' = Stop(y)
    BY <1>6 DEF PostGarbled
  <2> HIDE DEF y
  <2> QED
    BY <2>1, <2>2, StopFlow DEF Flow, Shaped, Good
<1> QED
  BY <1>1, <1>2, <1>3, <1>4, <1>5, <1>6

\* A connection that is down is only started, and only the first time.
LEMMA IdleFlow ==
    ASSUME Flow(c), c.state = "disconnected", c.promise = "none" => Fresh(c), Length,
           ConnectionNext
    PROVE  Flow(c') /\ (c'.promise = "none" => Fresh(c'))
<1>1. Down(c) /\ Good(c)
  BY DEF Flow, Shaped, Good
<1>2. CASE Start
  <2>1. /\ DOMAIN c' = DOMAIN c /\ c'.state = "connecting" /\ c'.promise = "pending"
        /\ c'.request = "negotiate"
        /\ \A f \in MessageFields \cup {"requested", "completed", "channel", "timers"} :
              c'[f] = c[f]
    BY <1>2 DEF Start, Flow, Shaped, Good, Typed, Fields, MessageFields
  <2>2. Good(c')
    BY <1>1, <1>2, StartingGood
  <2>3. Fresh(c) /\ c.buffer = << >> /\ c.channel = "none" /\ "poll" \notin c.timers
    BY <1>1, <1>2 DEF Start, Down
  <2>4. /\ c'.delivered = << >> /\ c'.buffer = << >> /\ c'.base = 0 /\ c'.cursor = 0
        /\ c'.greeted = FALSE /\ c'.requested = FALSE /\ c'.completed = FALSE
        /\ c'.failed = FALSE /\ c'.channel = "none" /\ "poll" \notin c'.timers
    BY <2>1, <2>3 DEF Fresh, MessageFields
  <2>5. Stream(c')
    <3>1. c'.delivered \in Seq(1..Len(log)) /\ c'.buffer \in Seq(1..Len(log))
      BY <2>4, EmptySeq
    <3>2. c'.delivered \o c'.buffer = Run(0, 0)
      <4>1. << >> \o << >> = << >>
        BY EmptySeq, ConcatEmptySeq
      <4>2. Run(0, 0) = << >>
        BY RunEmpty
      <4> QED
        BY <2>4, <4>1, <4>2
    <3> QED
      BY <2>1, <2>4, <3>1, <3>2 DEF Stream, Length
  <2>6. Handshake(c') /\ Replaced(c')
    BY <2>1, <2>4 DEF Handshake, Replaced
  <2>7. c'.promise # "none"
    BY <2>1
  <2> QED
    BY <2>1, <2>2, <2>5, <2>6, <2>7 DEF Flow, Shaped
<1>3. CASE Beat
  <2>1. c' = c \/ c' = Arm(c, {"beat"})
    BY <1>3 DEF Beat, Stop
  <2>2. CASE c' = Arm(c, {"beat"})
    <3>1. /\ DOMAIN c' = DOMAIN c /\ c'.state = c.state /\ c'.promise = c.promise
          /\ \A f \in MessageFields \cup {"requested", "completed"} : c'[f] = c[f]
      BY <2>2 DEF Arm, Flow, Shaped, Good, Typed, Fields, MessageFields
    <3>2. Good(c')
      BY <1>1, <1>3, WatchingGood
    <3> QED
      BY <3>1, <3>2 DEF Flow, Shaped, Fresh, MessageFields
  <2> QED
    BY <2>1, <2>2
<1>4. ASSUME NEW k \in Calls, Invoke(k) \/ Answer(k) \/ PostEnded(k) \/ PostGarbled(k)
      PROVE  Flow(c') /\ (c'.promise = "none" => Fresh(c'))
  <2>1. \E to : c' = [c EXCEPT !.calls[k] = to] \/ c' = Stop([c EXCEPT !.calls[k] = to])
    BY <1>1, <1>4 DEF Invoke, Answer, PostEnded, PostGarbled, Reaches, Down
  <2>2. ASSUME NEW to
        PROVE  LET y == [c EXCEPT !.calls[k] = to]
               IN  Flow(y) /\ (y.promise = "none" => Fresh(y)) /\ Stop(y) = y
    <3> DEFINE y == [c EXCEPT !.calls[k] = to]
    <3>1. /\ Flow(y) /\ y.state = c.state /\ y.promise = c.promise /\ (Fresh(c) => Fresh(y))
      BY CallFlow
    <3> HIDE DEF y
    <3>2. Stop(y) = y
      BY <3>1 DEF Stop
    <3>3. Flow(y) /\ (y.promise = "none" => Fresh(y)) /\ Stop(y) = y
      BY <3>1, <3>2
    <3> QED
      BY <3>3 DEF y
  <2> QED
    BY <2>1, <2>2
<1>5. ~ (\/ NegotiateAnswered \/ NegotiateFailed \/ TransportTimeout \/ StartAnswered
         \/ StartFailed \/ ReconnectTimer \/ AttemptTimer \/ StopReconnectingTimer
         \/ PollTimer \/ RaiseTimer \/ PingRefused \/ Sleep)
  BY <1>1 DEF Down, NegotiateAnswered, NegotiateFailed, TransportTimeout, StartAnswered,
              StartFailed, ReconnectTimer, AttemptTimer, StopReconnectingTimer, PollTimer,
              RaiseTimer, PingRefused, Sleep, Armed
<1>6. ~ (\/ Open \/ Initialized \/ KeepAlive \/ Garbled \/ Close \/ FallSilent \/ PollFailed
         \/ (\E k \in 1..Len(log) : Receive(k))
         \/ (\E k \in 0..Len(log), again \in BOOLEAN : PollAnswered(k, again)))
  BY <1>1 DEF Down, Open, Initialized, KeepAlive, Garbled, Close, FallSilent, PollFailed,
              Receive, PollAnswered, Reaches
<1> QED
  BY <1>2, <1>3, <1>4, <1>5, <1>6 DEF ConnectionNext, Timers, Traffic, Failures, User

-----------------------------------------------------------------------------
(* The invariant.                                                          *)

LogTyped == \E S : log \in Seq(S)

Flowing == Flow(c) /\ (c.promise = "none" => Fresh(c)) /\ LogTyped

LogGrows == log' = log \/ \E m : log' = Append(log, m)

LEMMA LogFacts ==
    ASSUME LogTyped, LogGrows
    PROVE  /\ LogTyped' /\ Len(log) \in Nat /\ Len(log') \in Nat /\ Len(log) =< Len(log')
           /\ \A i \in 1..Len(log) : log'[i] = log[i]
<1>1. PICK S : log \in Seq(S)
  BY DEF LogTyped
<1>2. Len(log) \in Nat
  BY <1>1, LenProperties
<1>3. CASE log' = log
  BY <1>1, <1>2, <1>3 DEF LogTyped
<1>4. ASSUME NEW m, log' = Append(log, m)
      PROVE  /\ LogTyped' /\ Len(log) \in Nat /\ Len(log') \in Nat /\ Len(log) =< Len(log')
             /\ \A i \in 1..Len(log) : log'[i] = log[i]
  <2> DEFINE T == S \cup {m}
  <2>1. log \in Seq(T)
    BY <1>1, SeqMonotonic
  <2>2. /\ log' \in Seq(T) /\ Len(log') = Len(log) + 1
        /\ \A i \in 1..Len(log) : log'[i] = log[i]
    <3> HIDE DEF T
    <3>1. m \in T
      BY DEF T
    <3> QED
      BY <1>4, <2>1, <3>1, AppendProperties
  <2> QED
    BY <1>2, <2>2 DEF LogTyped
<1> QED
  BY <1>3, <1>4 DEF LogGrows

LEMMA FlowLater ==
    ASSUME Flow(c'), LogTyped, LogGrows
    PROVE  Flow(c)'
<1>1. /\ Len(log) \in Nat /\ Len(log') \in Nat /\ Len(log) =< Len(log')
      /\ \A i \in 1..Len(log) : log'[i] = log[i]
  BY LogFacts
<1>2. ASSUME Stream(c') PROVE Stream(c)'
  <2>1. 1..Len(log) \subseteq 1..Len(log')
    BY <1>1
  <2>2. /\ c'.delivered \in Seq(1..Len(log)) /\ c'.buffer \in Seq(1..Len(log))
        /\ c'.base \in Nat /\ c'.cursor \in Nat /\ c'.base =< c'.cursor
        /\ c'.cursor =< Len(log')
    BY <1>1, <1>2 DEF Stream
  <2>3. c'.delivered \in Seq(1..Len(log')) /\ c'.buffer \in Seq(1..Len(log'))
    BY <2>1, <2>2, SeqMonotonic
  <2>4. ThrownBy(c'.delivered) => ThrownBy(c.delivered)'
    <3>1. \A i \in DOMAIN c'.delivered : c'.delivered[i] \in 1..Len(log)
      BY <2>2, ElementOfSeq, LenProperties
    <3>2. \A i \in DOMAIN c'.delivered : \A j \in 1..(i - 1) : j \in DOMAIN c'.delivered
      BY <2>2, LenProperties
    <3> QED
      BY <1>1, <3>1, <3>2 DEF ThrownBy
  <2> QED
    BY <1>2, <2>2, <2>3, <2>4 DEF Stream
<1> QED
  BY <1>2 DEF Flow

LEMMA InitFlowing == Init => Flowing
<1> SUFFICES ASSUME Init PROVE Flowing
  OBVIOUS
<1>1. Good(c)
  BY InitGood DEF GoodConnection
<1>2. c = NewConnection /\ log = << >>
  BY DEF Init, ConnectionInit
<1>3. Flow(c) /\ Fresh(c)
  BY <1>1, <1>2 DEF NewConnection, Flow, Shaped, Fresh, MessageFields
<1>4. LogTyped
  <2>1. << >> \in Seq({})
    BY EmptySeq
  <2> QED
    BY <1>2, <2>1 DEF LogTyped
<1> QED
  BY <1>3, <1>4 DEF Flowing

LEMMA NextFlowing == Flowing /\ [Next]_vars => Flowing'
<1> SUFFICES ASSUME Flowing, [Next]_vars PROVE Flowing'
  OBVIOUS
<1>1. Length
  <2>1. PICK S : log \in Seq(S)
    BY DEF Flowing, LogTyped
  <2> QED
    BY <2>1, LenProperties DEF Length
<1>2. ASSUME LogGrows, Flow(c'), c'.promise = "none" => Fresh(c') PROVE Flowing'
  <2>1. LogTyped' /\ Flow(c)'
    BY <1>2, LogFacts, FlowLater DEF Flowing
  <2> QED
    BY <1>2, <2>1 DEF Flowing, Fresh
<1>3. ASSUME Flow(c'), Begun(c') PROVE c'.promise # "none"
  BY <1>3 DEF Flow, Shaped, Good, Typed, Begun
<1>4. CASE Of(ConnectionNext)
  <2>1. ConnectionNext
    BY <1>4 DEF Of
  <2>2. log' = log
    BY <2>1 DEF ConnectionNext, Timers, Traffic, Failures, User, TransportTimeout, ReconnectTimer,
                AttemptTimer, StopReconnectingTimer, PollTimer, RaiseTimer, Beat, NegotiateAnswered,
                StartAnswered, Open, Initialized, KeepAlive, Receive, PollAnswered, Answer,
                PostEnded, NegotiateFailed, StartFailed, Garbled, Close, FallSilent, PollFailed,
                PingRefused, Sleep, PostGarbled, Start, Invoke
  <2>3. CASE c.state = "disconnected"
    BY <1>1, <1>2, <2>1, <2>2, <2>3, IdleFlow DEF Flowing, LogGrows
  <2>4. CASE c.state # "disconnected"
    <3>1. ~ Start
      BY <2>4 DEF Start, Flowing, Flow, Shaped, Good, Typed
    <3>2. Flow(c') /\ Begun(c')
      BY <1>1, <2>1, <2>4, <3>1, StartingFlow, ChannelFlow, PollingFlow, WatchingFlow
         DEF Flowing, ConnectionNext, Timers, Traffic, Failures, User
    <3> QED
      BY <1>2, <1>3, <2>2, <3>2 DEF LogGrows
  <2> QED
    BY <2>3, <2>4
<1>5. CASE OnConnected
  <2>1. c.request = "start" /\ LogGrows
    BY <1>5 DEF OnConnected, Publish, LogGrows
  <2>2. c.state = "connecting" /\ c.requested = TRUE /\ Flow(c)
    BY <2>1 DEF Flowing, Flow, Shaped, Good
  <2>3. /\ DOMAIN c' = DOMAIN c /\ c'.request = "started" /\ c'.promise = c.promise
        /\ \A f \in (Fields \cup MessageFields) \ {"request"} : c'[f] = c[f]
    BY <1>5, <2>2 DEF OnConnected, Flow, Shaped, Good, Typed, Fields, MessageFields
  <2>4. Good(c')
    BY <1>5, <2>2, StartingGood DEF Flow, Shaped
  <2>5. Flow(c')
    BY <2>2, <2>3, <2>4 DEF Flow, Shaped, Stream, Handshake, Replaced, Fields, MessageFields
  <2>6. c.promise # "none"
    BY <2>2 DEF Flow, Shaped, Good, Typed
  <2> QED
    BY <1>2, <2>1, <2>3, <2>5, <2>6
<1>6. CASE OnDisconnected \/ Broadcast \/ (\E p \in Pushes : Push(p)) \/ UNCHANGED vars
  <2>1. c' = c /\ LogGrows
    BY <1>6 DEF OnDisconnected, Broadcast, Push, ChangeBalance, LookUp, ReadBalances, SendBalances,
                vars, connectionVars, Publish, LogGrows
  <2> QED
    BY <1>2, <2>1 DEF Flowing
<1> QED
  BY <1>4, <1>5, <1>6 DEF Next, Server

\* Whichever transport carries them, and whatever is lost, polled again, buffered or
\* reconnected in between, LkMarket's handlers are called with each message since the
\* connection was made, once and in order, until one of them throws.
THEOREM MessagesExactlyOnce == Spec => []ExactlyOnce
<1>1. Flowing => ExactlyOnce
  <2> SUFFICES ASSUME Flow(c), c.state # "disconnected", ~ Thrown
               PROVE  c.delivered \o c.buffer
                        = [i \in 1..(c.cursor - c.base) |-> c.base + i]
    BY DEF Flowing, ExactlyOnce
  <2>1. ~ ThrownBy(c.delivered)
    BY DEF Thrown, ThrownBy
  <2> QED
    BY <2>1 DEF Flow, Stream, Run
<1> QED
  BY <1>1, InitFlowing, NextFlowing, PTL DEF Spec

-----------------------------------------------------------------------------
(* Where the messages begin.                                               *)

\* The record has the fields the proofs speak of.
Whole(x) == Fields \cup MessageFields \subseteq DOMAIN x

\* A function of the connection neither moves where its messages begin nor takes a start
\* request back, and arms no timer that raises reconnected.
Onward(x, y) ==
    Whole(x) => /\ Whole(y)
                /\ y.base = x.base
                /\ x.requested = TRUE => y.requested = TRUE
                /\ "raise" \in y.timers => "raise" \in x.timers

\* Onward composes, as the functions do.
LEMMA OnwardTrans ==
    ASSUME NEW x, NEW y, NEW z, Onward(x, y), Onward(y, z)
    PROVE  Onward(x, z)
  BY DEF Onward

\* Timers, transports, promises and calls.
LEMMA TimersOnward ==
    ASSUME NEW x
    PROVE  /\ \A T : Onward(x, Clear(x, T))
           /\ \A T : "raise" \notin T => Onward(x, Arm(x, T))
           /\ Onward(x, TransportStop(x)) /\ Onward(x, Reject(x)) /\ Onward(x, FailCalls(x))
  BY DEF Onward, Clear, Arm, TransportStop, Reject, FailCalls, Whole, Fields, MessageFields

\* A connection that is stopped keeps what it knows of its messages.
LEMMA StopOnward ==
    ASSUME NEW x
    PROVE  Onward(x, Stop(x))
<1> DEFINE y == FailCalls(TransportStop(x))
<1>1. Onward(x, y)
  BY TimersOnward, OnwardTrans
<1>2. Stop(x) = x \/ Onward(y, Stop(x))
  BY DEF Stop, Onward, Whole, Fields, MessageFields
<1>3. Onward(x, x)
  BY DEF Onward
<1> HIDE DEF y
<1> QED
  BY <1>1, <1>2, <1>3, OnwardTrans

\* What happens to a transport that starts.
LEMMA StartOnward ==
    ASSUME NEW x
    PROVE  /\ \A i : Onward(x, Initialize(x, i))
           /\ Onward(x, TransportFailed(x)) /\ Onward(x, OnFailed(x))
           /\ Onward(x, InitReceived(x))
<1>1. ASSUME NEW y, NEW i PROVE Onward(y, Initialize(y, i))
  <2>1. Onward(y, Stop(Reject(y)))
    BY TimersOnward, StopOnward, OnwardTrans
  <2>2. i > Len(Transports) \/ Onward(y, Initialize(y, i))
    BY DEF Initialize, Onward, Whole, Fields, MessageFields
  <2> QED
    BY <2>1, <2>2 DEF Initialize
<1>2. ASSUME NEW u PROVE Onward(u, u)
  BY DEF Onward
<1>3. ASSUME NEW u PROVE Onward(u, TransportFailed(u))
  <2> DEFINE y == Clear(u, {"transportTimeout"})
  <2>1. Onward(u, y)
    BY TimersOnward
  <2>2. Onward(y, Initialize(TransportStop(y), u.index + 1))
    BY <1>1, TimersOnward, OnwardTrans
  <2>3. Onward(y, Stop(Reject(y)))
    BY TimersOnward, StopOnward, OnwardTrans
  <2> HIDE DEF y
  <2>4. TransportFailed(u) \in {u, y, Initialize(TransportStop(y), u.index + 1), Stop(Reject(y))}
    BY DEF TransportFailed, y
  <2> QED
    BY <1>2, <2>1, <2>2, <2>3, <2>4, OnwardTrans
<1>4. Onward(x, OnFailed(x))
  <2>1. Onward(x, [x EXCEPT !.failed = TRUE])
    BY DEF Onward, Whole, Fields, MessageFields
  <2> QED
    BY <1>2, <1>3, <2>1, OnwardTrans DEF OnFailed
<1>5. Onward(x, InitReceived(x))
  BY DEF InitReceived, Clear, Onward, Whole, Fields, MessageFields
<1> QED
  BY <1>1, <1>3, <1>4, <1>5

\* What happens to a connection that was up.
LEMMA ConnectedOnward ==
    ASSUME NEW x
    PROVE  /\ Onward(x, Reconnect(x)) /\ Onward(x, EnsureReconnecting(x)) /\ Onward(x, Reconnected(x))
           /\ \A s : Onward(x, Deliver(x, s)) /\ Onward(x, Received(x, s))
<1>1. Onward(x, x)
  BY DEF Onward
<1>2. Onward(x, Reconnect(x))
  BY <1>1, TimersOnward, StopOnward DEF Reconnect
<1>3. Onward(x, EnsureReconnecting(x))
  BY DEF EnsureReconnecting, Arm, FailCalls, Onward, Whole, Fields, MessageFields
<1>4. Onward(x, Reconnected(x))
  BY DEF Reconnected, Clear, Onward, Whole, Fields, MessageFields
<1>5. ASSUME NEW s PROVE Onward(x, Deliver(x, s)) /\ Onward(x, Received(x, s))
  BY DEF Received, Deliver, Onward, Whole, Fields, MessageFields
<1> QED
  BY <1>2, <1>3, <1>4, <1>5

\* Changes of other fields.
LEMMA FieldsOnward ==
    ASSUME NEW x, NEW y, Whole(x) => DOMAIN y = DOMAIN x,
           Whole(x) =>
              y.base = x.base /\ y.requested = x.requested /\ y.timers = x.timers
    PROVE  Onward(x, y)
  BY DEF Onward, Whole, Fields, MessageFields

\* What a step of the page may do to where its messages begin.
BeginsOnce ==
    /\ c'.base # c.base => c'.base = Len(log) /\ c.requested # TRUE
    /\ c.requested = TRUE => c'.requested = TRUE
    /\ "raise" \in c'.timers => "raise" \in c.timers \/ c'.greeted = TRUE

\* A handler made of such functions only.
LEMMA OnwardBegins ==
    ASSUME Flow(c), Onward(c, c')
    PROVE  BeginsOnce
<1>1. Whole(c)
  BY DEF Flow, Shaped, Good, Typed, Whole
<1> QED
  BY <1>1 DEF Onward, BeginsOnce

\* The handlers of a start.
LEMMA StartingBegins ==
    ASSUME Flow(c), Start \/ NegotiateAnswered \/ NegotiateFailed \/ TransportTimeout \/ StartAnswered
                    \/ StartFailed
    PROVE  BeginsOnce
<1>0. Whole(c)
  BY DEF Flow, Shaped, Good, Typed, Whole
<1>1. CASE Start
  BY <1>0, <1>1 DEF Start, BeginsOnce, Whole, Fields, MessageFields
<1>2. CASE NegotiateAnswered \/ NegotiateFailed \/ StartFailed
  <2> DEFINE x == [c EXCEPT !.request = "none"]
  <2>1. Onward(c, x)
    BY DEF Onward, Whole, Fields, MessageFields
  <2>2. Onward(x, Initialize(x, 1)) /\ Onward(x, Stop(Reject(x)))
    BY StartOnward, TimersOnward, StopOnward, OnwardTrans
  <2>3. c' = Initialize(x, 1) \/ c' = Stop(Reject(x))
    BY <1>2 DEF NegotiateAnswered, NegotiateFailed, StartFailed
  <2> HIDE DEF x
  <2> QED
    BY <2>1, <2>2, <2>3, OnwardTrans, OnwardBegins
<1>3. CASE TransportTimeout
  <2>1. c' = OnFailed(Clear(c, {"transportTimeout"}))
    BY <1>3 DEF TransportTimeout
  <2> QED
    BY <2>1, TimersOnward, StartOnward, OnwardTrans, OnwardBegins
<1>4. CASE StartAnswered
  <2> DEFINE x == [Arm(c, {"beat", "ping"}) EXCEPT
                    !.request = "none",
                    !.completed = TRUE,
                    !.monitoring = ~ Polling(c),
                    !.quiet = 0,
                    !.slept = FALSE,
                    !.state = "connected"]
  <2>1. Onward(c, x)
    BY DEF Arm, Onward, Whole, Fields, MessageFields
  <2>2. c' = Drained(x) \/ c' = [Drained(x) EXCEPT !.promise = "resolved"]
    BY <1>4 DEF StartAnswered
  <2> HIDE DEF x
  <2>3. Onward(x, Drained(x))
    <3>1. Onward(x, Deliver(x, x.buffer))
      BY ConnectedOnward
    <3>2. Onward(Deliver(x, x.buffer), Drained(x))
      BY DEF Drained, Onward, Whole, Fields, MessageFields
    <3> QED
      BY <3>1, <3>2, OnwardTrans
  <2>4. Onward(Drained(x), c')
    BY <2>2 DEF Onward, Whole, Fields, MessageFields
  <2> QED
    BY <2>1, <2>3, <2>4, OnwardTrans, OnwardBegins
<1> QED
  BY <1>1, <1>2, <1>3, <1>4

\* Those of a socket: only one that is opened first begins anew.
LEMMA ChannelBegins ==
    ASSUME Flow(c), \/ Open \/ Initialized \/ KeepAlive \/ Garbled \/ Close \/ FallSilent
                    \/ ReconnectTimer \/ AttemptTimer \/ StopReconnectingTimer
                    \/ \E k \in 1..Len(log) : Receive(k)
    PROVE  BeginsOnce
<1>0. Whole(c) /\ Onward(c, c)
  BY DEF Flow, Shaped, Good, Typed, Whole, Onward
<1>1. CASE Open
  <2> DEFINE x == [Clear(c, {"reconnect", "attempt"}) EXCEPT
                    !.channel = "open", !.alive = TRUE,
                    !.base   = IF c.first THEN Len(log) ELSE @,
                    !.cursor = IF c.first THEN Len(log) ELSE @]
  <2>1. /\ Whole(x) /\ x.base = (IF c.first THEN Len(log) ELSE c.base) /\ x.requested = c.requested
        /\ "raise" \in x.timers => "raise" \in c.timers
    BY <1>0 DEF Clear, Whole, Fields, MessageFields
  <2>2. c' = Reconnected(x) /\ c.channel = "opening"
    BY <1>1 DEF Open
  <2>3. c.first => c.requested # TRUE
    BY <2>2 DEF Flow, Shaped, Good, Typed, Down, Handshake
  <2> HIDE DEF x
  <2>4. Onward(x, c')
    BY <2>2, ConnectedOnward
  <2> QED
    BY <2>1, <2>3, <2>4 DEF Onward, BeginsOnce
<1>2. CASE Initialized
  <2> DEFINE x == [c EXCEPT !.greeted = TRUE, !.quiet = 0]
  <2>1. Onward(c, x)
    BY DEF Onward, Whole, Fields, MessageFields
  <2>2. c' = InitReceived(x)
    BY <1>2 DEF Initialized
  <2> HIDE DEF x
  <2> QED
    BY <2>1, <2>2, StartOnward, OnwardTrans, OnwardBegins
<1>3. CASE KeepAlive \/ FallSilent
  <2>1. Onward(c, c')
    BY <1>3 DEF KeepAlive, FallSilent, Onward, Whole, Fields, MessageFields
  <2> QED
    BY <2>1, OnwardBegins
<1>4. CASE Garbled \/ Close
  <2> DEFINE x == IF c.first THEN OnFailed(c) ELSE c
  <2>1. Onward(c, x)
    BY <1>0, StartOnward
  <2>2. c' \in {x, Stop(x), Reconnect([x EXCEPT !.channel = "closed"])}
    BY <1>4 DEF Garbled, Close
  <2> HIDE DEF x
  <2>3. Onward(x, [x EXCEPT !.channel = "closed"])
    BY DEF Onward, Whole, Fields, MessageFields
  <2>4. Onward(x, Stop(x)) /\ Onward(x, Reconnect([x EXCEPT !.channel = "closed"]))
    BY <2>3, StopOnward, ConnectedOnward, OnwardTrans
  <2> QED
    BY <2>1, <2>2, <2>4, OnwardTrans, OnwardBegins
<1>5. CASE ReconnectTimer
  <2> DEFINE x == EnsureReconnecting(TransportStop(c))
             y == [x EXCEPT !.channel = "opening", !.first = FALSE,
                            !.timers = @ \cup IF Using(c, "serverSentEvents")
                                              THEN {"attempt"} ELSE {}]
  <2>1. Onward(c, x)
    BY TimersOnward, ConnectedOnward, OnwardTrans
  <2>2. c' \in {Stop(c), x, y}
    BY <1>5 DEF ReconnectTimer
  <2>3. Onward(x, y)
    <3> HIDE DEF x
    <3> QED
      BY DEF Onward, Whole, Fields, MessageFields
  <2> HIDE DEF x, y
  <2> QED
    BY <2>1, <2>2, <2>3, StopOnward, OnwardTrans, OnwardBegins
<1>6. CASE AttemptTimer
  <2>1. c' = Reconnect(Clear(c, {"attempt"}))
    BY <1>6 DEF AttemptTimer
  <2> QED
    BY <2>1, TimersOnward, ConnectedOnward, OnwardTrans, OnwardBegins
<1>7. CASE StopReconnectingTimer
  <2>1. c' = Stop(Clear(c, {"stopReconnecting"}))
    BY <1>7 DEF StopReconnectingTimer
  <2> QED
    BY <2>1, TimersOnward, StopOnward, OnwardTrans, OnwardBegins
<1>8. ASSUME NEW k \in 1..Len(log), Receive(k) PROVE BeginsOnce
  <2> DEFINE x == [c EXCEPT !.quiet = 0, !.cursor = k]
  <2>1. Onward(c, x)
    BY DEF Onward, Whole, Fields, MessageFields
  <2>2. c' = Received(x, Batch(k))
    BY <1>8 DEF Receive
  <2> HIDE DEF x
  <2> QED
    BY <2>1, <2>2, ConnectedOnward, OnwardTrans, OnwardBegins
<1> QED
  BY <1>1, <1>2, <1>3, <1>4, <1>5, <1>6, <1>7, <1>8

\* A poll that is no connect continues where the last one ended.
LEMMA PollBegins ==
    ASSUME NEW x, Whole(x)
    PROVE  /\ Poll(x).base = IF x.greeted THEN x.base ELSE Len(log)
           /\ Poll(x).requested = x.requested /\ Poll(x).greeted = x.greeted
           /\ "raise" \in Poll(x).timers => "raise" \in x.timers \/ x.greeted
  BY DEF Poll, Whole, Fields, MessageFields

\* Those of long polling: only a connect begins anew.
LEMMA PollingBegins ==
    ASSUME Flow(c), \/ PollTimer \/ PollFailed \/ RaiseTimer
                    \/ \E k \in 0..Len(log), r \in BOOLEAN : PollAnswered(k, r)
    PROVE  BeginsOnce
<1>0. Whole(c) /\ Onward(c, c)
  BY DEF Flow, Shaped, Good, Typed, Whole, Onward
<1>1. CASE PollTimer
  <2> DEFINE x == Clear(c, {"poll"})
  <2>1. Onward(c, x) /\ x.greeted = c.greeted /\ x.base = c.base /\ x.requested = c.requested /\ Whole(x)
    BY <1>0, TimersOnward DEF Clear, Whole, Fields, MessageFields
  <2>2. c' = Poll(x) /\ "poll" \in c.timers
    BY <1>1 DEF PollTimer, Armed
  <2>3. c.greeted = TRUE <=> c.requested = TRUE
    BY <2>2 DEF Flow, Shaped, Good, Typed, Down, Handshake
  <2> HIDE DEF x
  <2>4. /\ c'.base = (IF c.greeted THEN c.base ELSE Len(log))
        /\ c'.requested = c.requested /\ c'.greeted = c.greeted
        /\ "raise" \in c'.timers => "raise" \in x.timers \/ c.greeted
    BY <2>1, <2>2, PollBegins
  <2>5. "raise" \in x.timers => "raise" \in c.timers
    BY <1>0, <2>1 DEF Onward
  <2>6. CASE c.greeted
    BY <2>4, <2>5, <2>6 DEF BeginsOnce
  <2>7. CASE ~ c.greeted
    BY <2>3, <2>4, <2>5, <2>7 DEF BeginsOnce
  <2> QED
    BY <2>6, <2>7
<1>2. CASE RaiseTimer
  <2>1. c' = Reconnected(Clear(c, {"raise"}))
    BY <1>2 DEF RaiseTimer
  <2> QED
    BY <2>1, TimersOnward, ConnectedOnward, OnwardTrans, OnwardBegins
<1>3. CASE PollFailed
  <2> DEFINE w == [Clear(c, {"raise"}) EXCEPT !.channel = "none"]
             x == OnFailed(w)
             y == EnsureReconnecting(x)
             z == Arm([y EXCEPT !.raising = TRUE], {"poll"})
  <2>1. Onward(c, w)
    BY DEF Clear, Onward, Whole, Fields, MessageFields
  <2>2. Onward(w, x)
    BY StartOnward
  <2>3. Onward(x, y) /\ Onward(x, Stop(x))
    BY ConnectedOnward, StopOnward
  <2>4. Onward(y, z)
    BY DEF Arm, Onward, Whole, Fields, MessageFields
  <2>5. c' \in {x, Stop(x), y, z}
    BY <1>3 DEF PollFailed
  <2> HIDE DEF w, x, y, z
  <2> QED
    BY <2>1, <2>2, <2>3, <2>4, <2>5, OnwardTrans, OnwardBegins
<1>4. ASSUME NEW k \in 0..Len(log), NEW r \in BOOLEAN, PollAnswered(k, r) PROVE BeginsOnce
  <2> DEFINE back == IF "raise" \in c.timers THEN Reconnected(Clear(c, {"raise"})) ELSE c
             here == [back EXCEPT !.quiet = 0, !.cursor = k, !.channel = "none"]
             got == Received(here, Batch(k))
             heard == IF c.greeted THEN got ELSE InitReceived(got)
             begun == [heard EXCEPT !.greeted = TRUE]
             after == IF r THEN EnsureReconnecting(begun) ELSE begun
             next == [after EXCEPT !.raising = r]
  <2>1. Onward(c, back)
    BY <1>0, TimersOnward, ConnectedOnward, OnwardTrans
  <2>2. Onward(back, here)
    BY DEF Onward, Whole, Fields, MessageFields
  <2>3. Onward(here, got)
    BY ConnectedOnward
  <2>4. Onward(got, heard)
    <3>1. Onward(got, got)
      BY DEF Onward
    <3> QED
      BY <3>1, StartOnward
  <2>5. Onward(heard, begun) /\ (Whole(heard) => begun.greeted = TRUE)
    <3> HIDE DEF heard
    <3> QED
      BY DEF Onward, Whole, Fields, MessageFields
  <2>6. Onward(begun, after) /\ (Whole(begun) => after.greeted = begun.greeted)
    <3> HIDE DEF begun
    <3>1. Onward(begun, begun)
      BY DEF Onward
    <3>2. Whole(begun) => EnsureReconnecting(begun).greeted = begun.greeted
      BY DEF EnsureReconnecting, Arm, FailCalls, Whole, Fields, MessageFields
    <3> QED
      BY <3>1, <3>2, ConnectedOnward
  <2>7. Onward(after, next) /\ (Whole(after) => next.greeted = after.greeted)
    <3> HIDE DEF after
    <3> QED
      BY DEF Onward, Whole, Fields, MessageFields
  <2>8. c' \in {got, next, Poll(next)}
    BY <1>4 DEF PollAnswered
  <2> HIDE DEF back, here, got, heard, begun, after, next
  <2>9. Onward(c, got) /\ Onward(c, next)
    BY <2>1, <2>2, <2>3, <2>4, <2>5, <2>6, <2>7, OnwardTrans
  <2>10. Whole(heard) /\ Whole(begun) /\ Whole(after) /\ Whole(next) /\ next.greeted = TRUE
    BY <1>0, <2>1, <2>2, <2>3, <2>4, <2>5, <2>6, <2>7 DEF Onward
  <2>11. CASE c' = Poll(next)
    BY <1>0, <2>9, <2>10, <2>11, PollBegins DEF Onward, BeginsOnce
  <2> QED
    BY <2>8, <2>9, <2>11, OnwardBegins
<1> QED
  BY <1>1, <1>2, <1>3, <1>4

\* Those of watching and calling.
LEMMA WatchingBegins ==
    ASSUME Flow(c), \/ Beat \/ PingRefused \/ Sleep
                    \/ \E k \in Calls : Invoke(k) \/ Answer(k) \/ PostEnded(k) \/ PostGarbled(k)
    PROVE  BeginsOnce
<1>0. Onward(c, c)
  BY DEF Onward
<1>1. CASE Beat
  <2> DEFINE watched == c.monitoring /\ c.state = "connected"
             x == CASE watched /\ c.quiet >= KeepAliveBeats -> Reconnect(c)
                    [] watched /\ c.quiet < KeepAliveBeats  -> [c EXCEPT !.quiet = @ + 1]
                    [] OTHER                                -> c
  <2>1. x \in {Reconnect(c), [c EXCEPT !.quiet = @ + 1], c}
    OBVIOUS
  <2>2. Onward(c, [c EXCEPT !.quiet = @ + 1])
    BY DEF Onward, Whole, Fields, MessageFields
  <2>3. c' = Stop(x) \/ c' = Arm(x, {"beat"})
    BY <1>1 DEF Beat
  <2> HIDE DEF x
  <2>4. Onward(c, x)
    BY <1>0, <2>1, <2>2, ConnectedOnward
  <2>5. Onward(x, Arm(x, {"beat"}))
    BY DEF Arm, Onward, Whole, Fields, MessageFields
  <2> QED
    BY <2>3, <2>4, <2>5, StopOnward, OnwardTrans, OnwardBegins
<1>2. CASE PingRefused
  <2>1. c' = Stop(c)
    BY <1>2 DEF PingRefused
  <2> QED
    BY <2>1, StopOnward, OnwardBegins
<1>3. CASE Sleep
  <2>1. Onward(c, c')
    BY <1>3 DEF Sleep, Onward, Whole, Fields, MessageFields
  <2> QED
    BY <2>1, OnwardBegins
<1>4. ASSUME NEW k \in Calls, Invoke(k) \/ Answer(k) \/ PostEnded(k) PROVE BeginsOnce
  <2>1. Onward(c, c')
    BY <1>4 DEF Invoke, Answer, PostEnded, Onward, Whole, Fields, MessageFields
  <2> QED
    BY <2>1, OnwardBegins
<1>5. ASSUME NEW k \in Calls, PostGarbled(k) PROVE BeginsOnce
  <2> DEFINE x == [c EXCEPT !.calls[k] = "settled"]
  <2>1. Onward(c, x)
    BY DEF Onward, Whole, Fields, MessageFields
  <2>2. c' = Stop(x)
    BY <1>5 DEF PostGarbled
  <2> HIDE DEF x
  <2> QED
    BY <2>1, <2>2, StopOnward, OnwardTrans, OnwardBegins
<1> QED
  BY <1>1, <1>2, <1>3, <1>4, <1>5

\* All of them.
LEMMA PageBegins == Flow(c) /\ ConnectionNext => BeginsOnce
  BY StartingBegins, ChannelBegins, PollingBegins, WatchingBegins
     DEF ConnectionNext, Timers, Traffic, Failures, User

-----------------------------------------------------------------------------
(* The balances shown.                                                     *)

\* The messages with balances.
Balances == {i \in 1..Len(log) : log[i].kind = "balance"}

\* The last message with balances has version v; or there is none, and v is the first.
Latest(v) ==
    IF Balances = {} THEN v = 0
    ELSE \E i \in Balances : log[i].value = v /\ \A j \in Balances : j =< i

\* Types of the server's variables.
ServerTyped ==
    /\ registered \in BOOLEAN /\ found \in BOOLEAN /\ overlapped \in BOOLEAN
    /\ stored \in Nat
    /\ push \in [Pushes -> [at : {"idle", "lookup", "read", "send"}, version : Nat]]

\* Some push has found the page and not sent to it yet.
Finding == \E p \in Pushes : push[p].at \in {"read", "send"}

\* A page that is found has asked to be started; so every balance pushed comes after its
\* messages began.
Awaited ==
    /\ registered \/ Finding \/ Balances # {} => c.requested = TRUE
    /\ c.base \in Nat /\ c.base =< Len(log)
    /\ \A i \in Balances : i > c.base

\* A push that runs beside no other reads the last version and sends it last.
Current ==
    ~ overlapped =>
        /\ \A p, q \in Running : p = q
        /\ Finding => found
        /\ \A p \in Pushes : push[p].at = "send" => push[p].version = stored
        /\ Running = {} /\ found => Latest(stored)

\* The invariant, together with Flowing.
Pushed == ServerTyped /\ Awaited /\ Current

\* What is appended is last.
LEMMA AddedLast ==
    ASSUME LogTyped, NEW m, log' = Append(log, m)
    PROVE  Len(log') = Len(log) + 1 /\ log'[Len(log) + 1] = m
<1>1. PICK S : log \in Seq(S)
  BY DEF LogTyped
<1> DEFINE T == S \cup {m}
<1>2. log \in Seq(T) /\ m \in T
  BY <1>1, SeqMonotonic
<1> HIDE DEF T
<1> QED
  BY <1>2, AppendProperties

\* Other messages leave the last balances what they were.
LEMMA SameBalances ==
    ASSUME LogTyped, log' = log \/ \E m : m.kind # "balance" /\ log' = Append(log, m)
    PROVE  /\ Balances' = Balances /\ Len(log) \in Nat /\ Len(log') \in Nat /\ Len(log) =< Len(log')
           /\ \A v : Latest(v) => Latest(v)'
<1>1. LogGrows
  BY DEF LogGrows
<1>2. /\ Len(log) \in Nat /\ Len(log') \in Nat /\ Len(log) =< Len(log')
      /\ \A i \in 1..Len(log) : log'[i] = log[i]
  BY <1>1, LogFacts
<1>3. Balances' = Balances
  <2>1. CASE log' = log
    BY <2>1 DEF Balances
  <2>2. ASSUME NEW m, m.kind # "balance", log' = Append(log, m) PROVE Balances' = Balances
    <3>1. Len(log') = Len(log) + 1 /\ log'[Len(log) + 1] = m
      BY <2>2, AddedLast
    <3> QED
      BY <1>2, <2>2, <3>1 DEF Balances
  <2> QED
    BY <2>1, <2>2
<1>4. \A i \in Balances : log'[i] = log[i]
  BY <1>2 DEF Balances
<1>5. ASSUME NEW v, Latest(v) PROVE Latest(v)'
  BY <1>3, <1>4, <1>5 DEF Latest
<1> QED
  BY <1>2, <1>3, <1>5

\* New balances are the last.
LEMMA NewBalance ==
    ASSUME LogTyped, NEW m, m.kind = "balance", log' = Append(log, m)
    PROVE  /\ Balances' = Balances \cup {Len(log) + 1} /\ Len(log) \in Nat /\ Len(log') = Len(log) + 1
           /\ Latest(m.value)'
<1>1. LogGrows
  BY DEF LogGrows
<1>2. /\ Len(log) \in Nat /\ Len(log') \in Nat /\ Len(log) =< Len(log')
      /\ \A i \in 1..Len(log) : log'[i] = log[i]
  BY <1>1, LogFacts
<1>3. Len(log') = Len(log) + 1 /\ log'[Len(log) + 1] = m
  BY AddedLast
<1>4. Balances' = Balances \cup {Len(log) + 1}
  BY <1>2, <1>3 DEF Balances
<1>5. Latest(m.value)'
  <2>1. \A j \in Balances' : j =< Len(log) + 1
    BY <1>2, <1>4 DEF Balances
  <2>2. Len(log) + 1 \in Balances' /\ log'[Len(log) + 1].value = m.value
    BY <1>3, <1>4
  <2> QED
    BY <2>1, <2>2 DEF Latest
<1> QED
  BY <1>2, <1>3, <1>4, <1>5

\* At first the page shows what it was rendered with.
LEMMA InitPushed == Init => Pushed
<1> SUFFICES ASSUME Init PROVE Pushed
  OBVIOUS
<1>1. /\ c = NewConnection /\ log = << >> /\ registered = FALSE /\ stored = 0 /\ found = TRUE
      /\ overlapped = FALSE /\ push = [p \in Pushes |-> [at |-> "idle", version |-> 0]]
  BY DEF Init, ConnectionInit
<1>2. Len(log) = 0 /\ Balances = {}
  BY <1>1, EmptySeq DEF Balances
<1>3. ServerTyped /\ ~ Finding
  BY <1>1 DEF ServerTyped, Finding
<1>4. Awaited
  BY <1>1, <1>2, <1>3 DEF Awaited, NewConnection
<1>5. Current
  BY <1>1, <1>2, <1>3 DEF Current, Running, Latest
<1> QED
  BY <1>3, <1>4, <1>5 DEF Pushed

\* The page's own steps.
LEMMA PagePushed ==
    ASSUME Flowing, Flowing', Pushed, Of(ConnectionNext)
    PROVE  Pushed'
<1>1. /\ ConnectionNext /\ UNCHANGED << stored, push, found, overlapped >>
      /\ registered' = (registered \/ Reopened)
  BY DEF Of, OnReconnected
<1>2. BeginsOnce
  BY <1>1, PageBegins DEF Flowing
<1>3. log' = log
  BY <1>1 DEF ConnectionNext, Timers, Traffic, Failures, User, TransportTimeout, ReconnectTimer,
              AttemptTimer, StopReconnectingTimer, PollTimer, RaiseTimer, Beat, NegotiateAnswered,
              StartAnswered, Open, Initialized, KeepAlive, Receive, PollAnswered, Answer,
              PostEnded, NegotiateFailed, StartFailed, Garbled, Close, FallSilent, PollFailed,
              PingRefused, Sleep, PostGarbled, Start, Invoke
<1>4. Balances' = Balances /\ Len(log) \in Nat /\ Finding' = Finding /\ Running' = Running
      /\ \A v : Latest(v) => Latest(v)'
  BY <1>1, <1>3, SameBalances DEF Flowing, Finding, Running
<1>5. Reopened => c'.requested = TRUE
  <2>1. CASE c.channel = "opening" /\ ~ c.first
    <3>1. c.requested = TRUE
      BY <2>1 DEF Flowing, Flow, Shaped, Good, Typed, Down, Handshake
    <3> QED
      BY <1>2, <3>1 DEF BeginsOnce
  <2>2. CASE "raise" \in c'.timers \ c.timers
    <3>1. c'.greeted = TRUE
      BY <1>2, <2>2 DEF BeginsOnce
    <3>2. Flow(c)'
      BY DEF Flowing
    <3>3. c'.state # "disconnected"
      BY <2>2, <3>2 DEF Flow, Shaped, Good, Down
    <3> QED
      BY <3>1, <3>2, <3>3 DEF Flow, Handshake
  <2> QED
    BY <2>1, <2>2 DEF Reopened
<1>6. ServerTyped'
  BY <1>1 DEF Pushed, ServerTyped
<1>7. Awaited'
  <2>1. c'.base # c.base => c'.base = Len(log) /\ Balances = {}
    BY <1>2 DEF BeginsOnce, Pushed, Awaited
  <2>2. c'.base \in Nat /\ c'.base =< Len(log') /\ \A i \in Balances' : i > c'.base
    BY <1>3, <1>4, <2>1 DEF Pushed, Awaited
  <2>3. registered' \/ Finding' \/ Balances' # {} => c'.requested = TRUE
    BY <1>1, <1>2, <1>4, <1>5 DEF BeginsOnce, Pushed, Awaited
  <2> QED
    BY <2>2, <2>3 DEF Awaited
<1>8. Current'
  BY <1>1, <1>4 DEF Pushed, Current
<1> QED
  BY <1>6, <1>7, <1>8 DEF Pushed

\* The tasks that push balances.
LEMMA PushPushed ==
    ASSUME LogTyped, Pushed, NEW p \in Pushes, Push(p)
    PROVE  Pushed'
<1>1. /\ c' = c /\ registered' = registered
      /\ \A q \in Pushes : q # p => push'[q] = push[q]
  BY DEF Push, ChangeBalance, LookUp, ReadBalances, SendBalances, connectionVars, Pushed, ServerTyped
<1>2. ServerTyped /\ Awaited /\ Current
  BY DEF Pushed
<1>3. CASE ChangeBalance(p)
  <2>1. /\ push[p].at = "idle" /\ push'[p].at = "lookup" /\ push'[p].version = push[p].version
        /\ stored' = stored + 1 /\ overlapped' = (Running # {}) /\ log' = log /\ found' = found
    BY <1>2, <1>3 DEF ChangeBalance, connectionVars, ServerTyped
  <2>2. ServerTyped'
    BY <1>2, <1>3, <2>1 DEF ServerTyped, ChangeBalance
  <2>3. Finding' = Finding /\ Balances' = Balances
    BY <1>1, <2>1 DEF Finding, Balances
  <2>4. Awaited'
    BY <1>1, <1>2, <2>1, <2>3 DEF Awaited
  <2>5. Current'
    <3> SUFFICES ASSUME Running = {} PROVE Current'
      BY <2>1 DEF Current
    <3>1. \A q \in Pushes : q # p => push'[q].at = "idle"
      BY <1>1 DEF Running
    <3>2. Running' = {p} /\ ~ Finding'
      BY <2>1, <3>1 DEF Running, Finding
    <3> QED
      BY <2>1, <3>1, <3>2 DEF Current
  <2> QED
    BY <2>2, <2>4, <2>5 DEF Pushed
<1>4. CASE LookUp(p)
  <2>1. PICK mine \in {registered, FALSE} :
           /\ found' = mine
           /\ push' = [push EXCEPT ![p].at = IF mine THEN "read" ELSE "idle"]
    BY <1>4 DEF LookUp
  <2>2. /\ push[p].at = "lookup" /\ push'[p].at = (IF mine THEN "read" ELSE "idle")
        /\ UNCHANGED << log, stored, overlapped >> /\ mine \in BOOLEAN
    BY <1>2, <1>4, <2>1 DEF LookUp, connectionVars, ServerTyped
  <2>3. ServerTyped'
    BY <1>1, <1>2, <2>1, <2>2 DEF ServerTyped
  <2>4. Balances' = Balances /\ (Finding' => Finding \/ mine)
    BY <1>1, <2>2 DEF Finding, Balances
  <2>5. Awaited'
    <3>1. mine => registered
      OBVIOUS
    <3>2. UNCHANGED << c, registered, log >>
      BY <1>1, <2>2
    <3>3. registered \/ Finding \/ Balances # {} => c.requested = TRUE
      BY <1>2 DEF Awaited
    <3>4. registered' \/ Finding' \/ Balances' # {} => c'.requested = TRUE
      BY <2>4, <3>1, <3>2, <3>3
    <3> QED
      BY <1>2, <2>4, <3>2, <3>4 DEF Awaited
  <2>6. Current'
    <3> SUFFICES ASSUME ~ overlapped PROVE Current'
      BY <2>2 DEF Current
    <3>1. p \in Running /\ \A q \in Pushes : q # p => push[q].at = "idle"
      BY <1>2, <2>2 DEF Current, Running
    <3>2. \A q \in Pushes : q # p => push'[q].at = "idle"
      BY <1>1, <3>1
    <3>3. \A q \in Running' : q = p
      BY <3>2 DEF Running
    <3>4. Finding' => found'
      BY <2>1, <2>2, <3>2 DEF Finding
    <3>5. mine => Running' # {}
      BY <2>2 DEF Running
    <3>6. \A q \in Pushes : push'[q].at # "send"
      BY <2>2, <3>2
    <3> QED
      BY <2>1, <3>3, <3>4, <3>5, <3>6 DEF Current
  <2> QED
    BY <2>3, <2>5, <2>6 DEF Pushed
<1>5. CASE ReadBalances(p)
  <2>1. /\ push[p].at = "read" /\ push'[p] = [at |-> "send", version |-> stored]
        /\ UNCHANGED << log, stored, overlapped, found >>
    BY <1>2, <1>5 DEF ReadBalances, connectionVars, ServerTyped
  <2>2. ServerTyped'
    BY <1>1, <1>2, <1>5, <2>1 DEF ServerTyped, ReadBalances
  <2>3. Finding /\ Balances' = Balances
    BY <2>1 DEF Finding, Balances
  <2>4. Awaited'
    BY <1>1, <1>2, <2>1, <2>3 DEF Awaited
  <2>5. Current'
    <3> SUFFICES ASSUME ~ overlapped PROVE Current'
      BY <2>1 DEF Current
    <3>1. \A q \in Pushes : q # p => push'[q].at = "idle"
      BY <1>1, <1>2, <2>1 DEF Current, Running
    <3>2. Running' = {p}
      BY <2>1, <3>1 DEF Running
    <3> QED
      BY <1>2, <2>1, <2>3, <3>1, <3>2 DEF Current
  <2> QED
    BY <2>2, <2>4, <2>5 DEF Pushed
<1>6. CASE SendBalances(p)
  <2>0. PICK m : m = Message("balance", push[p].version)
    OBVIOUS
  <2>1. /\ push[p].at = "send" /\ push'[p] = [at |-> "idle", version |-> 0]
        /\ UNCHANGED << stored, overlapped, found >> /\ log' = Append(log, m)
    BY <1>2, <1>6, <2>0 DEF SendBalances, ServerTyped, Publish
  <2>2. m.kind = "balance" /\ m.value = push[p].version
    BY <2>0 DEF Message
  <2>3. ServerTyped'
    BY <1>1, <1>2, <1>6, <2>1 DEF ServerTyped, SendBalances
  <2>4. /\ Balances' = Balances \cup {Len(log) + 1} /\ Len(log) \in Nat /\ Len(log') = Len(log) + 1
        /\ Latest(m.value)'
    BY <2>1, <2>2, NewBalance
  <2>5. Finding
    BY <2>1 DEF Finding
  <2>6. Awaited'
    BY <1>1, <1>2, <2>4, <2>5 DEF Awaited
  <2>7. Current'
    <3> SUFFICES ASSUME ~ overlapped PROVE Current'
      BY <2>1 DEF Current
    <3>1. \A q \in Pushes : push'[q].at = "idle"
      BY <1>1, <1>2, <2>1 DEF Current, Running
    <3>2. Running' = {} /\ ~ Finding'
      BY <3>1 DEF Running, Finding
    <3>3. push[p].version = stored
      BY <1>2, <2>1 DEF Current
    <3>4. Latest(stored)'
      <4>1. m.value = stored'
        BY <2>1, <2>2, <3>3
      <4> QED
        BY <2>4, <4>1 DEF Latest
    <3> QED
      BY <3>1, <3>2, <3>4 DEF Current
  <2> QED
    BY <2>3, <2>6, <2>7 DEF Pushed
<1> QED
  BY <1>3, <1>4, <1>5, <1>6 DEF Push

\* Every step keeps the invariant.
LEMMA NextPushed == Flowing /\ Flowing' /\ Pushed /\ [Next]_vars => Pushed'
<1> SUFFICES ASSUME Flowing, Flowing', Pushed, [Next]_vars PROVE Pushed'
  OBVIOUS
<1>1. ASSUME /\ UNCHANGED << stored, push, found, overlapped >> /\ c'.base = c.base
             /\ c'.requested = c.requested
             /\ registered' \in BOOLEAN /\ (registered' => registered \/ c.requested = TRUE)
             /\ log' = log \/ \E m : m.kind # "balance" /\ log' = Append(log, m)
      PROVE  Pushed'
  <2>1. /\ Balances' = Balances /\ Len(log) \in Nat /\ Len(log') \in Nat /\ Len(log) =< Len(log')
        /\ \A v : Latest(v) => Latest(v)'
    BY <1>1, SameBalances DEF Flowing
  <2>2. Finding' = Finding /\ Running' = Running
    BY <1>1 DEF Finding, Running
  <2>3. ServerTyped'
    BY <1>1 DEF Pushed, ServerTyped
  <2>4. Awaited'
    BY <1>1, <2>1, <2>2 DEF Pushed, Awaited
  <2>5. Current'
    <3>1. Latest(stored) => Latest(stored)'
      BY <1>1, <2>1 DEF Latest
    <3> QED
      BY <1>1, <2>2, <3>1 DEF Pushed, Current
  <2> QED
    BY <2>3, <2>4, <2>5 DEF Pushed
<1>2. CASE OnConnected
  <2>1. /\ c.requested = TRUE /\ c'.base = c.base /\ c'.requested = c.requested
    BY <1>2 DEF OnConnected, Flowing, Flow, Shaped, Good, Typed, Fields, MessageFields
  <2>2. \E m : m.kind # "balance" /\ log' = Append(log, m)
    <3>1. Message("assets", 0).kind # "balance"
      BY DEF Message
    <3> QED
      BY <1>2, <3>1 DEF OnConnected, Publish
  <2>3. registered' = TRUE /\ UNCHANGED << stored, push, found, overlapped >>
    BY <1>2 DEF OnConnected
  <2> QED
    BY <1>1, <2>1, <2>2, <2>3
<1>3. CASE OnDisconnected \/ UNCHANGED vars
  <2>1. UNCHANGED << connectionVars, stored, push, found, overlapped >>
        /\ (registered' = registered \/ registered' = FALSE)
    BY <1>3 DEF OnDisconnected, vars, serverVars
  <2>2. registered \in BOOLEAN
    BY DEF Pushed, ServerTyped
  <2> QED
    BY <1>1, <2>1, <2>2 DEF connectionVars
<1>4. CASE Broadcast
  <2>1. Message("broadcast", 0).kind # "balance"
    BY DEF Message
  <2> QED
    BY <1>1, <1>4, <2>1 DEF Broadcast, Publish, serverVars, Pushed, ServerTyped
<1> QED
  BY <1>2, <1>3, <1>4, PagePushed, PushPushed DEF Next, Server, Flowing

\* Once every message has arrived and every push has ended, a page shows the balances of
\* the table, however often its connection was lost in between: the last push read them
\* after the last change, sent them last, and nothing that was sent is lost.
THEOREM BalancesUpToDate == Spec => []UpToDate
<1>1. Flowing /\ Pushed => UpToDate
  <2> SUFFICES ASSUME Flowing, Pushed, c.state = "connected", c.cursor = Len(log), Running = {},
                      ~ Thrown, found, ~ overlapped
               PROVE  Shown = stored
    BY DEF UpToDate
  <2> DEFINE n == Len(log)
             b == c.base
             d == c.delivered
             B == {i \in DOMAIN d : log[d[i]].kind = "balance"}
  <2>1. Latest(stored) /\ \A i \in Balances : i > b
    BY DEF Pushed, Current, Awaited
  <2>2. n \in Nat /\ b \in Nat /\ b =< n
    BY LenProperties DEF Flowing, LogTyped, Pushed, Awaited
  <2>3. d = Run(b, n)
    <3>1. ~ ThrownBy(d)
      BY DEF Thrown, ThrownBy
    <3>2. d \o c.buffer = Run(b, n) /\ c.buffer = << >> /\ d \in Seq(1..n)
      BY <3>1 DEF Flowing, Flow, Stream
    <3> QED
      BY <3>2, ConcatEmptySeq
  <2>4. DOMAIN d = 1..(n - b) /\ \A i \in 1..(n - b) : d[i] = b + i
    BY <2>3 DEF Run
  <2>5. Shown = IF B = {} THEN 0 ELSE log[d[CHOOSE i \in B : \A j \in B : j =< i]].value
    BY DEF Shown
  <2> HIDE DEF n, b, d
  <2>6. \A i \in 1..(n - b) : i \in B <=> b + i \in Balances
    BY <2>2, <2>4 DEF Balances, n
  <2>7. CASE Balances = {}
    <3>1. B = {}
      BY <2>4, <2>6, <2>7
    <3> QED
      BY <2>1, <2>5, <2>7, <3>1 DEF Latest
  <2>8. CASE Balances # {}
    <3>1. PICK k \in Balances : log[k].value = stored /\ \A j \in Balances : j =< k
      BY <2>1, <2>8 DEF Latest
    <3> DEFINE i == k - b
    <3>2. k \in 1..n /\ k > b
      BY <2>1, <3>1 DEF Balances, n
    <3>3. i \in 1..(n - b) /\ b + i = k
      BY <2>2, <3>2
    <3> HIDE DEF i
    <3>4. i \in B /\ d[i] = k
      BY <2>4, <2>6, <3>1, <3>3
    <3>5. \A j \in B : j \in 1..(n - b) /\ j =< i
      BY <2>2, <2>4, <2>6, <3>1, <3>2, <3>3
    <3> HIDE DEF B
    <3>6. (CHOOSE x \in B : \A j \in B : j =< x) = i
      <4>1. \A x \in B : (\A j \in B : j =< x) => x = i
        BY <2>2, <3>3, <3>4, <3>5
      <4> QED
        BY <3>4, <3>5, <4>1
    <3> QED
      BY <2>5, <3>1, <3>4, <3>6
  <2> QED
    BY <2>7, <2>8
<1>2. Init => Flowing /\ Pushed
  BY InitFlowing, InitPushed
<1>3. (Flowing /\ Pushed) /\ [Next]_vars => (Flowing /\ Pushed)'
  BY NextFlowing, NextPushed
<1> QED
  BY <1>1, <1>2, <1>3, PTL DEF Spec

=============================================================================
