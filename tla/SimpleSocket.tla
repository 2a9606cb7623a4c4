---------------------------- MODULE SimpleSocket ----------------------------
(***************************************************************************)
(* SimpleClientTcpSocket: a thread that connects, lets two loops run on    *)
(* the connection, one reading and one pinging a peer that has gone quiet, *)
(* waits for both to end, and connects again after a pause.                *)
(*                                                                         *)
(* Time passes in ticks, of the length of the ping loop's own delay, and   *)
(* not while something is due.  An answer to a ping is whatever the peer   *)
(* sends next.                                                             *)
(***************************************************************************)
EXTENDS Naturals

CONSTANTS
    PingTimeOut,            \* quiet time after which the peer is pinged
    PacketDeliveryTimeOut,  \* time its answer is waited for
    ReconnectTimeOut,       \* pause before the next connection
    AnswerTime              \* a peer that lives answers a ping within this time

\* The marketplace has 10 and 3 seconds, the defaults are 4 and 2.
ASSUME TimeOutAssumption ==
    /\ {PingTimeOut, PacketDeliveryTimeOut, ReconnectTimeOut, AnswerTime} \subseteq Nat \ {0}
    /\ AnswerTime < PacketDeliveryTimeOut
    /\ PacketDeliveryTimeOut =< PingTimeOut

VARIABLES
    up,            \* the thread is waiting for the loops of a connection
    pause,         \* if not, time until it connects
    disconnected,  \* Disconnected of the connection
    reader,        \* ReadData: "read", "failed" or "done"
    pinger,        \* PingProcess: "check", "answer", "poll", "failed" or "done"
    delay,         \* time left of the pinger's Task.Delay
    quiet,         \* time since LastReadData
    peer,          \* the other end: "alive", "silent" or "closed"
    answer         \* time left for its answer; AnswerTime + 1 if it owes none

vars == << up, pause, disconnected, reader, pinger, delay, quiet, peer, answer >>

None == AnswerTime + 1
Running == {"read", "check", "answer", "poll"}
Over == reader \notin Running /\ pinger \notin Running

Init ==
    /\ up = FALSE /\ pause = 0
    /\ disconnected = TRUE
    /\ reader = "done" /\ pinger = "done"
    /\ delay = 0 /\ quiet = 0
    /\ peer = "closed" /\ answer = None

-----------------------------------------------------------------------------
(* The thread.                                                             *)

Connect ==
    /\ ~ up /\ pause = 0
    /\ up' = TRUE
    /\ disconnected' = FALSE
    /\ reader' = "read" /\ pinger' = "check"
    /\ quiet' = 0
    /\ peer' = "alive" /\ answer' = None
    /\ UNCHANGED << pause, delay >>

ConnectFails ==
    /\ ~ up /\ pause = 0
    /\ pause' = ReconnectTimeOut
    /\ UNCHANGED << up, disconnected, reader, pinger, delay, quiet, peer, answer >>

\* Faulty variant: Task.WhenAny.
EndWhenAny ==
    /\ up
    /\ reader \notin Running \/ pinger \notin Running
    /\ up' = FALSE
    /\ pause' = ReconnectTimeOut
    /\ disconnected' = TRUE
    /\ UNCHANGED << reader, pinger, delay, quiet, peer, answer >>

\* Task.WhenAll: both loops are over.  If one has thrown, Disconnect.
End ==
    /\ up
    /\ Over
    /\ up' = FALSE
    /\ pause' = ReconnectTimeOut
    /\ IF "failed" \in {reader, pinger}
       THEN disconnected' = TRUE
       ELSE UNCHANGED disconnected
    /\ UNCHANGED << reader, pinger, delay, quiet, peer, answer >>

-----------------------------------------------------------------------------
(* ReadData.                                                               *)

\* Data, which the serializer may choke on.
Receive ==
    /\ up /\ reader = "read" /\ ~ disconnected
    /\ peer = "alive"
    /\ quiet' = 0
    /\ answer' = None
    /\ reader' \in {"read", "failed"}
    /\ UNCHANGED << up, pause, disconnected, pinger, delay, peer >>

\* Faulty variant: the loop catches the exception and reads on.
ReadFailsAgain ==
    /\ up /\ reader = "read"
    /\ peer = "closed" \/ disconnected
    /\ UNCHANGED vars

\* The stream has been closed, there or here.
ReadFails ==
    /\ up /\ reader = "read"
    /\ peer = "closed" \/ disconnected
    /\ reader' = "failed"
    /\ UNCHANGED << up, pause, disconnected, pinger, delay, quiet, peer, answer >>

-----------------------------------------------------------------------------
(* PingProcess.                                                            *)

Pause(t) == delay' = t

\* The test of the loop, and that of the time; nothing to do.
CheckQuiet ==
    /\ up /\ pinger = "check"
    /\ IF disconnected
       THEN pinger' = "done" /\ UNCHANGED delay
       ELSE quiet =< PingTimeOut /\ pinger' = "poll" /\ Pause(1)
    /\ UNCHANGED << up, pause, disconnected, reader, quiet, peer, answer >>

\* The peer has been quiet: a ping.  On a closed connection it may be accepted, fail
\* at once, when Send disconnects, or fail later, when the loop throws.
Ping ==
    /\ up /\ pinger = "check"
    /\ ~ disconnected /\ quiet > PingTimeOut
    /\ \/ /\ pinger' = "answer" /\ Pause(PacketDeliveryTimeOut)
          /\ UNCHANGED disconnected
       \/ /\ peer = "closed"
          /\ pinger' = "answer" /\ Pause(PacketDeliveryTimeOut)
          /\ disconnected' = TRUE
       \/ /\ peer = "closed"
          /\ pinger' = "failed" /\ UNCHANGED << delay, disconnected >>
    /\ answer' = IF peer = "alive" THEN AnswerTime ELSE None
    /\ UNCHANGED << up, pause, reader, quiet, peer >>

\* Faulty variant: whether something has come meanwhile is not looked at.
NoAnswerAssumed ==
    /\ up /\ pinger = "answer" /\ delay = 0
    /\ disconnected' = TRUE
    /\ pinger' = "done"
    /\ UNCHANGED << up, pause, reader, delay, quiet, peer, answer >>

\* Faulty variant: only the next round looks for the answer, and pings again first.
NoAnswerIgnored ==
    /\ up /\ pinger = "answer" /\ delay = 0
    /\ pinger' = "poll" /\ Pause(1)
    /\ UNCHANGED << up, pause, disconnected, reader, quiet, peer, answer >>

\* No answer: Disconnect, and the loop ends.
Answered ==
    /\ up /\ pinger = "answer" /\ delay = 0
    /\ IF quiet > PingTimeOut
       THEN pinger' = "done" /\ disconnected' = TRUE /\ UNCHANGED delay
       ELSE pinger' = "poll" /\ Pause(1) /\ UNCHANGED disconnected
    /\ UNCHANGED << up, pause, reader, quiet, peer, answer >>

Poll ==
    /\ up /\ pinger = "poll" /\ delay = 0
    /\ pinger' = "check"
    /\ UNCHANGED << up, pause, disconnected, reader, delay, quiet, peer, answer >>

-----------------------------------------------------------------------------
(* The peer, and time.                                                     *)

\* It dies without a word, or closes the connection.
Die ==
    /\ up /\ peer = "alive"
    /\ peer' \in {"silent", "closed"}
    /\ answer' = None
    /\ UNCHANGED << up, pause, disconnected, reader, pinger, delay, quiet >>

Client ==
    Connect \/ ConnectFails \/ End \/ ReadFails \/ CheckQuiet \/ Ping \/ Answered \/ Poll

\* What does not let time pass: a loop or the thread can go on, or the peer answers.
Due ==
    \/ ~ up /\ pause = 0
    \/ up /\ Over
    \/ up /\ reader = "read" /\ (peer = "closed" \/ disconnected)
    \/ up /\ pinger = "check"
    \/ up /\ pinger \in {"answer", "poll"} /\ delay = 0

AnswerDue == up /\ answer = 0 /\ reader = "read"

Less(t) == IF t = 0 THEN 0 ELSE t - 1

\* A reader that has failed leaves the answer where it is.
Tick ==
    /\ ~ Due /\ ~ AnswerDue
    /\ pause' = IF up THEN pause ELSE Less(pause)
    /\ delay' = Less(delay)
    /\ quiet' = IF up THEN quiet + 1 ELSE quiet
    /\ answer' = IF answer = None THEN None ELSE Less(answer)
    /\ UNCHANGED << up, disconnected, reader, pinger, peer >>

Next == Client \/ Receive \/ Die \/ Tick

Spec == Init /\ [][Next]_vars

\* The pool runs what is due, and time goes on.
FairSpec == Spec /\ WF_vars(Client) /\ WF_vars(AnswerDue /\ Receive) /\ WF_vars(Tick)

-----------------------------------------------------------------------------

\* Types; and the ping loop leaves only connections that are closed or broken.
TypeOK ==
    /\ up \in BOOLEAN /\ disconnected \in BOOLEAN
    /\ pause \in 0..ReconnectTimeOut
    /\ reader \in {"read", "failed", "done"}
    /\ pinger \in {"check", "answer", "poll", "failed", "done"}
    /\ delay \in 0..PacketDeliveryTimeOut
    /\ peer \in {"alive", "silent", "closed"}
    /\ answer \in 0..None
    /\ pinger = "done" => disconnected
    /\ pinger = "failed" => peer = "closed"

\* The next connection is made when nothing runs on the last: serializer and buffer,
\* which connections share, have one user.
OneConnection == ~ up => disconnected /\ Over

\* No connection stays without data for longer than the two time-outs and a tick,
\* also when its reader has failed.
DeadNoticed == up => quiet =< PingTimeOut + PacketDeliveryTimeOut + 1

\* A connection that is read and whose peer answers its pings is not given up.
HealthyKept ==
    [][~ disconnected /\ disconnected' => peer # "alive" \/ reader = "failed"]_vars

\* A connection that has died, or is not read any more, is replaced, or its
\* replacement refused, time after time.
Replaced == up /\ (peer # "alive" \/ reader = "failed") ~> ~ up /\ pause = 0

=============================================================================
