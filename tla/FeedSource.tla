----------------------------- MODULE FeedSource -----------------------------
(***************************************************************************)
(* Quotes from the MT4 bridge to the market profile: the bytes of a        *)
(* connection, cut into lines by Mt4BridgeQuoteSerializer; the two         *)
(* dictionaries its call-back fills; and the timer that empties one of     *)
(* them into MarketProfileCache.                                           *)
(*                                                                         *)
(* One thread reads the socket and another runs the timer.  SimpleSocket   *)
(* shows that only one connection is read at a time.  A quote's price      *)
(* stands for its age: the bridge sends 1, 2, 3, ...                       *)
(***************************************************************************)
EXTENDS TimerPeriod, Integers, Sequences, FiniteSetsExt

CONSTANTS
    Symbols,      \* instruments the bridge quotes
    Instruments,  \* those of GlobalSettings.FinanceInstruments
    CR, LF, Nul,  \* bytes; a symbol and a price stand for the bytes that spell them
    MaxLines,     \* bound: lines the bridge sends
    MaxLosses     \* bound: connections lost

\* A price is no other byte, and a carriage return no line feed.
ASSUME FeedAssumption ==
    /\ Instruments \subseteq Symbols /\ MaxLines \in Nat /\ MaxLosses \in Nat
    /\ \A b \in Symbols \cup {CR, LF, Nul} : b \notin Nat
    /\ CR # LF

VARIABLES
    wire,     \* bytes sent on the connection and not read yet
    buffer,   \* _buffer
    thread,   \* the socket's thread: "down", "read", "handle", "feed", "profile" or "failed"
    quote,    \* the quote in the call-back
    feed,     \* _feed: the price of each symbol, 0 if it has none
    profile,  \* _profile
    batch,    \* the quotes each Execute has yet to publish
    cache,    \* MarketProfileCache
    lines,    \* lines sent so far         (counts for MaxLines)
    losses,   \* connections lost so far   (counts for MaxLosses)
    read,     \* history: the bytes read on this connection
    got       \* history: the quotes the serializer has made of them

link == << wire, buffer, thread, quote, read, got >>
counts == << lines, losses >>
prices == << feed, profile, batch, cache >>
feedVars == << timer, link, counts, prices >>

NoPrices == [s \in Symbols |-> 0]
NoQuote == << >>

FeedInit ==
    /\ TimerInit
    /\ wire = << >> /\ buffer = << >> /\ read = << >> /\ got = << >>
    /\ thread = "down" /\ quote = NoQuote
    /\ feed = NoPrices /\ profile = NoPrices /\ cache = NoPrices
    /\ batch = [l \in Loops |-> NoPrices]
    /\ lines = 0 /\ losses = 0

-----------------------------------------------------------------------------
(* The bridge.                                                             *)

\* What it may send: a quote, also with a zero byte, a line that is none, one with
\* an unreadable price, and a carriage return on its own.
Messages(n) ==
    {<< CR, LF >>, << CR >>}
    \cup UNION {{<< s, n, CR, LF >>, << s, Nul, n, CR, LF >>, << s, s, CR, LF >>} : s \in Symbols}

Send ==
    /\ thread # "down"
    /\ lines < MaxLines
    /\ lines' = lines + 1
    /\ \E m \in Messages(lines + 1) : wire' = wire \o m
    /\ UNCHANGED << timer, prices, buffer, thread, quote, read, got, losses >>

-----------------------------------------------------------------------------
(* The thread of the socket.                                               *)

\* Faulty variant: what is left of the last connection stays in the buffer.
ConnectedKeepsBuffer ==
    /\ thread = "down"
    /\ \E l \in Loops : loop[l] # "new"
    /\ thread' = "read"
    /\ wire' = << >> /\ read' = << >> /\ got' = << >>
    /\ UNCHANGED << timer, prices, counts, quote, buffer >>

\* A connection, and Init of the serializer.  Start starts the timer, then the socket.
Connected ==
    /\ thread = "down"
    /\ \E l \in Loops : loop[l] # "new"
    /\ thread' = "read"
    /\ wire' = << >> /\ buffer' = << >> /\ read' = << >> /\ got' = << >>
    /\ UNCHANGED << timer, prices, counts, quote >>

\* The connection breaks under the reader, or is given up after it has failed.
Lose ==
    /\ thread \in {"read", "failed"}
    /\ losses < MaxLosses
    /\ losses' = losses + 1
    /\ thread' = "down"
    /\ UNCHANGED << timer, prices, wire, buffer, quote, read, got, lines >>

\* Deserialize: a zero byte is dropped.
Add(bytes, b) == IF b = Nul THEN bytes ELSE Append(bytes, b)
Printing(bytes) ==
    LET kept[k \in 0..Len(bytes)] == IF k = 0 THEN << >> ELSE Add(kept[k - 1], bytes[k])
    IN  kept[Len(bytes)]

\* ReadAsMuchAsPossible: any part of what has been sent.
Read ==
    /\ thread = "read"
    /\ \E n \in 1..Len(wire) :
         /\ buffer' = buffer \o Printing(SubSeq(wire, 1, n))
         /\ read' = read \o SubSeq(wire, 1, n)
         /\ wire' = SubSeq(wire, n + 1, Len(wire))
    /\ thread' = "handle"
    /\ UNCHANGED << timer, prices, counts, quote, got >>

\* IndexOf looks at the first carriage return only.
IndexOf(bytes) ==
    LET i == Min({k \in 1..Len(bytes) : bytes[k] = CR} \cup {Len(bytes) + 1})
    IN  IF i < Len(bytes) /\ bytes[i + 1] = LF THEN i ELSE Len(bytes) + 1

Line == SubSeq(buffer, 1, IndexOf(buffer) - 1)
Rest == SubSeq(buffer, IndexOf(buffer) + 2, Len(buffer))

\* CreateFeedData: null when there are too few words, an exception when a word is
\* not a number.
IsQuote(body) == Len(body) = 2 /\ body[1] \in Symbols /\ body[2] \in Nat
IsUnreadable(body) == Len(body) >= 2 /\ ~ IsQuote(body)

HandleData ==
    /\ thread = "handle"
    /\ IF IndexOf(buffer) > Len(buffer)
       THEN thread' = "read" /\ UNCHANGED << buffer, quote >>
       ELSE CASE IsQuote(Line) -> thread' = "feed" /\ quote' = Line /\ UNCHANGED buffer
              [] IsUnreadable(Line) -> thread' = "failed" /\ UNCHANGED << buffer, quote >>
              [] OTHER -> buffer' = Rest /\ UNCHANGED << thread, quote >>
    /\ UNCHANGED << timer, prices, counts, wire, read, got >>

\* QuoteCallBack, under the lock of _feed ...
CallBackFeed ==
    /\ thread = "feed"
    /\ feed' = [feed EXCEPT ![quote[1]] = quote[2]]
    /\ thread' = "profile"
    /\ UNCHANGED << timer, counts, wire, buffer, quote, read, got, profile, batch, cache >>

\* ... and of _profile; back in HandleData the line is removed.
CallBackProfile ==
    /\ thread = "profile"
    /\ profile' = [profile EXCEPT ![quote[1]] = quote[2]]
    /\ got' = Append(got, quote)
    /\ buffer' = Rest
    /\ thread' = "handle"
    /\ quote' = NoQuote
    /\ UNCHANGED << timer, counts, wire, read, feed, batch, cache >>

-----------------------------------------------------------------------------
(* The timer.                                                              *)

StartFeed(l) == Start(l) /\ UNCHANGED << link, counts, prices >>
Elapse(l) == Elapsed(l) /\ UNCHANGED << link, counts, prices >>

\* Execute, under the lock of _feed: takes what has come, leaves it empty.
Execute(l) ==
    /\ Check(l)
    /\ batch' = [batch EXCEPT ![l] = [s \in Symbols |-> IF s \in Instruments THEN feed[s] ELSE 0]]
    /\ feed' = NoPrices
    /\ UNCHANGED << link, counts, profile, cache >>

\* Faulty variant: the call-back returns after the first quote.
PublishFirst(l, s) ==
    /\ loop[l] = "execute"
    /\ batch[l][s] # 0
    /\ cache' = [cache EXCEPT ![s] = batch[l][s]]
    /\ batch' = [batch EXCEPT ![l] = NoPrices]
    /\ UNCHANGED << timer, link, counts, feed, profile >>

\* One turn of the registered call-back: BroadcastPrice and SetPrice.
Publish(l, s) ==
    /\ loop[l] = "execute"
    /\ batch[l][s] # 0
    /\ cache' = [cache EXCEPT ![s] = batch[l][s]]
    /\ batch' = [batch EXCEPT ![l][s] = 0]
    /\ UNCHANGED << timer, link, counts, feed, profile >>

EndExecute(l) ==
    /\ batch[l] = NoPrices
    /\ Executed(l)
    /\ UNCHANGED << link, counts, prices >>

-----------------------------------------------------------------------------

SocketStep == Read \/ HandleData \/ CallBackFeed \/ CallBackProfile
LoopStep(l) == Elapse(l) \/ Execute(l) \/ EndExecute(l) \/ \E s \in Symbols : Publish(l, s)

FeedNext ==
    \/ Send \/ Connected \/ Lose \/ SocketStep
    \/ \E l \in Loops : StartFeed(l) \/ LoopStep(l)

FeedSpec == FeedInit /\ [][FeedNext]_feedVars

\* The pool runs the reader, and each loop of the timer.
FairFeedSpec == FeedSpec /\ WF_feedVars(SocketStep) /\ \A l \in Loops : WF_feedVars(LoopStep(l))

-----------------------------------------------------------------------------

\* The lines of a text: they end before a carriage return and a line feed, and begin
\* after the last that did.  After a carriage return on its own there is none.
Ends(text) ==
    {e \in 1..(Len(text) - 1) :
       text[e] = CR /\ \A i \in 1..e : text[i] = CR => text[i + 1] = LF}
Begins(text) == {1} \cup {e + 2 : e \in Ends(text)}
Begin(text, e) == Max({b \in Begins(text) : b =< e})
Body(text, e) == SubSeq(text, Begin(text, e), e - 1)

\* Its quotes: those before the first line that cannot be read.
Quotes(text) ==
    {e \in Ends(text) :
       /\ IsQuote(Body(text, e))
       /\ \A d \in Ends(text) : d < e => ~ IsUnreadable(Body(text, d))}

\* However the bytes of a connection are cut into reads, the serializer makes of them
\* the quotes of their lines, up to the first line it cannot read, in order and once;
\* and nothing of a connection reaches the next.
Framed ==
    LET text == Printing(read)
        due == Quotes(text)
    IN  \E at \in [DOMAIN got -> due] :
          /\ \A k, m \in DOMAIN got : k < m => at[k] < at[m]
          /\ \A k \in DOMAIN got : got[k] = Body(text, at[k])
          /\ \A e \in due :
                thread \in {"read", "failed"} \/ (\E k \in DOMAIN got : e < at[k]) =>
                    \E k \in DOMAIN got : at[k] = e

\* A price in the market profile is never replaced by an older one.
NeverOlder == [][\A s \in Symbols : cache'[s] >= cache[s]]_feedVars

\* What the call-back has noted is published, or something newer is.
Published ==
    \A s \in Instruments : \A n \in 1..MaxLines :
        profile[s] = n ~> cache[s] >= n

=============================================================================
