----------------------------- MODULE AmqpChannel -----------------------------
(***************************************************************************)
(* One AMQP channel with its Deferreds: ChannelImpl (channelimpl.h) and    *)
(* Deferred (deferred.h), with the Monitor (monitor.h) that tells a        *)
(* report whether a callback has destroyed the channel.                    *)
(*                                                                         *)
(* A request that is answered has a Deferred.  The Deferreds that wait are *)
(* a list that the channel holds by its ends, _oldestCallback and          *)
(* _newestCallback.  A request that must be answered before another may be *)
(* sent (a synchronous one; all that are answered are) makes the channel   *)
(* queue what follows.  An answer of the server is reported to the oldest  *)
(* Deferred, an error to all.                                              *)
(*                                                                         *)
(* Every report calls back to user code, which may make requests, close    *)
(* the channel or destroy it; the rest of the report waits meanwhile.      *)
(***************************************************************************)
EXTENDS Naturals, Sequences, FiniteSets

CONSTANT MaxRequests  \* bound: requests that the user makes, publishing included

VARIABLES
    state,        \* _state
    synchronous,  \* _synchronous
    queue,        \* _queue: requests that are waiting to be sent
    oldest,       \* _oldestCallback, 0 for none
    newest,       \* _newestCallback
    deferred,     \* the Deferreds made: _failed at birth, _next, and what they were told
    report,       \* what is left to do of the report under way
    alive,        \* the channel has not been destroyed
    sent,         \* what was sent to the server, in order
    answered,     \* how many of these it has answered, or needs not
    made          \* how many requests the user has made

vars == <<state, synchronous, queue, oldest, newest, deferred, report, alive, sent,
          answered, made>>

channel == <<state, synchronous, queue, oldest, newest, deferred>>

\* Requests: [kind, id]; only those that are answered are synchronous, and
\* "open" is the only one of them without a Deferred.
IsSync(r) == r.kind # "publish"

-----------------------------------------------------------------------------
(* ChannelImpl: the parts in the library, as the rest uses them *)

Usable == state \in {"connected", "ready"}

\* waiting().
Waiting == synchronous \/ queue # <<>>

\* send() of a request, on a connection that takes it; "closing" pretends, so
\* that the Deferred fails when the channel is closed.
Send(r) ==
    IF ~Usable THEN UNCHANGED <<queue, sent, synchronous>>
    ELSE IF Waiting THEN queue' = Append(queue, r) /\ UNCHANGED <<sent, synchronous>>
    ELSE sent' = Append(sent, r) /\ synchronous' = IsSync(r) /\ UNCHANGED queue

\* Mutants: the Deferred is not linked, or the wrong way round.
PushUnlinked(kind, failed) ==
    LET d == Len(deferred) + 1 IN
    /\ deferred' = Append(deferred, [kind |-> kind, failed |-> failed, next |-> 0,
                                     told |-> IF failed THEN <<"error">> ELSE <<>>])
    /\ oldest' = IF oldest = 0 THEN d ELSE oldest
    /\ newest' = d

PushBackwards(kind, failed) ==
    LET d == Len(deferred) + 1 IN
    /\ deferred' = Append(deferred, [kind |-> kind, failed |-> failed, next |-> newest,
                                     told |-> IF failed THEN <<"error">> ELSE <<>>])
    /\ oldest' = IF oldest = 0 THEN d ELSE oldest
    /\ newest' = d

\* push(): the Deferred of a request that could not be sent has failed at once,
\* and onError() tells so when it is given its callback.
Push(kind, failed) ==
    LET d == Len(deferred) + 1
        linked == IF newest = 0 THEN deferred ELSE [deferred EXCEPT ![newest].next = d]
    IN /\ deferred' = Append(linked, [kind |-> kind, failed |-> failed, next |-> 0,
                                      told |-> IF failed THEN <<"error">> ELSE <<>>])
       /\ oldest' = IF oldest = 0 THEN d ELSE oldest
       /\ newest' = d

\* Mutants: the next request is sent and no more, or all of them.
FlushOne(q) == IF q = <<>> THEN q ELSE <<Head(q)>>
FlushAll(q) == q

\* What flush() sends of a queue: up to the first synchronous request.
Flushed(q) ==
    LET stops == {i \in DOMAIN q : IsSync(q[i])}
    IN IF stops = {} THEN q
       ELSE SubSeq(q, 1, CHOOSE i \in stops : \A j \in stops : i <= j)

Flush ==
    LET out == Flushed(queue) IN
    /\ sent' = sent \o out
    /\ queue' = SubSeq(queue, Len(out) + 1, Len(queue))
    /\ synchronous' = (\E i \in DOMAIN out : IsSync(out[i]))

Tell(d, what) == [deferred EXCEPT ![d].told = Append(@, what)]

-----------------------------------------------------------------------------
(* The reports *)

\* The next Deferred that an error is reported to, or the end: the newest is
\* forgotten, and onError of the channel is called.
ReportsError(notify, old, ds) ==
    IF old # 0
    THEN /\ deferred' = [ds EXCEPT ![old].told = Append(@, "error")]
         /\ oldest' = old
         /\ report' = <<[at |-> "error", cb |-> old, notify |-> notify]>>
         /\ UNCHANGED newest
    ELSE /\ deferred' = ds /\ oldest' = 0 /\ newest' = 0
         /\ report' = IF notify THEN <<[at |-> "notify"]>> ELSE <<>>

\* reportReady(), up to the call of _readyCallback.
ReportReady ==
    /\ state' = IF state = "connected" THEN "ready" ELSE state
    /\ synchronous' = (synchronous /\ queue # <<>>)
    /\ report' = <<[at |-> "ready"]>>
    /\ UNCHANGED <<queue, oldest, newest, deferred, sent>>

\* reportSuccess() and reportClosed(), up to the call of the Deferred; closed
\* tells which (what closes has a Deferred).
ReportSuccess(closed) ==
    /\ state' = IF closed THEN "closed" ELSE state
    /\ IF oldest = 0
       THEN UNCHANGED <<queue, sent, synchronous, deferred, report>>
       ELSE /\ Flush
            /\ deferred' = Tell(oldest, "success")
            /\ report' = <<[at |-> "success", cb |-> oldest, closed |-> closed]>>
    /\ UNCHANGED <<oldest, newest>>

\* reportError(): nothing that waits is sent any more.
ReportError ==
    /\ state' = "closed" /\ synchronous' = FALSE /\ queue' = <<>>
    /\ ReportsError(TRUE, oldest, deferred)
    /\ UNCHANGED sent

\* The server.
Answers ==
    /\ alive /\ report = <<>> /\ state # "closed" /\ answered < Len(sent)
    /\ LET r == sent[answered + 1] IN
       CASE r.kind = "open" -> ReportReady
         [] r.kind = "publish" -> UNCHANGED <<channel, report, sent>>
         [] OTHER -> ReportSuccess(r.kind = "close")
    /\ answered' = answered + 1
    /\ UNCHANGED <<alive, made>>

Refuses ==
    /\ alive /\ report = <<>> /\ state # "closed"
    /\ ReportError
    /\ UNCHANGED <<alive, answered, made>>

-----------------------------------------------------------------------------
(* What the report does when the callback returns *)

Top == Head(report)

Ready ==
    /\ Top.at = "ready"
    /\ IF alive THEN Flush ELSE UNCHANGED <<queue, sent, synchronous>>
    /\ report' = <<>>
    /\ UNCHANGED <<state, oldest, newest, deferred>>

\* Mutants: the oldest stays where it was, or the newest takes its place.
SuccessStays ==
    /\ Top.at = "success"
    /\ report' = <<>> /\ UNCHANGED <<channel, sent>>

SuccessSkips ==
    /\ Top.at = "success"
    /\ oldest' = (IF Top.cb = newest THEN 0 ELSE newest)
    /\ newest' = oldest'
    /\ report' = <<>>
    /\ UNCHANGED <<state, queue, sent, synchronous, deferred>>

\* The Deferred after cb is the oldest now; after a close it fails, and all
\* that follow.
Success ==
    /\ Top.at = "success"
    /\ IF ~alive
       THEN report' = <<>> /\ UNCHANGED <<channel, sent>>
       ELSE LET next == deferred[Top.cb].next IN
            /\ IF Top.closed
               THEN /\ synchronous' = FALSE /\ queue' = <<>>
                    /\ ReportsError(FALSE, next, deferred)
               ELSE /\ oldest' = next
                    /\ newest' = IF next = 0 THEN 0 ELSE newest
                    /\ report' = <<>>
                    /\ UNCHANGED <<queue, synchronous, deferred>>
            /\ UNCHANGED <<state, sent>>

\* The next Deferred fails.
Error ==
    /\ Top.at = "error"
    /\ IF alive THEN ReportsError(Top.notify, deferred[Top.cb].next, deferred)
                ELSE report' = <<>> /\ UNCHANGED <<oldest, newest, deferred>>
    /\ UNCHANGED <<state, queue, sent, synchronous>>

Notified ==
    /\ Top.at = "notify"
    /\ report' = <<>> /\ UNCHANGED <<channel, sent>>

Returns ==
    /\ report # <<>>
    /\ Ready \/ Success \/ Error \/ Notified
    /\ UNCHANGED <<alive, answered, made>>

-----------------------------------------------------------------------------
(* The user, from inside a callback or from outside *)

Requests(kind) ==
    /\ alive /\ made < MaxRequests
    /\ made' = made + 1
    /\ Send([kind |-> kind, id |-> made + 1])
    /\ IF kind = "publish" THEN UNCHANGED <<oldest, newest, deferred>>
                           ELSE Push(kind, state = "closed")
    /\ state' = IF kind = "close" THEN "closing" ELSE state
    /\ UNCHANGED <<report, alive, answered>>

\* pause, confirmSelect, transactions, exchanges; queues; setQos, consume, cancel,
\* get: the list does not tell them apart.
Declare == Requests("declare")

DeclareQueue == Requests("declare")

Consume == Requests("declare")

Publish == Requests("publish")

\* ack, reject.
Acknowledge == Requests("publish")

\* close(), and the destructor of Channel.  Nothing is sent when the channel is
\* closed already or about to be; of these two, the Deferred of the second fails.
Close == Usable /\ Requests("close")

CloseAgain ==
    /\ alive /\ ~Usable /\ made < MaxRequests
    /\ made' = made + 1
    /\ Push("close again", state = "closing")
    /\ UNCHANGED <<state, synchronous, queue, report, alive, sent, answered>>

\* The connection and the Channel are destroyed.
Destroy ==
    /\ alive /\ alive' = FALSE
    /\ UNCHANGED <<channel, report, sent, answered, made>>

-----------------------------------------------------------------------------
\* attach() has sent the request that opens the channel.
Init ==
    /\ state = "connected" /\ synchronous = TRUE /\ queue = <<>>
    /\ oldest = 0 /\ newest = 0 /\ deferred = <<>>
    /\ report = <<>> /\ alive = TRUE
    /\ sent = <<[kind |-> "open", id |-> 0]>>
    /\ answered = 0 /\ made = 0

Next ==
    \/ Answers \/ Refuses \/ Returns
    \/ Declare \/ DeclareQueue \/ Consume \/ Publish \/ Acknowledge
    \/ Close \/ CloseAgain \/ Destroy

Spec == Init /\ [][Next]_vars

\* Callbacks return, and the server answers.
FairSpec == Spec /\ WF_vars(Returns) /\ WF_vars(Answers)
-----------------------------------------------------------------------------
(* Properties *)

Deferreds == DOMAIN deferred

\* d is in the list: in every set that holds the oldest and what follows each.
Listed(d) ==
    /\ oldest # 0
    /\ \A S \in SUBSET Deferreds :
          oldest \in S /\ (\A e \in S : deferred[e].next \in S \cup {0}) => d \in S

TypeOK ==
    /\ state \in {"connected", "ready", "closing", "closed"}
    /\ {synchronous, alive} \subseteq BOOLEAN
    /\ \A d \in Deferreds :
          /\ deferred[d].failed \in BOOLEAN
          /\ deferred[d].next \in {0} \cup (d + 1)..Len(deferred)
          /\ deferred[d].told \in Seq({"success", "error"})
    /\ {oldest, newest} \subseteq Deferreds \cup {0}
    /\ Len(report) <= 1
    /\ answered <= Len(sent) /\ made <= MaxRequests

\* Between two reports the list holds every Deferred that has been told nothing
\* yet, in the order of the requests, from _oldestCallback to _newestCallback,
\* whatever the callbacks of earlier reports have added or cut off.
ChainHoldsWaiting ==
    (alive /\ report = <<>>) =>
        /\ oldest = 0 <=> newest = 0
        /\ oldest # 0 => Listed(newest) /\ deferred[newest].next = 0
        /\ \A d \in Deferreds : deferred[d].told = <<>> => Listed(d)

\* A request that could be sent is told one thing, "if and when the operation
\* successfully completes" or "fails" (deferred.h 219-255), in the order of the
\* requests; it is success for those that the server has answered, and for no
\* other: an answer is never told to the Deferred of another request.
Verdicts ==
    LET requests == {i \in 1..answered : sent[i].kind \in {"declare", "close"}}
    IN \A d \in Deferreds : ~deferred[d].failed =>
          /\ deferred[d].told \in {<<>>, <<"success">>, <<"error">>}
          /\ deferred[d].told = <<"success">> <=> d <= Cardinality(requests)
          /\ deferred[d].told # <<>> => \A e \in 1..(d - 1) : deferred[e].told # <<>>

\* What the server gets is what the user has requested, in that order.  Nothing
\* should be sent behind a synchronous request that it has not answered yet
\* (_synchronous, channelimpl.h 138-143); since reportReady() flushes after the
\* user's callback, and flush() starts by resetting _synchronous, one more may
\* be, but nothing behind that one.
SentInTurn ==
    /\ \A i, j \in DOMAIN sent : i < j => sent[i].id < sent[j].id
    /\ \A i, j \in (answered + 1)..Len(sent) :
          (i < j /\ IsSync(sent[i]) /\ IsSync(sent[j])) => j = Len(sent)

Untold(d) ==
    /\ alive /\ d \in Deferreds
    /\ deferred[d].told = <<>> /\ deferred[d].kind # "close again"

\* No request is forgotten: as long as the channel is not destroyed, its
\* Deferred is told something in the end.  (That of a second close of a closed
\* channel is not.)
Answered == \A d \in 1..MaxRequests : Untold(d) ~> ~Untold(d)
=============================================================================
