----------------------------- MODULE MqSession -----------------------------
(***************************************************************************)
(* The session of RmqMgr: class RmqMgrBase, RmqMgrBase.cpp lines 11-439,   *)
(* on one AMQP connection that TcpMgr has opened.                          *)
(*                                                                         *)
(* The user thread starts the instance, publishes and releases it; the     *)
(* worker thread of TcpMgr parses what the broker sends and runs the       *)
(* callbacks of RmqMgrBase, one callback at a time.  Both create channels, *)
(* on objects that nothing protects.  A channel (AMQP::ChannelImpl) sends  *)
(* its requests in order and is answered in order; the broker serves the   *)
(* channels independently, and its answers share one TCP connection.       *)
(***************************************************************************)
EXTENDS Integers, Sequences, FiniteSets

CONSTANTS
    ServerNamed,   \* queueName is "": every declaration makes a queue of its own
    Refusable,     \* the requests the broker may refuse
    MaxRefusals,   \* bound: requests it refuses
    MaxPubs,       \* bound: messages the user publishes
    MaxInbox,      \* bound: frames on their way to the worker
    MaxChannels,   \* bound: channels; a callback makes at most two
    MayRelease,    \* the user may release the instance
    MayReorder,    \* a load may overtake an earlier store of its thread
    MayLose        \* the TCP connection may fail

\* Mutant: the consumption is asked for before the queue is declared.
SetupConsumesFirst == <<"exchange", "consume", "queue", "bind">>

\* What ChannelOkCb asks of the broker, in this order.
Setup == <<"exchange", "queue", "bind", "consume">>
SetupOps == {"exchange", "queue", "bind", "consume"}

ASSUME SessionAssumption ==
    /\ {ServerNamed, MayRelease, MayReorder, MayLose} \subseteq BOOLEAN
    /\ Refusable \subseteq SetupOps
    /\ MaxRefusals \in Nat /\ MaxPubs \in Nat
    /\ MaxInbox \in Nat \ {0} /\ MaxChannels \in Nat

VARIABLES
    pc,        \* the user thread
    login,     \* TcpMgr::m_is_ready
    chan,      \* the AMQP channels made so far, a record each
    main,      \* m_channel, 0 when null
    pub,       \* m_channelPub, 0 when null
    connOpen,  \* m_connection->usable()
    status,    \* the last OnStatusChange
    cbs,       \* callbacks of the frame being parsed that have still to run
    inbox,     \* what the broker has sent and the worker has not parsed
    received,  \* messages given to OnRecvedData
    pubs,      \* messages PublishMsg was called with
    broker     \* the broker: a record

vars == <<pc, login, chan, main, pub, connOpen, status, cbs, inbox, received, pubs, broker>>

-----------------------------------------------------------------------------
(* AMQP channels *)

Usable(c) == chan[c].st \in {"connected", "ready"}

\* The Deferreds behind the oldest, if there is one.
Rest(todo) == SubSeq(todo, 2, Len(todo))

\* Opening a channel sends its first request; ready says whether onReady has
\* been called on it.
Open(cs, role, ready) ==
    Append(cs, [role |-> role, st |-> "connected", ready |-> ready,
                req |-> <<"open">>, todo |-> <<>>])

\* Destroying an AMQP::Channel, or close(), closes a channel that is usable.
Close(cs, c) ==
    IF c # 0 /\ cs[c].st \in {"connected", "ready"}
    THEN [cs EXCEPT ![c].st = "closing",
                    ![c].req = Append(@, "close"), ![c].todo = Append(@, "close")]
    ELSE cs

\* A request that is answered, with a Deferred that waits for it.  A channel
\* that is closing keeps the Deferred, to fail it when it is closed.
Request(cs, c, ops) ==
    IF cs[c].st = "closing" THEN [cs EXCEPT ![c].todo = @ \o ops]
    ELSE [cs EXCEPT ![c].req = @ \o ops, ![c].todo = @ \o ops]

\* One that is not: publish, ack.
Send(cs, c, op) ==
    IF cs[c].st \in {"connected", "ready"} THEN [cs EXCEPT ![c].req = Append(@, op)] ELSE cs

\* make_shared<AMQP::Channel>, assigned to the pointer that held channel old.
Renew(cs, old, role, ready) == Close(Open(cs, role, ready), old)

-----------------------------------------------------------------------------
(* The callbacks of RmqMgrBase *)

\* Mutant: the pub channel that is replaced is kept open.
ChannelOkCbKeepsPub ==
    /\ status' = TRUE
    /\ pub' = Len(chan) + 1
    /\ chan' = Request(Open(chan, "pub", FALSE), main, Setup)
    /\ UNCHANGED main

\* Mutant: the queue is declared and consumed on the channel used to publish.
ChannelOkCbOnPub ==
    /\ status' = TRUE
    /\ pub' = Len(chan) + 1
    /\ chan' = Request(Renew(chan, pub, "pub", FALSE), Len(chan) + 1, Setup)
    /\ UNCHANGED main

\* The channel for publishing is renewed, unless the connection is closed; then
\* everything is declared, and consumed, on m_channel.  If that channel is
\* closed the first request fails at once, and its error callback replaces the
\* channel before the second.
ChannelOkCb ==
    LET cs == IF connOpen THEN Renew(chan, pub, "pub", FALSE) ELSE chan
        new == Len(cs) + 1
        works == chan[main].st # "closed"
    IN /\ pub' = IF connOpen THEN Len(chan) + 1 ELSE pub
       /\ status' = (connOpen /\ works)
       /\ main' = IF connOpen /\ ~works THEN new ELSE main
       /\ chan' = IF works THEN Request(cs, main, Setup)
                  ELSE IF connOpen
                  THEN Request(Renew(cs, main, "main", TRUE), new, Tail(Setup))
                  ELSE cs

\* CreateMqChannel, as the worker runs it: the constructor of a channel throws
\* when the connection is closed.
CreateMqChannel ==
    IF connOpen
    THEN /\ main' = Len(chan) + 1
         /\ chan' = Renew(chan, main, "main", TRUE)
    ELSE UNCHANGED <<main, chan>>

\* Mutant: the failed channel is not replaced.
ErrCbNoChannel == status' = FALSE /\ UNCHANGED <<chan, main, pub>>

\* ChannelErrCb, CreatMqExchangeErrCb, ..., ConsumeErrorCb.
ErrCb ==
    /\ status' = FALSE
    /\ CreateMqChannel
    /\ UNCHANGED pub

\* Mutant: the user is not told.
PubErrCbSilent == UNCHANGED <<status, chan, main, pub>>

\* The error callback of the channel for publishing.
PubErrCb == status' = FALSE /\ UNCHANGED <<chan, main, pub>>

-----------------------------------------------------------------------------
(* The worker thread *)

Works == pc \notin {"stopped", "crashed"}

Parses(ans) == Works /\ cbs = <<>> /\ inbox # <<>> /\ Head(inbox).ans = ans
From == Head(inbox).ch

\* ChannelImpl::reportReady: the state first, then the callback.
OpenOk ==
    /\ Parses("open-ok")
    /\ chan' = [chan EXCEPT ![From].st = IF @ = "connected" THEN "ready" ELSE @]
    /\ cbs' = <<[cb |-> "ready", ch |-> From]>>
    /\ inbox' = Tail(inbox)
    /\ UNCHANGED <<pc, login, main, pub, connOpen, status, received, pubs, broker>>

\* The error callbacks of the requests that are waiting.
Failing(todo) ==
    LET setups == {i \in DOMAIN todo : todo[i] \in SetupOps}
    IN [i \in 1..Cardinality(setups) |-> [cb |-> "error", ch |-> From]]

\* ChannelImpl::reportError: every request that waits fails, then the channel.
Refused ==
    /\ Parses("refused")
    /\ chan' = [chan EXCEPT ![From].st = "closed", ![From].todo = <<>>]
    /\ cbs' = Failing(chan[From].todo)
                 \o <<[cb |-> IF chan[From].role = "main" THEN "error" ELSE "puberror",
                       ch |-> From]>>
    /\ inbox' = Tail(inbox)
    /\ UNCHANGED <<pc, login, main, pub, connOpen, status, received, pubs, broker>>

\* ChannelImpl::reportClosed: requests made after the close fail.
Closed ==
    /\ Parses("closed")
    /\ chan' = [chan EXCEPT ![From].st = "closed", ![From].todo = <<>>]
    /\ cbs' = Failing(Rest(chan[From].todo))
    /\ inbox' = Tail(inbox)
    /\ UNCHANGED <<pc, login, main, pub, connOpen, status, received, pubs, broker>>

\* ConsumeRecvedCb: the acknowledgement goes to the current m_channel.
ConsumeRecvedCb ==
    /\ Parses("deliver")
    /\ received' = received \cup {Head(inbox).msg}
    /\ chan' = Send(chan, main, "ack")
    /\ inbox' = Tail(inbox)
    /\ UNCHANGED <<pc, login, main, pub, connOpen, status, cbs, pubs, broker>>

\* The next callback of the frame.
Callback ==
    /\ Works /\ cbs # <<>> /\ Len(chan) + 2 <= MaxChannels
    /\ cbs' = Tail(cbs)
    /\ CASE Head(cbs).cb = "ready" ->
              IF chan[Head(cbs).ch].ready THEN ChannelOkCb
              ELSE UNCHANGED <<chan, main, pub, status>>
         [] Head(cbs).cb = "error" -> ErrCb
         [] Head(cbs).cb = "puberror" -> PubErrCb
    /\ UNCHANGED <<pc, login, connOpen, inbox, received, pubs, broker>>

\* MyConnectionHandler::onReady -> SetLoginReady.
LoginOk ==
    /\ Works /\ ~login
    /\ login' = TRUE
    /\ UNCHANGED <<pc, chan, main, pub, connOpen, status, cbs, inbox, received, pubs, broker>>

Worker ==
    \/ OpenOk \/ Refused \/ Closed \/ ConsumeRecvedCb \/ Callback

-----------------------------------------------------------------------------
(* The user thread *)

UserOnly == UNCHANGED <<login, connOpen, cbs, inbox, received, broker>>

\* StartMqInstance: WaitForReady, for ten seconds.
WaitTimesOut ==
    /\ pc = "login" /\ ~login
    /\ pc' = "failed"
    /\ UserOnly /\ UNCHANGED <<chan, main, pub, status, pubs>>

\* CreateMqChannel on the user's thread: the channel is open before its
\* callbacks are registered.
StartCreatesChannel ==
    /\ pc = "login" /\ login
    /\ main' = Len(chan) + 1
    /\ chan' = Open(chan, "main", FALSE)
    /\ pc' = "registering"
    /\ UserOnly /\ UNCHANGED <<pub, status, pubs>>

\* ChannelImpl::onReady stores the callback ...
StoresCallback ==
    /\ pc = "registering"
    /\ chan' = [chan EXCEPT ![1].ready = TRUE]
    /\ pc' = "checking"
    /\ UserOnly /\ UNCHANGED <<main, pub, status, pubs>>

\* Mutant: onReady leaves a channel that is ready already to itself.
ChecksNothing ==
    /\ pc = "checking"
    /\ pc' = "started"
    /\ UserOnly /\ UNCHANGED <<chan, main, pub, status, pubs>>

\* ... and then calls it if the channel is ready already.
ChecksReady ==
    /\ pc = "checking"
    /\ pc' = "started"
    /\ IF chan[1].st = "ready" THEN ChannelOkCb ELSE UNCHANGED <<chan, main, pub, status>>
    /\ UserOnly /\ UNCHANGED pubs

\* Nothing orders the two against the worker, whose reportReady stores the state
\* and loads the callback: the processor may do the check first.
ChecksEarly ==
    /\ pc = "registering" /\ MayReorder
    /\ pc' = "storing"
    /\ IF chan[1].st = "ready" THEN ChannelOkCb ELSE UNCHANGED <<chan, main, pub, status>>
    /\ UserOnly /\ UNCHANGED pubs

StoresLate ==
    /\ pc = "storing"
    /\ chan' = [chan EXCEPT ![1].ready = TRUE]
    /\ pc' = "started"
    /\ UserOnly /\ UNCHANGED <<main, pub, status, pubs>>

\* PublishMsg through a null m_channelPub ends the program.
PublishMsg ==
    /\ pc = "started" /\ pubs < MaxPubs
    /\ pubs' = pubs + 1
    /\ IF pub = 0
       THEN pc' = "crashed" /\ UNCHANGED chan
       ELSE chan' = Send(chan, pub, "publish") /\ UNCHANGED pc
    /\ UserOnly /\ UNCHANGED <<main, pub, status>>

\* ReleaseMqInstance: CloseMqChannel on m_channel, then on m_channelPub, ...
ReleaseMain ==
    /\ pc = "started" /\ MayRelease
    /\ chan' = Close(chan, main)
    /\ pc' = "releasing"
    /\ UserOnly /\ UNCHANGED <<main, pub, status, pubs>>

ReleasePub ==
    /\ pc = "releasing"
    /\ IF pub = 0
       THEN pc' = "crashed" /\ UNCHANGED chan
       ELSE pc' = "closing" /\ chan' = Close(chan, pub)
    /\ UserOnly /\ UNCHANGED <<main, pub, status, pubs>>

\* ... CloseMqConnection, ...
ReleaseConnection ==
    /\ pc = "closing" /\ connOpen
    /\ connOpen' = FALSE
    /\ UNCHANGED <<pc, login, chan, main, pub, status, cbs, inbox, received, pubs, broker>>

\* ... and Finit, which stops the worker thread.
ReleaseFinit ==
    /\ pc = "closing" /\ ~connOpen
    /\ pc' = "stopped"
    /\ UserOnly /\ UNCHANGED <<chan, main, pub, status, pubs>>

Starts == StartCreatesChannel \/ StoresCallback \/ ChecksReady \/ ChecksEarly \/ StoresLate
Releases == ReleaseMain \/ ReleasePub \/ ReleaseConnection \/ ReleaseFinit
User == WaitTimesOut \/ Starts \/ PublishMsg \/ Releases

-----------------------------------------------------------------------------
(* The broker, on one exclusive connection *)

Answers(c, ans) == inbox' = Append(inbox, [ch |-> c, ans |-> ans])
Takes(c) == chan' = [chan EXCEPT ![c].req = Tail(@)]

\* A request that succeeds has its Deferred dropped by ChannelImpl::reportSuccess,
\* which calls nothing of RmqMgrBase.  The answers of a channel keep their order,
\* so it is gone before anything later of the channel is parsed: it goes here.
Succeeds(c) ==
    /\ chan' = [chan EXCEPT ![c].req = Tail(@), ![c].todo = Rest(@)]
    /\ UNCHANGED inbox

Serves(c) ==
    /\ ~broker.lost /\ chan[c].req # <<>> /\ c \notin broker.closed
    /\ Len(inbox) < MaxInbox
    /\ UNCHANGED <<pc, login, main, pub, connOpen, status, cbs, received, pubs>>

\* The queue a channel means by the name it gives, 0 if there is none.
QueueOf(c) ==
    IF ~ServerNamed THEN Len(broker.queues)
    ELSE IF c \in DOMAIN broker.last THEN broker.last[c] ELSE 0

Accept(c, op) ==
    /\ IF op = "open" THEN Takes(c) /\ Answers(c, "open-ok") ELSE Succeeds(c)
    /\ broker' =
         CASE op = "exchange" -> [broker EXCEPT !.exchange = TRUE]
           [] op = "queue" ->
                IF ServerNamed \/ broker.queues = <<>>
                THEN [broker EXCEPT !.queues = Append(@, <<>>),
                                    !.last = [x \in DOMAIN @ \cup {c} |->
                                                IF x = c THEN Len(broker.queues) + 1 ELSE @[x]]]
                ELSE broker
           [] op = "bind" -> [broker EXCEPT !.bound = @ \cup {QueueOf(c)}]
           [] op = "consume" -> [broker EXCEPT !.consumers = @ \cup {<<c, QueueOf(c)>>}]
           [] OTHER -> broker

Drop(c) ==
    [broker EXCEPT !.closed = @ \cup {c}, !.consumers = {x \in @ : x[1] # c}]

Serve(c) ==
    /\ Serves(c) /\ Head(chan[c].req) \in SetupOps \cup {"open"}
    /\ Accept(c, Head(chan[c].req))

Refuse(c) ==
    /\ Serves(c) /\ Head(chan[c].req) \in Refusable
    /\ broker.refusals < MaxRefusals
    /\ chan' = [chan EXCEPT ![c].req = <<>>]
    /\ Answers(c, "refused")
    /\ broker' = [Drop(c) EXCEPT !.refusals = @ + 1]

\* A message goes to every queue that is bound; one for an exchange that does
\* not exist closes its channel.
Route(c) ==
    /\ Serves(c) /\ Head(chan[c].req) = "publish"
    /\ IF broker.exchange
       THEN /\ broker' = [broker EXCEPT
                   !.routed = @ + 1,
                   !.queues = [q \in DOMAIN @ |-> IF q \in broker.bound
                                                   THEN Append(@[q], broker.routed + 1)
                                                   ELSE @[q]]]
            /\ Takes(c) /\ UNCHANGED inbox
       ELSE /\ broker' = Drop(c) /\ Answers(c, "refused")
            /\ chan' = [chan EXCEPT ![c].req = <<>>]

TakeAck(c) ==
    /\ Serves(c) /\ Head(chan[c].req) = "ack"
    /\ Takes(c) /\ UNCHANGED <<inbox, broker>>

CloseChannel(c) ==
    /\ Serves(c) /\ Head(chan[c].req) = "close"
    /\ Takes(c) /\ Answers(c, "closed") /\ broker' = Drop(c)

Deliver(c, q) ==
    /\ ~broker.lost /\ <<c, q>> \in broker.consumers /\ broker.queues[q] # <<>>
    /\ Len(inbox) < MaxInbox
    /\ inbox' = Append(inbox, [ch |-> c, ans |-> "deliver", msg |-> Head(broker.queues[q])])
    /\ broker' = [broker EXCEPT !.queues[q] = Tail(@)]
    /\ UNCHANGED <<pc, login, chan, main, pub, connOpen, status, cbs, received, pubs>>

\* TcpMgr connects again, but RmqMgrBase keeps the AMQP::Connection it has:
\* nothing is answered on it any more.
LinkLost ==
    /\ MayLose /\ ~broker.lost
    /\ broker' = [broker EXCEPT !.lost = TRUE]
    /\ inbox' = <<>>
    /\ UNCHANGED <<pc, login, chan, main, pub, connOpen, status, cbs, received, pubs>>

Broker ==
    \/ \E c \in DOMAIN chan :
          Serve(c) \/ Refuse(c) \/ Route(c) \/ TakeAck(c) \/ CloseChannel(c)
    \/ \E x \in broker.consumers : Deliver(x[1], x[2])

-----------------------------------------------------------------------------
Init ==
    /\ pc = "login" /\ login = FALSE
    /\ chan = <<>> /\ main = 0 /\ pub = 0 /\ connOpen = TRUE
    /\ status = FALSE
    /\ cbs = <<>> /\ inbox = <<>> /\ received = {} /\ pubs = 0
    /\ broker = [exchange |-> FALSE, queues |-> <<>>, last |-> <<>>, bound |-> {},
                 consumers |-> {}, closed |-> {}, refusals |-> 0, routed |-> 0, lost |-> FALSE]

Next == Worker \/ LoginOk \/ User \/ Broker \/ LinkLost

Spec == Init /\ [][Next]_vars

\* The worker thread runs, a start that has begun goes on, and the broker
\* serves what it is sent.  The user need not publish or release.
FairSpec == Spec /\ WF_vars(Worker) /\ WF_vars(Starts) /\ WF_vars(Broker)
-----------------------------------------------------------------------------
(* Properties *)

Channels == DOMAIN chan
Ops == SetupOps \cup {"open", "close", "publish", "ack"}

\* The type invariant; the queue every consumer names exists.
TypeOK ==
    /\ pc \in {"login", "failed", "registering", "checking", "storing", "started",
               "releasing", "closing", "stopped", "crashed"}
    /\ {login, connOpen, status} \subseteq BOOLEAN
    /\ \A c \in Channels :
          /\ chan[c].role \in {"main", "pub"} /\ chan[c].ready \in BOOLEAN
          /\ chan[c].st \in {"connected", "ready", "closing", "closed"}
          /\ chan[c].req \in Seq(Ops) /\ chan[c].todo \in Seq(SetupOps \cup {"close"})
    /\ {main, pub} \subseteq Channels \cup {0}
    /\ pubs \in 0..MaxPubs /\ broker.refusals \in 0..MaxRefusals
    /\ \A i \in DOMAIN cbs : cbs[i].cb \in {"ready", "error", "puberror"}
    /\ \A i \in DOMAIN inbox : inbox[i].ch \in Channels
    /\ received \subseteq 1..broker.routed
    /\ \A x \in broker.consumers : x[1] \in Channels /\ x[2] \in DOMAIN broker.queues

\* No channel is left open behind the two that m_channel and m_channelPub hold,
\* however often the error callbacks and ChannelOkCb replace them, on either
\* thread (the shared_ptr assignments of CreateMqChannel, CreateMqPubChannel).
NoChannelLeaks == \A c \in Channels : Usable(c) => c \in {main, pub}

\* The broker feeds no consumer on a channel the program has let go of: every
\* consumer it knows is on m_channel, or the request to close its channel is
\* on the way (StartConsumeMsg consumes on m_channel, whichever that is then).
ConsumersOnMain ==
    \A x \in broker.consumers :
        x[1] = main \/ \E i \in DOMAIN chan[x[1]].req : chan[x[1]].req[i] = "close"

\* A delivery is acknowledged on the channel that delivered it, the only one
\* where its tag means it, although ConsumeRecvedCb uses the m_channel of the
\* moment.
AcksOwnChannel == [][ConsumeRecvedCb => Head(inbox).ch = main]_vars

\* channel.h: onReady's callback is called when the channel was created.  By the
\* time StartMqInstance has returned and no callback waits, ChannelOkCb has run
\* for a channel that is ready, though it may become so during the registration.
ReadyNotMissed ==
    (pc = "started" /\ cbs = <<>> /\ chan[main].st = "ready") => pub # 0

\* Nothing is under way; what is sent on a channel the broker has closed is ignored.
Quiet ==
    /\ cbs = <<>> /\ inbox = <<>>
    /\ \A c \in Channels \ broker.closed : chan[c].req = <<>>
Consuming == \E q \in broker.bound : <<main, q>> \in broker.consumers

\* The status the user was given last is the truth once nothing is under way:
\* after OnStatusChange(true) the program consumes from a queue that is bound
\* and can publish.
StatusHonest ==
    (pc = "started" /\ Quiet /\ status /\ ~broker.lost) => (Consuming /\ Usable(pub))

\* An instance that has started never settles without consuming, on the m_channel
\* it kept, however the broker's refusals, the error callbacks that replace the
\* channel and the setups of the channels that open interleave.
SettlesConsuming == (pc = "started" /\ Quiet /\ ~broker.lost) => Consuming

\* main.cpp: the program receives the message it publishes after it has started.
OwnMessageReceived == (pubs = 1) ~> (received # {})

\* AMQP::Connection::fail is to be told of a connection that was lost, to fail
\* what is pending: the user learns of it.
LossIsReported == broker.lost ~> (~status \/ pc # "started")
=============================================================================
