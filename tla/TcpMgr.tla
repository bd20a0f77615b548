------------------------------ MODULE TcpMgr ------------------------------
(***************************************************************************)
(* The transport of RmqMgr: class TcpMgr of RmqMgrBase.cpp, lines 480-721. *)
(*                                                                         *)
(* One worker thread (kNumOfWorkThreads = 1) runs m_ios; every handler     *)
(* goes through m_strand, so a handler is one step and the strand is a     *)
(* FIFO of handlers ready to run.  The user thread posts to the strand,    *)
(* the operating system completes asynchronous operations on m_sock in any *)
(* order, and the network and the broker may fail between any two steps.   *)
(*                                                                         *)
(* m_pending_recvs only ever holds zeros (RecvData is always called with   *)
(* its default argument), so it is modelled by its length.  Bytes are      *)
(* abstracted to frames; the framing of m_parseBuf is module AmqpFraming.  *)
(***************************************************************************)
EXTENDS Integers, Sequences, FiniteSets

CONSTANTS
    Rounds,     \* broker messages a login takes (Start, Tune, OpenOk in AMQP)
    MaxLinks,   \* bound: TCP connections the broker ever accepts
    MaxFaults,  \* bound: healthy TCP connections the network or broker drops
    MaxPosts    \* bound: frames posted before the user stops sending

ASSUME BoundsAssumption ==
    /\ Rounds \in Nat \ {0}
    /\ MaxLinks \in Nat \ {0}
    /\ MaxFaults \in Nat
    /\ MaxPosts \in Nat

VARIABLES
    strand,   \* m_strand: handlers ready to run, in order
    sock,     \* m_sock: closed, idle (open, no TCP connection), connecting, up, down
    live,     \* asynchronous operations under way on m_sock, by kind
    doomed,   \* operations aborted or refused, their error not yet delivered
    started,  \* m_socketStarted
    conn,     \* AMQP::Connection objects made so far; m_pConnect is the last
    login,    \* broker messages of the login that m_pConnect has parsed
    isReady,  \* m_is_ready
    recvs,    \* m_pending_recvs.size()
    sends,    \* m_pending_sends
    posted,   \* frames handed to SendData so far; the next frame's number
    usr,      \* the AMQP::Connection the user of TcpMgr holds, 0 for none
    phase,    \* running, closing (Finit posted the close), stopped (m_ios.stop)
    wire,     \* frames the current TCP connection has carried to the broker
    told,     \* login messages the broker has sent on the current connection
    links,    \* TCP connections accepted so far
    faults    \* healthy TCP connections dropped so far

net  == <<sock, live, doomed>>
amqp == <<conn, login, isReady>>
user == <<usr, phase>>
peer == <<wire, told, links, faults>>
vars == <<strand, net, started, amqp, recvs, sends, posted, user, peer>>

-----------------------------------------------------------------------------
(* Data *)

Kind == {"connect", "read", "write"}

\* A block of bytes an AMQP::Connection hands to onData.
Frame == [conn : Nat, hdr : BOOLEAN, n : Nat]

\* A handler on the strand: a posted call, or the completion of an operation.
Call(h)        == [h |-> h]
SendCall(f)    == [h |-> "SendMsg", frame |-> f]
Completed(h, ok, c) == [h |-> h, ok |-> ok, conn |-> c]

HandlerOf == [connect |-> "OnConnect", read |-> "HandleRecv", write |-> "HandleWrite"]

Handler ==
    [h : {"DispatchRecv", "StartCloseSocket"}]
      \cup [h : {"SendMsg"}, frame : Frame]
      \cup [h : {"OnConnect", "HandleRecv", "HandleWrite"}, ok : BOOLEAN, conn : Nat]

\* The frames that go out on this connection all belong to the AMQP
\* connection that opened it with its protocol header.
CleanWire ==
    \A i \in DOMAIN wire : wire[i].conn = wire[1].conn /\ (wire[i].hdr <=> i = 1)

-----------------------------------------------------------------------------
(* Asynchronous operations on m_sock: what asio and the system do with them *)

\* async_connect opens a closed socket.  A socket that is connected, or still
\* trying, refuses; one whose connection has failed may do either.
AsyncConnect ==
    \/ /\ sock \in {"closed", "idle", "down"}
       /\ sock' = "connecting"
       /\ live' = [live EXCEPT !["connect"] = @ + 1]
       /\ UNCHANGED doomed
    \/ /\ sock \in {"connecting", "up", "down"}
       /\ doomed' = [doomed EXCEPT !["connect"] = @ + 1]
       /\ UNCHANGED <<sock, live>>

\* A read or a write on a socket with no connection is refused; while the
\* socket is connecting a system may refuse it or let it wait.
AsyncTransfer(k) ==
    \/ /\ sock \in {"connecting", "up", "down"}
       /\ live' = [live EXCEPT ![k] = @ + 1]
       /\ UNCHANGED <<sock, doomed>>
    \/ /\ sock \in {"closed", "idle", "connecting"}
       /\ doomed' = [doomed EXCEPT ![k] = @ + 1]
       /\ UNCHANGED <<sock, live>>

\* Closing the socket aborts every operation under way on it.
CloseAborts ==
    /\ sock' = "closed"
    /\ doomed' = [k \in Kind |-> doomed[k] + live[k]]
    /\ live' = [k \in Kind |-> 0]

-----------------------------------------------------------------------------
(* The handlers, run by the worker thread *)

Runs(h) == phase # "stopped" /\ strand # <<>> /\ Head(strand).h = h

\* What a handler posts goes behind what is already queued.
Post(handlers) == strand' = Tail(strand) \o handlers

\* The old m_pConnect dies when it is replaced, unless the user holds it; a
\* connection that is logged in says goodbye, through onData, as it dies.
Farewell ==
    IF conn # 0 /\ login = Rounds /\ usr # conn
    THEN <<[conn |-> conn, hdr |-> FALSE, n |-> posted + 2]>> ELSE <<>>

\* Mutant: the receive of line 533 is not posted.
OnConnectNoRecv ==
    /\ Runs("OnConnect")
    /\ IF Head(strand).ok /\ sock # "closed"
       THEN LET header == [conn |-> conn + 1, hdr |-> TRUE, n |-> posted + 1]
            IN /\ started' = TRUE /\ conn' = conn + 1 /\ login' = 0
               /\ posted' = posted + 1 /\ Post(<<SendCall(header)>>) /\ UNCHANGED net
       ELSE /\ started' = FALSE /\ AsyncConnect /\ Post(<<>>)
            /\ UNCHANGED <<conn, login, posted>>
    /\ UNCHANGED <<isReady, recvs, sends, user, peer>>

\* Mutant: m_socketStarted is left as it was when the connect succeeds.
OnConnectNotStarted ==
    /\ Runs("OnConnect")
    /\ IF Head(strand).ok /\ sock # "closed"
       THEN LET header == [conn |-> conn + 1, hdr |-> TRUE, n |-> posted + 1]
            IN /\ conn' = conn + 1 /\ login' = 0 /\ posted' = posted + 1
               /\ Post(<<SendCall(header), Call("DispatchRecv")>>) /\ UNCHANGED <<started, net>>
       ELSE /\ started' = FALSE /\ AsyncConnect /\ Post(<<>>)
            /\ UNCHANGED <<conn, login, posted>>
    /\ UNCHANGED <<isReady, recvs, sends, user, peer>>

\* A new AMQP::Connection posts its protocol header from its constructor, then
\* RecvData posts the first receive.
OnConnect ==
    /\ Runs("OnConnect")
    /\ IF Head(strand).ok /\ sock # "closed"
       THEN LET header == [conn |-> conn + 1, hdr |-> TRUE, n |-> posted + 1]
                frames == <<header>> \o Farewell
            IN /\ started' = TRUE
               /\ conn' = conn + 1
               /\ login' = 0
               /\ posted' = posted + Len(frames)
               /\ Post([i \in DOMAIN frames |-> SendCall(frames[i])]
                         \o <<Call("DispatchRecv")>>)
               /\ UNCHANGED net
       ELSE /\ started' = FALSE
            /\ AsyncConnect
            /\ Post(<<>>)
            /\ UNCHANGED <<conn, login, posted>>
    /\ UNCHANGED <<isReady, recvs, sends, user, peer>>

\* Mutant: the receive is started but not entered in m_pending_recvs.
DispatchRecvNoPush ==
    /\ Runs("DispatchRecv")
    /\ IF recvs = 0 THEN AsyncTransfer("read") ELSE UNCHANGED net
    /\ Post(<<>>)
    /\ UNCHANGED <<started, amqp, recvs, sends, posted, user, peer>>

DispatchRecv ==
    /\ Runs("DispatchRecv")
    /\ IF recvs = 0 THEN AsyncTransfer("read") ELSE UNCHANGED net
    /\ recvs' = recvs + 1
    /\ Post(<<>>)
    /\ UNCHANGED <<started, amqp, sends, posted, user, peer>>

\* m_pConnect parses the bytes: during the login it answers each message of
\* the broker but the last, which makes it ready (onReady -> SetLoginReady).
\* Bytes a broker meant for another connection object do not advance a login.
Advances == Head(strand).conn = conn /\ login < Rounds
Answer == <<SendCall([conn |-> conn, hdr |-> FALSE, n |-> posted + 1])>>

\* Mutant: a new receive is posted even when one is still queued.
HandleRecvOkAlwaysAgain ==
    /\ Runs("HandleRecv") /\ Head(strand).ok
    /\ LET answers == IF Advances /\ login + 1 < Rounds THEN Answer ELSE <<>>
       IN /\ Post(answers \o <<Call("DispatchRecv"), Call("DispatchRecv")>>)
          /\ posted' = posted + Len(answers)
    /\ login' = IF Advances THEN login + 1 ELSE login
    /\ isReady' = (isReady \/ (Advances /\ login + 1 = Rounds))
    /\ recvs' = recvs - 1
    /\ IF recvs > 1 THEN AsyncTransfer("read") ELSE UNCHANGED net
    /\ UNCHANGED <<started, conn, sends, user, peer>>

HandleRecvOk ==
    /\ Runs("HandleRecv") /\ Head(strand).ok
    /\ LET answers == IF Advances /\ login + 1 < Rounds THEN Answer ELSE <<>>
           again   == IF recvs > 1 THEN <<>> ELSE <<Call("DispatchRecv")>>
       IN /\ Post(answers \o again)
          /\ posted' = posted + Len(answers)
    /\ login' = IF Advances THEN login + 1 ELSE login
    /\ isReady' = (isReady \/ (Advances /\ login + 1 = Rounds))
    /\ recvs' = recvs - 1
    /\ IF recvs > 1 THEN AsyncTransfer("read") ELSE UNCHANGED net
    /\ UNCHANGED <<started, conn, sends, user, peer>>

\* CloseSocket only posts the close, so the connect of ReConnectServer is
\* issued, after its one second sleep on the strand, on the socket as it is.
FailAndReconnect ==
    /\ Post(<<Call("StartCloseSocket")>>)
    /\ AsyncConnect

HandleRecvErr ==
    /\ Runs("HandleRecv") /\ ~Head(strand).ok
    /\ FailAndReconnect
    /\ UNCHANGED <<started, amqp, recvs, sends, posted, user, peer>>

\* Mutant: every frame starts a write of its own.
SendMsgAlwaysStarts ==
    /\ Runs("SendMsg")
    /\ sends' = Append(sends, Head(strand).frame)
    /\ AsyncTransfer("write")
    /\ Post(<<>>)
    /\ UNCHANGED <<started, amqp, recvs, posted, user, peer>>

SendMsg ==
    /\ Runs("SendMsg")
    /\ sends' = Append(sends, Head(strand).frame)
    /\ IF sends = <<>> THEN AsyncTransfer("write") ELSE UNCHANGED net
    /\ Post(<<>>)
    /\ UNCHANGED <<started, amqp, recvs, posted, user, peer>>

\* Mutant: the frame that was written stays at the front.
HandleWriteOkNoPop ==
    /\ Runs("HandleWrite") /\ Head(strand).ok
    /\ AsyncTransfer("write")
    /\ Post(<<>>)
    /\ UNCHANGED <<started, amqp, recvs, sends, posted, user, peer>>

\* Mutant: the next write is only started by the next SendMsg.
HandleWriteOkStops ==
    /\ Runs("HandleWrite") /\ Head(strand).ok
    /\ sends' = Tail(sends)
    /\ Post(<<>>)
    /\ UNCHANGED <<net, started, amqp, recvs, posted, user, peer>>

HandleWriteOk ==
    /\ Runs("HandleWrite") /\ Head(strand).ok
    /\ sends' = Tail(sends)
    /\ IF Tail(sends) # <<>> THEN AsyncTransfer("write") ELSE UNCHANGED net
    /\ Post(<<>>)
    /\ UNCHANGED <<started, amqp, recvs, posted, user, peer>>

\* Mutant: the frame that failed is popped and the next one tried.
HandleWriteErrGoesOn ==
    /\ Runs("HandleWrite") /\ ~Head(strand).ok
    /\ Post(<<Call("StartCloseSocket")>>)
    /\ doomed' = [doomed EXCEPT !["connect"] = @ + 1,
                                ![IF Len(sends) > 1 THEN "write" ELSE "connect"] = @ + 1]
    /\ sends' = Tail(sends)
    /\ UNCHANGED <<sock, live, started, amqp, recvs, posted, user, peer>>

\* Mutant: the AMQP connection is replaced as soon as the link has failed.
HandleWriteErrReplaces ==
    /\ Runs("HandleWrite") /\ ~Head(strand).ok
    /\ FailAndReconnect
    /\ conn' = conn + 1
    /\ login' = 0
    /\ UNCHANGED <<started, isReady, recvs, sends, posted, user, peer>>

HandleWriteErr ==
    /\ Runs("HandleWrite") /\ ~Head(strand).ok
    /\ FailAndReconnect
    /\ UNCHANGED <<started, amqp, recvs, sends, posted, user, peer>>

StartCloseSocket ==
    /\ Runs("StartCloseSocket")
    /\ IF started THEN CloseAborts ELSE UNCHANGED net
    /\ started' = FALSE
    /\ Post(<<>>)
    /\ UNCHANGED <<amqp, recvs, sends, posted, user, peer>>

Worker ==
    \/ OnConnect \/ DispatchRecv \/ HandleRecvOk \/ HandleRecvErr
    \/ SendMsg \/ HandleWriteOk \/ HandleWriteErr \/ StartCloseSocket

-----------------------------------------------------------------------------
(* Completions, the network and the broker *)

Complete(k, ok, c) ==
    strand' = Append(strand, Completed(HandlerOf[k], ok, c))

\* An aborted or refused operation reports its error.
ReportError(k) ==
    /\ phase # "stopped"
    /\ doomed[k] > 0
    /\ doomed' = [doomed EXCEPT ![k] = @ - 1]
    /\ Complete(k, FALSE, 0)
    /\ UNCHANGED <<sock, live, started, amqp, recvs, sends, posted, user, peer>>

Finished(k, ok, c) ==
    /\ phase # "stopped"
    /\ live[k] > 0
    /\ live' = [live EXCEPT ![k] = @ - 1]
    /\ Complete(k, ok, c)
    /\ UNCHANGED <<doomed, started, amqp, recvs, sends, posted, user, faults>>

ConnectOk ==
    /\ sock = "connecting"
    /\ links < MaxLinks
    /\ Finished("connect", TRUE, 0)
    /\ sock' = "up"
    /\ links' = links + 1
    /\ wire' = <<>>
    /\ told' = 0

ConnectErr ==
    /\ sock = "connecting"
    /\ Finished("connect", FALSE, 0)
    /\ sock' = "idle"
    /\ UNCHANGED <<wire, told, links>>

\* The broker speaks to the connection whose header it has seen: the next
\* message of the login once the previous one is answered, and after the
\* login whenever it has something to deliver.  What arrived before the
\* connection failed may still be read after it has.
ReadOk ==
    /\ sock \in {"up", "down"}
    /\ wire # <<>> /\ wire[1].hdr
    /\ told = Rounds \/ Len(wire) > told
    /\ Finished("read", TRUE, wire[1].conn)
    /\ told' = IF told = Rounds THEN told ELSE told + 1
    /\ UNCHANGED <<sock, wire, links>>

\* Bytes accepted after the connection has failed never reach the broker.
WriteOk ==
    /\ sock \in {"up", "down"}
    /\ Finished("write", TRUE, 0)
    /\ wire' = IF sock = "up" THEN Append(wire, Head(sends)) ELSE wire
    /\ UNCHANGED <<sock, told, links>>

TransferErr(k) ==
    /\ sock \in {"idle", "connecting", "down"}
    /\ Finished(k, FALSE, 0)
    /\ UNCHANGED <<sock, wire, told, links>>

\* The network or the broker drops the connection; a broker that was sent
\* bytes it cannot understand always may.
LinkDown ==
    /\ sock = "up"
    /\ \/ faults < MaxFaults /\ faults' = faults + 1
       \/ ~CleanWire /\ UNCHANGED faults
    /\ sock' = "down"
    /\ UNCHANGED <<strand, live, doomed, started, amqp, recvs, sends, posted, user>>
    /\ UNCHANGED <<wire, told, links>>

Reactor ==
    \/ \E k \in Kind : ReportError(k)
    \/ ConnectOk \/ ConnectErr \/ ReadOk \/ WriteOk
    \/ \E k \in {"read", "write"} : TransferErr(k)

-----------------------------------------------------------------------------
(* The user thread *)

\* RmqMgrBase::GetMqConnection, after WaitForReady has returned true.
GetConnection ==
    /\ phase = "running" /\ isReady /\ usr = 0
    /\ usr' = conn
    /\ UNCHANGED <<strand, net, started, amqp, recvs, sends, posted, phase, peer>>

\* Any use of a channel ends in onData -> SendData, which posts SendMsg.
SendData ==
    /\ phase = "running" /\ usr # 0 /\ posted < MaxPosts
    /\ strand' = Append(strand, SendCall([conn |-> usr, hdr |-> FALSE, n |-> posted + 1]))
    /\ posted' = posted + 1
    /\ UNCHANGED <<net, started, amqp, recvs, sends, user, peer>>

FinitClose ==
    /\ phase = "running"
    /\ phase' = "closing"
    /\ strand' = Append(strand, Call("StartCloseSocket"))
    /\ UNCHANGED <<net, started, amqp, recvs, sends, posted, usr, peer>>

FinitStop ==
    /\ phase = "closing"
    /\ phase' = "stopped"
    /\ UNCHANGED <<strand, net, started, amqp, recvs, sends, posted, usr, peer>>

\* After m_ios.stop and join_all nothing runs any more.
Stopped == phase = "stopped" /\ UNCHANGED vars

User == GetConnection \/ SendData \/ FinitClose \/ FinitStop

-----------------------------------------------------------------------------
\* TcpMgr::Start has issued the first connect when Init returns.
Init ==
    /\ strand = <<>>
    /\ sock = "connecting"
    /\ live = [k \in Kind |-> IF k = "connect" THEN 1 ELSE 0]
    /\ doomed = [k \in Kind |-> 0]
    /\ started = FALSE
    /\ conn = 0 /\ login = 0 /\ isReady = FALSE
    /\ recvs = 0 /\ sends = <<>> /\ posted = 0
    /\ usr = 0 /\ phase = "running"
    /\ wire = <<>> /\ told = 0 /\ links = 0 /\ faults = 0

Next == Worker \/ Reactor \/ LinkDown \/ User \/ Stopped

Spec == Init /\ [][Next]_vars

\* The worker thread runs while m_work keeps m_ios busy, and the system
\* finishes every operation it can.  A connect is retried every second: a
\* broker that accepts one now and then accepts one in the end.  The user and
\* the network's failures owe nothing.
Fairness ==
    /\ WF_vars(Worker)
    /\ \A k \in Kind : WF_vars(ReportError(k))
    /\ \A k \in {"read", "write"} : WF_vars(TransferErr(k))
    /\ WF_vars(ReadOk) /\ WF_vars(WriteOk)
    /\ WF_vars(ConnectOk \/ ConnectErr) /\ SF_vars(ConnectOk)

FairSpec == Spec /\ Fairness
-----------------------------------------------------------------------------
(* Properties *)

\* How many handlers of a name are queued, and how many operations of a kind
\* are under way, aborted, or completed with their handler not yet run.
CountIn(s, h) == Cardinality({i \in DOMAIN s : s[i].h = h})
Queued(h)  == CountIn(strand, h)
Pending(k) == live[k] + doomed[k] + Queued(HandlerOf[k])

\* The type invariant.
TypeOK ==
    /\ strand \in Seq(Handler)
    /\ sock \in {"closed", "idle", "connecting", "up", "down"}
    /\ live \in [Kind -> Nat] /\ doomed \in [Kind -> Nat]
    /\ started \in BOOLEAN
    /\ conn \in Nat /\ login \in 0..Rounds /\ isReady \in BOOLEAN
    /\ recvs \in Nat /\ sends \in Seq(Frame) /\ posted \in Nat
    /\ usr \in Nat /\ phase \in {"running", "closing", "stopped"}
    /\ wire \in Seq(Frame) /\ told \in 0..Rounds
    /\ links \in 0..MaxLinks /\ faults \in 0..MaxFaults

\* m_recv_buffer and the front of m_pending_sends are lent to the system while
\* an operation uses them: at most one read and one write are outstanding, and
\* only while their queue is not empty, whatever fails and reconnects.
OneTransferEach ==
    /\ Pending("read") <= 1 /\ (recvs = 0 => Pending("read") = 0)
    /\ Pending("write") <= 1 /\ (sends = <<>> => Pending("write") = 0)

\* HandleRecv, HandleWrite and OnConnect each start a reconnection when they
\* fail, on their own: however often the link fails there are never more than
\* two chains of connects.
ReconnectChains == Pending("connect") <= 2

\* When the socket is connected and nothing is left to reconnect it, the code
\* knows it (m_socketStarted), so that a close will really close it.
StartedTracksLink == sock = "up" /\ Pending("connect") = 0 => started

\* A failed receive leaves its entry in m_pending_recvs for ever, one more at
\* each reconnection, but never more than one for each AMQP connection made.
RecvBacklog == recvs + Queued("DispatchRecv") <= conn

\* ParseAmqpData never gives m_pConnect bytes that the broker meant for the
\* AMQP connection it replaced.
ParsesOwnBytes == [][HandleRecvOk => Head(strand).conn = conn]_vars

\* Once OnConnect has accepted a connection the data coming in is received
\* ("start receiving data", RmqMgrBase.cpp:532): a receive is outstanding or
\* about to be, until the socket is about to be closed.
ReceivesOnceConnected ==
    started /\ phase = "running" =>
       \/ Pending("read") + Queued("DispatchRecv") > 0
       \/ Pending("connect") > 0
       \/ Queued("StartCloseSocket") > 0

ReceivesUntilFault == faults = 0 => ReceivesOnceConnected

\* "The socket under Rmq is closed" (RmqMgrBase.cpp:680): CloseSocket says so,
\* and when Finit has returned it is so.
FinitClosesSocket == phase = "stopped" => sock \notin {"up", "down"}

\* However often the first connects fail, the login completes, which is what
\* WaitForReady waits for, unless the user gives up.
LoginCompletes == <>(isReady \/ phase # "running" \/ faults > 0)

\* As long as no link fails, the frames given to SendData reach the broker: the
\* queue drains (the user posts MaxPosts frames and no more).
FramesDelivered == posted > Len(wire) ~> posted = Len(wire) \/ phase # "running" \/ faults > 0

\* What is still to be written: m_pending_sends, but for a front that has been
\* written and not popped yet, then the frames of the queued SendMsg handlers.
Written == \E i \in DOMAIN strand : strand[i].h = "HandleWrite" /\ strand[i].ok
FrameIn(x) == IF x.h = "SendMsg" THEN <<x.frame>> ELSE <<>>
FramesOf(s) ==
    LET upto[i \in 0..Len(s)] == IF i = 0 THEN <<>> ELSE upto[i - 1] \o FrameIn(s[i])
    IN upto[Len(s)]
Unwritten == (IF Written THEN Tail(sends) ELSE sends) \o FramesOf(strand)

\* Posting, the strand, m_pending_sends and the writes implement a FIFO pipe:
\* no frame is reordered or written twice, whatever link fails when.
Pipe == INSTANCE SendPipe WITH out <- Unwritten, wire <- wire
IsPipe == Pipe!Spec
=============================================================================
