----------------------------- MODULE EventLoops -----------------------------
(***************************************************************************)
(* The event loop handlers that AMQP-CPP is shipped with.  A program makes *)
(* one of them: libev's (LibEv), libuv's or libevent's (LibPoll), or       *)
(* boost::asio's (LibBoostAsio).  AMQP-CPP knows only the base class       *)
(* TcpHandler, and asks all of them for the same (FdWatch).                *)
(***************************************************************************)
EXTENDS Integers, FiniteSets

CONSTANTS
    Conns, PollConns,        \* connections of a program
    EvFds, PollFds, AsioFds, \* descriptors
    Timeouts, ConnectTimeout, Late, MaxRefs,
    MaxOps

ASSUME EventLoopsAssumption ==
    /\ Timeouts \subseteq Nat
    /\ ConnectTimeout \in Nat \ {0}
    /\ Late \in Nat /\ {MaxRefs, MaxOps} \subseteq Nat \ {0}
    /\ "none" \notin PollConns
    /\ {} \notin {Conns, EvFds, PollFds, AsioFds}

VARIABLES
    handler,                              \* the handler the program made
    wrapper, phase, active, fired, evCall,
    watchers, stopped, owner, pending, pollCall, called,
    asioWatchers, asioCall

Ev == INSTANCE LibEv WITH Fds <- EvFds, call <- evCall

Poll == INSTANCE LibPoll WITH
    Conns <- PollConns, Fds <- PollFds, lib <- handler, call <- pollCall

Asio == INSTANCE LibBoostAsio WITH
    Fds <- AsioFds, watchers <- asioWatchers, call <- asioCall

evVars == <<wrapper, phase, active, fired, evCall>>
pollVars == <<watchers, stopped, owner, pending, pollCall, called>>
asioVars == <<asioWatchers, asioCall>>
vars == <<handler, evVars, pollVars, asioVars>>

-----------------------------------------------------------------------------
EvStep(A) == handler = "ev" /\ A /\ UNCHANGED <<handler, pollVars, asioVars>>

PollStep(A) == handler \in {"uv", "event"} /\ A /\ UNCHANGED <<handler, evVars, asioVars>>

AsioStep(A) == handler = "asio" /\ A /\ UNCHANGED <<handler, evVars, pollVars>>

Init ==
    /\ handler \in {"ev", "uv", "event", "asio"}
    /\ Ev!Init /\ Poll!Start /\ Asio!Init

Next ==
    \/ \E c \in Conns : EvStep(Ev!Connect(c)) \/ EvStep(Ev!UserCalls(c))
    \/ EvStep(Ev!Poll) \/ EvStep(Ev!Callbacks) \/ EvStep(Ev!Tick)
    \/ \E c \in PollConns, fd \in PollFds : PollStep(Poll!Open(c, fd))
    \/ PollStep(Poll!Withdraws) \/ PollStep(Poll!Poll) \/ PollStep(Poll!Callback)
    \/ AsioStep(Asio!Monitors)
    \/ \E fd \in AsioFds, d \in Asio!Flags :
          AsioStep(Asio!Completes(fd, d)) \/ AsioStep(Asio!Handler(fd, d))

\* The loop of libev runs, and time passes; the service of asio runs, and the
\* descriptors it waits for are ready again and again.
Fairness ==
    /\ WF_vars(EvStep(Ev!Poll)) /\ WF_vars(EvStep(Ev!Callbacks)) /\ SF_vars(EvStep(Ev!Tick))
    /\ \A fd \in AsioFds, d \in Asio!Flags :
          /\ WF_vars(AsioStep(Asio!Completes(fd, d)))
          /\ WF_vars(AsioStep(Asio!Handler(fd, d)))

Spec == Init /\ [][Next]_vars /\ Fairness
-----------------------------------------------------------------------------
(* Properties; a handler that the program did not make stays as it was. *)

\* libev.h: heartbeats are sent in time.
HeartbeatsInTime == Ev!HeartbeatsInTime

\* libev.h: a server that is silent for too long is noticed ...
IdleNoticed == Ev!IdleNoticed

\* ... and no other server is.
ClosesIdleOnly == Ev!ClosesIdleOnly

\* libev.h: what the ev_ref and ev_unref around the timer leave in the count of
\* the loop belongs to a timer that runs although it is not needed any more.
LoopCountsWatchers == Ev!LoopCountsWatchers

\* libev.h: the setup of a connection ends, if only by its timeout.
ConnectTimesOut == Ev!ConnectTimesOut

\* libev.h: a close that waits for a server that is idle ends.
ClosingEnds == Ev!ClosingEnds

\* libuv.h, libevent.h: a descriptor is watched for its owner.
WatchedForOwner == Poll!WatchedForOwner

\* libuv.h, libevent.h: only the owner of a descriptor is called for it.
CallsOwner == Poll!CallsOwner

\* libboostasio.h: what is wanted has an operation that waits for it.
InterestWatched == Asio!InterestWatched

\* libboostasio.h: what a connection goes on wanting it goes on being told.
Served == Asio!Served

\* All of them do what AMQP-CPP asks of an event loop: no call for an event that
\* has been withdrawn, nor for one that is not wanted.
IsFdWatch == Ev!IsFdWatch /\ Poll!IsFdWatch /\ Asio!IsFdWatch
=============================================================================
