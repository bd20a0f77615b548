---------------------------- MODULE LibBoostAsio ----------------------------
(***************************************************************************)
(* LibBoostAsioHandler, libboostasio.h 53-590: the handler that runs       *)
(* AMQP-CPP on a boost::asio service.  A Watcher has, for each of the two  *)
(* events, a flag that says that the event is wanted and one that says     *)
(* that an asynchronous operation is under way that waits for it.  An      *)
(* operation waits for one event only: the handler that it completes with  *)
(* has to start the next.                                                  *)
(*                                                                         *)
(* The handler runs in a strand, so one at a time, and finds its watcher   *)
(* through a weak pointer.  Operations wait with null_buffers: they fail   *)
(* only when they are cancelled, and only the destructor of the watcher    *)
(* cancels them.  (The Timer, lines 325-475, is not used: its member and   *)
(* onNegotiate are commented out.)                                         *)
(***************************************************************************)
EXTENDS Naturals

CONSTANTS
    Fds,    \* descriptors
    MaxOps  \* bound: operations of one watcher for one event

VARIABLES
    watchers,  \* _watchers: a Watcher for each descriptor
    call       \* the last call of TcpConnection::process

vars == <<watchers, call>>

Flags == {"readable", "writable"}

\* want is _read and _write, pend is _read_pending and _write_pending; ops are
\* the operations that wait, done those whose handler waits to be called.
NoWatcher ==
    [live |-> FALSE, want |-> {}, pend |-> {},
     ops |-> [d \in Flags |-> 0], done |-> [d \in Flags |-> 0]]

Fresh == [NoWatcher EXCEPT !.live = TRUE]

\* async_read_some, async_write_some.
Async(w, ds) ==
    [w EXCEPT !.pend = @ \cup ds, !.ops = [d \in Flags |-> IF d \in ds THEN @[d] + 1 ELSE @[d]]]

\* Mutant: a watcher that waits for something need not be told again.
EventsOnce(w, fl) == Async([w EXCEPT !.want = fl], IF w.pend = {} THEN fl ELSE {})

\* Watcher::events.
Events(w, fl) == Async([w EXCEPT !.want = fl], fl \ w.pend)

\* LibBoostAsioHandler::monitor.
Monitor(w, fl) ==
    IF fl = {} THEN NoWatcher ELSE Events(IF w.live THEN w ELSE Fresh, fl)

\* The first lines of read_handler and write_handler.
Arrive(w, d) == [w EXCEPT !.pend = @ \ {d}, !.done[d] = @ - 1]

\* Mutant: the next operation is left to events().
AgainIfPending(w, d) == IF d \in w.pend THEN Async(w, {d}) ELSE w

\* Their last lines, whatever the connection has done meanwhile to its watcher;
\* one that it has had erased goes with the handler's pointer to it.
Again(w, d) == IF w.live THEN Async(w, {d}) ELSE NoWatcher

-----------------------------------------------------------------------------
\* The connection says what it wants, outside of a handler.
Monitors ==
    /\ \E fd \in Fds, fl \in SUBSET Flags :
          /\ \A d \in fl : watchers[fd].ops[d] + watchers[fd].done[d] < MaxOps
          /\ watchers' = [watchers EXCEPT ![fd] = Monitor(@, fl)]
    /\ UNCHANGED call

\* The descriptor is ready: every operation that waits for it completes.
Completes(fd, d) ==
    /\ watchers[fd].ops[d] > 0
    /\ watchers' = [watchers EXCEPT ![fd].done[d] = @ + watchers[fd].ops[d], ![fd].ops[d] = 0]
    /\ UNCHANGED call

\* read_handler and write_handler: the connection processes the event, and may
\* change what it wants of one of its descriptors before the handler goes on.
\* (It does not have a number watched again in the call that withdrew it.)
Handler(fd, d) ==
    LET w == Arrive(watchers[fd], d) IN
    /\ watchers[fd].done[d] > 0
    /\ \/ /\ d \notin w.want
          /\ watchers' = [watchers EXCEPT ![fd] = w]
          /\ UNCHANGED call
       \/ /\ d \in w.want
          /\ call' = [key |-> fd, flags |-> {d}, odd |-> ~call.odd]
          /\ \/ watchers' = [watchers EXCEPT ![fd] = Again(w, d)]
             \/ \E fl \in SUBSET Flags :
                   /\ \A e \in fl : w.ops[e] + w.done[e] < MaxOps - 1
                   /\ watchers' = [watchers EXCEPT ![fd] = Again(Monitor(w, fl), d)]
             \/ \E g \in Fds \ {fd}, fl \in SUBSET Flags :
                   /\ \A e \in fl : watchers[g].ops[e] + watchers[g].done[e] < MaxOps
                   /\ watchers' = [watchers EXCEPT ![g] = Monitor(@, fl), ![fd] = Again(w, d)]

-----------------------------------------------------------------------------
Init ==
    /\ watchers = [fd \in Fds |-> NoWatcher]
    /\ call = [key |-> CHOOSE fd \in Fds : TRUE, flags |-> {}, odd |-> FALSE]

Next ==
    \/ Monitors
    \/ \E fd \in Fds, d \in Flags : Completes(fd, d) \/ Handler(fd, d)

Spec == Init /\ [][Next]_vars

\* The service runs, and every descriptor is ready again and again.
FairSpec ==
    /\ Spec
    /\ \A fd \in Fds, d \in Flags : WF_vars(Completes(fd, d)) /\ WF_vars(Handler(fd, d))
-----------------------------------------------------------------------------
(* Properties *)

TypeOK ==
    /\ watchers \in [Fds -> [live : BOOLEAN, want : SUBSET Flags, pend : SUBSET Flags,
                             ops : [Flags -> Nat], done : [Flags -> Nat]]]
    /\ call \in [key : Fds, flags : SUBSET Flags, odd : BOOLEAN]

\* No event that is wanted is left without an operation that waits for it: the
\* pending flags, which keep events() from starting one, are true only if there
\* is one, also while the handler has cleared its flag and the connection calls
\* events() from inside process().
InterestWatched ==
    \A fd \in Fds, d \in Flags :
        LET w == watchers[fd] IN
        /\ d \in w.want => d \in w.pend
        /\ d \in w.pend => w.ops[d] + w.done[d] > 0

\* What a connection goes on wanting it goes on being told.
Served ==
    \A fd \in Fds, d \in Flags :
        <>[](d \in watchers[fd].want) => []<><<call'.key = fd /\ call'.flags = {d}>>_call

Watch == INSTANCE FdWatch WITH
    Keys <- Fds,
    interest <- [fd \in Fds |-> watchers[fd].want]

\* The handler does what AMQP-CPP asks of it.
IsFdWatch == Watch!Spec
=============================================================================
