------------------------------ MODULE LibPoll ------------------------------
(***************************************************************************)
(* LibUvHandler (libuv.h 34-219) and LibEventHandler (libevent.h 33-186):  *)
(* the handlers that run AMQP-CPP on libuv and on libevent.  Both keep a   *)
(* map from descriptors to Watchers; a Watcher holds the connection that   *)
(* first asked for the descriptor, and calls it back.                      *)
(*                                                                         *)
(* The loop collects what has happened and calls back one event after the  *)
(* other; stopping or changing a watcher drops what the loop holds for it. *)
(* The system gives the number of a closed descriptor out again.           *)
(***************************************************************************)
EXTENDS Naturals

CONSTANTS
    Conns,  \* the TCP connections of the program
    Fds     \* descriptors

VARIABLES
    lib,       \* the library: "uv" or "event"
    watchers,  \* _watchers: connection and events by descriptor
    stopped,   \* descriptors libuv has stopped to poll because of an error
    owner,     \* the connection a descriptor belongs to, or "none"
    pending,   \* events collected by the loop and not called back yet
    call,      \* the last call of TcpConnection::process
    called     \* ... and the connection it was made on

vars == <<lib, watchers, stopped, owner, pending, call, called>>

Flags == {"readable", "writable"}
None == [conn |-> "none", flags |-> {}]

-----------------------------------------------------------------------------
(* Watcher *)

\* Mutant: a descriptor that is withdrawn keeps its watcher.
MonitorKeeps(ws, c, fd, fl) ==
    IF fl = {} THEN ws
    ELSE [ws EXCEPT ![fd] = [conn |-> IF @ = None THEN c ELSE @.conn, flags |-> fl]]

\* LibUvHandler::monitor, and LibEventHandler::monitor: a watcher that exists
\* keeps the connection it was made for.
Monitor(ws, c, fd, fl) ==
    [ws EXCEPT ![fd] = IF fl = {} THEN None
                       ELSE [conn |-> IF @ = None THEN c ELSE @.conn, flags |-> fl]]

\* Mutant: the events that the loop holds are kept.
KeepAll(fd) == pending

\* uv_poll_stop, uv_poll_start, event_del: what the loop holds for it is dropped.
Keep(fd) == {p \in pending : p.fd # fd}

\* uv_to_amqp_events: with an error, everything.
UvFlags(p) == IF p.error THEN Flags ELSE p.flags

\* The callback of LibEventHandler passes on what it is told.
EventFlags(p) == p.flags

-----------------------------------------------------------------------------
(* The connections, and what their calls of monitor do *)

Monitors(c, fd, fl) ==
    /\ watchers' = Monitor(watchers, c, fd, fl)
    /\ stopped' = stopped \ {fd}
    /\ UNCHANGED lib

\* A connection opens a descriptor and has it watched.
Open(c, fd) ==
    /\ owner[fd] = "none"
    /\ owner' = [owner EXCEPT ![fd] = c]
    /\ \E fl \in (SUBSET Flags) \ {{}} : Monitors(c, fd, fl)
    /\ pending' = Keep(fd)
    /\ UNCHANGED <<call, called>>

\* It wants other events of it, or withdraws it before it closes it.
Changes(c, fd) ==
    /\ owner[fd] = c
    /\ \E fl \in SUBSET Flags :
          /\ Monitors(c, fd, fl)
          /\ owner' = IF fl = {} THEN [owner EXCEPT ![fd] = "none"] ELSE owner

-----------------------------------------------------------------------------
(* The loop *)

Poll ==
    /\ pending = {}
    /\ \E fd \in Fds, fl \in SUBSET Flags, error \in BOOLEAN :
          LET e == [fd |-> fd, flags |-> fl \cap watchers[fd].flags, error |-> error] IN
          /\ watchers[fd] # None /\ fd \notin stopped
          /\ error => lib = "uv"
          /\ error \/ e.flags # {}
          /\ \E others \in SUBSET {[fd |-> g, flags |-> watchers[g].flags, error |-> FALSE] :
                                      g \in {g \in Fds \ stopped : watchers[g] # None}} :
                pending' = {e} \cup {p \in others : p.fd # fd}
          /\ stopped' = IF error THEN stopped \cup {fd} ELSE stopped
    /\ UNCHANGED <<lib, watchers, owner, call, called>>

\* Watcher::callback: the connection processes the event, and meanwhile may
\* change what it wants of any of its descriptors.
Callback ==
    \E p \in pending :
        LET fl == IF lib = "uv" THEN UvFlags(p) ELSE EventFlags(p) IN
        /\ call' = [key |-> p.fd, flags |-> fl, odd |-> ~call.odd]
        /\ called' = watchers[p.fd].conn
        /\ \/ /\ pending' = pending \ {p}
              /\ UNCHANGED <<lib, watchers, stopped, owner>>
           \/ \E fd \in Fds : Changes(watchers[p.fd].conn, fd) /\ pending' = Keep(fd) \ {p}

\* The same from outside a callback.
Withdraws ==
    /\ \E c \in Conns, fd \in Fds : Changes(c, fd) /\ pending' = Keep(fd)
    /\ UNCHANGED <<call, called>>

-----------------------------------------------------------------------------
Start ==
    /\ watchers = [fd \in Fds |-> None]
    /\ owner = [fd \in Fds |-> "none"]
    /\ stopped = {} /\ pending = {} /\ called = "none"
    /\ call = [key |-> CHOOSE fd \in Fds : TRUE, flags |-> {}, odd |-> FALSE]

Init == lib \in {"uv", "event"} /\ Start

Next == (\E c \in Conns, fd \in Fds : Open(c, fd)) \/ Withdraws \/ Poll \/ Callback

Spec == Init /\ [][Next]_vars
-----------------------------------------------------------------------------
(* Properties *)

TypeOK ==
    /\ watchers \in [Fds -> [conn : Conns \cup {"none"}, flags : SUBSET Flags]]
    /\ owner \in [Fds -> Conns \cup {"none"}]
    /\ stopped \subseteq Fds
    /\ pending \subseteq [fd : Fds, flags : SUBSET Flags, error : BOOLEAN]
    /\ call \in [key : Fds, flags : SUBSET Flags, odd : BOOLEAN]
    /\ called \in Conns \cup {"none"}

\* A descriptor is watched for the connection it belongs to, also when its
\* number has belonged to another one before (iter->second->events(flags) keeps
\* the connection of the watcher it finds).
WatchedForOwner ==
    \A fd \in Fds :
        /\ watchers[fd] # None => watchers[fd].conn = owner[fd]
        /\ owner[fd] # "none" => watchers[fd] # None

\* Only the connection that owns a descriptor is called for it, whatever the
\* callbacks before it in the same iteration have closed and opened again.
CallsOwner == [][call' # call => called' = owner[call'.key]]_vars

Watch == INSTANCE FdWatch WITH
    Keys <- Fds,
    interest <- [fd \in Fds |-> watchers[fd].flags]

\* Both handlers do what AMQP-CPP asks of them.
IsFdWatch == Watch!Spec
=============================================================================
