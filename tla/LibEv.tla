------------------------------- MODULE LibEv -------------------------------
(***************************************************************************)
(* LibEvHandler, libev.h lines 34-505: the handler that runs AMQP-CPP on a *)
(* libev loop.  Each TcpConnection has a Wrapper, with a Watcher for every *)
(* descriptor and one timer, which guards the setup of the connection and, *)
(* once a heartbeat interval is negotiated, sends heartbeats and closes a  *)
(* connection whose server has been silent for too long.                   *)
(*                                                                         *)
(* libev itself is external: a loop that runs while its count of active    *)
(* watchers is positive, collects what has happened, and calls back.       *)
(* Times are in half seconds and relative to ev_now(): what the code keeps *)
(* as a moment is the time that is left until then.                        *)
(***************************************************************************)
EXTENDS Integers, FiniteSets

CONSTANTS
    Conns,           \* the TCP connections of the program
    Fds,             \* their file descriptors
    Timeouts,        \* heartbeat intervals a server may propose, in seconds
    ConnectTimeout,  \* 60 seconds in the code, in half seconds
    Late,            \* how late the loop may come round to a timer
    MaxRefs          \* bound: references to the loop above it are not counted

VARIABLES
    wrapper,  \* the Wrapper of each connection
    phase,    \* what the connection has come to
    active,   \* events collected by the loop and not called back yet
    fired,    \* timers that have expired and are not called back yet
    call      \* the last call of TcpConnection::process

vars == <<wrapper, phase, active, fired, call>>

Flags == {"readable", "writable"}

\* max(timeout / 2, 1) seconds, and 1.5 * timeout.
Beat(t) == IF t \div 2 > 1 THEN 2 * (t \div 2) ELSE 2
Idle(t) == 3 * t

-----------------------------------------------------------------------------
(* libev *)

\* Mutant: the timer fires once.
AgainOnce(w, r) ==
    [w EXCEPT !.repeat = 0, !.due = r, !.armed = TRUE,
              !.refs = IF w.armed THEN @ ELSE @ + 1]

\* ev_timer_again, with timer.repeat set to r > 0.
Again(w, r) ==
    [w EXCEPT !.repeat = r, !.due = r, !.armed = TRUE,
              !.refs = IF w.armed THEN @ ELSE @ + 1]

\* A timer that has expired is armed again if it repeats, else it is stopped.
Reify(w) ==
    IF w.repeat > 0
    THEN [w EXCEPT !.due = IF @ + w.repeat > 0 THEN @ + w.repeat ELSE 0]
    ELSE [w EXCEPT !.armed = FALSE, !.refs = @ - 1]

\* ev_timer_stop.
StopTimer(w) ==
    [w EXCEPT !.armed = FALSE, !.refs = IF w.armed THEN @ - 1 ELSE @]

-----------------------------------------------------------------------------
(* Wrapper *)

\* refs is what the timer adds to the loop's count of active watchers, in which
\* every watcher of a descriptor counts for one.
NoWrapper ==
    [live |-> FALSE, timed |-> FALSE, timeout |-> 0, next |-> 0, expire |-> 0,
     armed |-> FALSE, due |-> 0, repeat |-> 0, refs |-> 0,
     watch |-> [fd \in Fds |-> {}], beat |-> 0, seen |-> 0]

\* Mutant: the timer is not started.
FreshUntimed == [NoWrapper EXCEPT !.live = TRUE]

\* The constructor starts the timer, and takes it out of the count with ev_unref.
Fresh ==
    [NoWrapper EXCEPT !.live = TRUE, !.timed = TRUE, !.expire = ConnectTimeout,
                      !.armed = TRUE, !.due = ConnectTimeout]

Lookup(w) == IF w.live THEN w ELSE Fresh

\* Wrapper::monitor: remove the watcher, change its events, or make one.
Monitor(w, fd, fl) == [Lookup(w) EXCEPT !.watch[fd] = fl]

\* Every descriptor is withdrawn, or stops itself.
Unwatch(w) == [w EXCEPT !.watch = [fd \in Fds |-> {}]]

Gone(w) ==
    [w EXCEPT !.live = FALSE, !.timed = FALSE, !.timeout = 0,
              !.next = 0, !.expire = 0, !.beat = 0, !.seen = 0]

\* Mutant: the loop's count is not restored.
DestroyUncounted(w) == Gone(IF w.timed THEN StopTimer(Unwatch(w)) ELSE Unwatch(w))

\* The destructor stops the timer only of a wrapper that is timed; the watchers
\* stop themselves.
Destroy(w) ==
    LET v == Unwatch(w)
    IN Gone(IF w.timed THEN [StopTimer(v) EXCEPT !.refs = @ + 1] ELSE v)

Lesser(a, b) == IF a < b THEN a ELSE b

\* Wrapper::start, for onNegotiate.
Start(w, t) ==
    IF t = 0 THEN w
    ELSE Again([w EXCEPT !.timeout = t, !.timed = TRUE, !.next = Beat(t), !.expire = Idle(t),
                         !.beat = 0, !.seen = 0],
               Lesser(Beat(t), Idle(t)))

\* Mutant: what the server sends does not count.
ExtendNothing(w, fl) == IF "readable" \in fl THEN [w EXCEPT !.seen = 0] ELSE w

\* onActive: the server is alive.
Extend(w, fl) ==
    IF "readable" \in fl
    THEN [w EXCEPT !.expire = IF w.timeout # 0 THEN Idle(w.timeout) ELSE @, !.seen = 0]
    ELSE w

\* Mutants: the timer is set for one of the two moments only.
RearmForIdle(w) ==
    LET v == IF w.next <= 0 THEN [w EXCEPT !.next = Beat(w.timeout), !.beat = 0] ELSE w
    IN [Again(v, IF v.expire > 0 THEN v.expire ELSE 1) EXCEPT !.refs = @ - 1]

RearmForBeat(w) ==
    LET v == IF w.next <= 0 THEN [w EXCEPT !.next = Beat(w.timeout), !.beat = 0] ELSE w
    IN [Again(v, v.next) EXCEPT !.refs = @ - 1]

\* The end of onExpired: the next heartbeat if it is time, and the timer again.
Rearm(w) ==
    LET v == IF w.next <= 0 THEN [w EXCEPT !.next = Beat(w.timeout), !.beat = 0] ELSE w
    IN [Again(v, Lesser(v.next, v.expire)) EXCEPT !.refs = @ - 1]

-----------------------------------------------------------------------------
(* TcpConnection *)

Outcome(w, ph, fds, timer) == [wrapper |-> w, phase |-> ph, fds |-> fds, timer |-> timer]

\* LibEvHandler::monitor: another interest in a descriptor.
Rewatches(w, ph) ==
    {Outcome(Monitor(w, x[1], x[2]), ph, {x[1]}, FALSE) : x \in Fds \X SUBSET Flags}

\* onNegotiate, with the interval that the server proposes.
Negotiates(w) == {Outcome(Start(w, t), "tuned", {}, t # 0) : t \in Timeouts}

\* What the connection may do with its handler while it processes an event, or
\* while the user calls it; the descriptors and whether the timer that it
\* stopped lose the events that the loop holds for them.
Reactions(w, ph, read) ==
    {Outcome(w, ph, {}, FALSE), Outcome(Destroy(w), "gone", Fds, w.timed)}
    \cup (IF ph = "lost" THEN {}
          ELSE {Outcome(Unwatch(w), "lost", Fds, FALSE)} \cup Rewatches(w, ph))
    \cup (IF ph = "connecting" /\ read THEN Negotiates(w) ELSE {})
    \cup (IF ph = "tuned" /\ read THEN {Outcome(w, "ready", {}, FALSE)} ELSE {})

Happens(c, r) ==
    /\ wrapper' = [wrapper EXCEPT ![c] = r.wrapper]
    /\ phase' = [phase EXCEPT ![c] = r.phase]
    /\ fired' = IF r.timer THEN fired \ {c} ELSE fired

\* The constructor of a connection, and its first descriptor.
Connect(c) ==
    /\ phase[c] = "none"
    /\ \E fd \in Fds, fl \in (SUBSET Flags) \ {{}} :
          Happens(c, Outcome(Monitor(wrapper[c], fd, fl), "connecting", {fd}, FALSE))
    /\ UNCHANGED <<active, call>>

\* Mutant: the loop keeps what it holds for a watcher that is stopped.
KeepAll(c, fds) == active

Keep(c, fds) == {a \in active : a.conn # c \/ a.fd \notin fds}

\* The user sends something, or lets go of the connection.
UserCalls(c) ==
    /\ phase[c] \notin {"none", "gone"}
    /\ \E r \in Reactions(wrapper[c], phase[c], FALSE) :
          Happens(c, r) /\ active' = Keep(c, r.fds)
    /\ UNCHANGED call

-----------------------------------------------------------------------------
(* The loop *)

\* One iteration collects the descriptors that are ready, and the timers.
Poll ==
    /\ active = {} /\ fired = {}
    /\ LET due == {c \in Conns : wrapper[c].armed /\ wrapper[c].due <= 0} IN
       /\ \E happened \in [Conns \X Fds -> SUBSET Flags] :
             active' = {a \in [conn : Conns, fd : Fds, flags : (SUBSET Flags) \ {{}}] :
                           a.flags = happened[<<a.conn, a.fd>>] \cap wrapper[a.conn].watch[a.fd]}
       /\ fired' = due
       /\ wrapper' = [c \in Conns |-> IF c \in due THEN Reify(wrapper[c]) ELSE wrapper[c]]
    /\ UNCHANGED <<phase, call>>

\* Watcher::callback and Wrapper::onActive.
OnActive(c) ==
    \E a \in active :
        /\ a.conn = c
        /\ \E r \in Reactions(Extend(wrapper[c], a.flags), phase[c], "readable" \in a.flags) :
              Happens(c, r) /\ active' = Keep(c, r.fds) \ {a}
        /\ call' = [key |-> <<c, a.fd>>, flags |-> a.flags, odd |-> ~call.odd]

\* Wrapper::onExpired.  A timer that is called after its wrapper is gone uses
\* freed memory; what happens then is undefined, and here the loop stops.
OnExpired(c) ==
    /\ c \in fired /\ wrapper[c].live
    /\ fired' = fired \ {c}
    /\ LET w == [wrapper[c] EXCEPT !.refs = Lesser(@ + 1, MaxRefs)]
           idle == w.timeout # 0 /\ w.expire <= 0
           off == [w EXCEPT !.timed = FALSE, !.timeout = 0]
       IN \/ /\ w.timeout = 0 /\ phase[c] = "ready"
             /\ wrapper' = [wrapper EXCEPT ![c] = off]
             /\ UNCHANGED <<phase, active>>
          \/ /\ w.timeout = 0 /\ phase[c] # "ready"       \* close(true)
             /\ wrapper' = [wrapper EXCEPT ![c] = Unwatch(off)]
             /\ phase' = [phase EXCEPT ![c] = "lost"]
             /\ active' = Keep(c, Fds)
          \/ /\ idle                                      \* close()
             /\ wrapper' = [wrapper EXCEPT ![c] = off]
             /\ \E ph \in {phase[c], "closing"} :
                   /\ ph # phase[c] => phase[c] = "ready"
                   /\ phase' = [phase EXCEPT ![c] = ph]
             /\ UNCHANGED active
          \/ /\ w.timeout # 0 /\ ~idle
             /\ wrapper' = [wrapper EXCEPT ![c] = Rearm(w)]
             /\ UNCHANGED <<phase, active>>
    /\ UNCHANGED call

\* Half a second passes while the loop waits.
Older(w) ==
    LET v == IF w.armed THEN [w EXCEPT !.due = @ - 1] ELSE w
    IN IF ~w.timed THEN v
       ELSE IF w.timeout = 0 THEN [v EXCEPT !.expire = @ - 1]
       ELSE [v EXCEPT !.expire = @ - 1, !.next = @ - 1, !.beat = @ + 1, !.seen = @ + 1]

Tick ==
    /\ active = {} /\ fired = {}
    /\ \A c \in Conns : wrapper[c].armed => wrapper[c].due > -Late
    /\ wrapper' = [c \in Conns |-> Older(wrapper[c])]
    /\ UNCHANGED <<phase, active, fired, call>>

-----------------------------------------------------------------------------
Init ==
    /\ wrapper = [c \in Conns |-> NoWrapper]
    /\ phase = [c \in Conns |-> "none"]
    /\ active = {} /\ fired = {}
    /\ call = [key |-> CHOOSE k \in Conns \X Fds : TRUE, flags |-> {}, odd |-> FALSE]

Callbacks == \E c \in Conns : OnActive(c) \/ OnExpired(c)

Next ==
    \/ \E c \in Conns : Connect(c) \/ UserCalls(c)
    \/ Poll \/ Callbacks \/ Tick

Spec == Init /\ [][Next]_vars

\* The loop runs and time passes; the connections need not do anything.
FairSpec == Spec /\ WF_vars(Poll) /\ WF_vars(Callbacks) /\ SF_vars(Tick)
-----------------------------------------------------------------------------
(* Properties *)

Phases == {"none", "connecting", "tuned", "ready", "closing", "lost", "gone"}

WrapperOK(w) ==
    /\ {w.live, w.timed, w.armed} \subseteq BOOLEAN
    /\ w.timeout \in Timeouts \cup {0}
    /\ {w.next, w.expire, w.due, w.refs} \subseteq Int
    /\ {w.repeat, w.beat, w.seen} \subseteq Nat
    /\ w.watch \in [Fds -> SUBSET Flags]

\* The type invariant; a timer waits no longer than the loop may be late.
TypeOK ==
    /\ \A c \in Conns : WrapperOK(wrapper[c]) /\ phase[c] \in Phases
    /\ \A c \in Conns : wrapper[c].armed => wrapper[c].due >= -Late
    /\ \A a \in active : wrapper[a.conn].watch[a.fd] # {}
    /\ fired \subseteq Conns

\* libev.h 161-166: while an interval is negotiated a heartbeat is sent every
\* timeout / 2 seconds, however the events of the descriptors move the moment
\* at which the connection expires and the timer is set for either.
HeartbeatsInTime ==
    \A c \in Conns : wrapper[c].timeout # 0 => wrapper[c].beat <= Beat(wrapper[c].timeout) + Late

\* A server that is silent for 1.5 times the interval is noticed ...
IdleNoticed ==
    \A c \in Conns : wrapper[c].timeout # 0 => wrapper[c].seen <= Idle(wrapper[c].timeout) + Late

\* ... and no other: a connection whose server has been heard from within that
\* time keeps its heartbeats.
ClosesIdleOnly ==
    [][\A c \in Conns :
          (wrapper[c].timeout # 0 /\ wrapper'[c].timeout = 0 /\ wrapper'[c].live)
              => wrapper[c].seen >= Idle(wrapper[c].timeout)]_vars

\* The ev_ref and ev_unref around the timer leave the loop with at least the
\* watchers of the descriptors, so it does not end while one is watched; and
\* with no more than those, unless a timer runs that is not needed any more: that
\* of a connection whose server was idle, each expiry of which counts once more,
\* although "the timer should not keep the event loop active" (libev.h 319).
LoopCountsWatchers ==
    \A c \in Conns \ fired :
        /\ wrapper[c].refs >= 0
        /\ wrapper[c].refs > 0 => wrapper[c].armed /\ ~wrapper[c].timed

\* The destructor of the wrapper: "the timer was already stopped" if it is not
\* timed (libev.h 334-336), so no timer outlives its wrapper.
TimerStopped == \A c \in Conns : ~wrapper[c].live => ~wrapper[c].armed /\ c \notin fired

\* A connection that is not set up within the connect timeout is closed.
ConnectTimesOut == \A c \in Conns : (phase[c] = "connecting") ~> (phase[c] # "connecting")

\* A close that waits for a server that is idle does not wait for ever.
ClosingEnds == \A c \in Conns : (phase[c] = "closing") ~> (phase[c] # "closing")

Watch == INSTANCE FdWatch WITH
    Keys <- Conns \X Fds,
    interest <- [k \in Conns \X Fds |-> wrapper[k[1]].watch[k[2]]]

\* The handler does what AMQP-CPP asks of it: no call for an event that has been
\* withdrawn while the loop held it.
IsFdWatch == Watch!Spec
=============================================================================
