-------------------------- MODULE EventLoopsProofs --------------------------
(***************************************************************************)
(* The handlers that AMQP-CPP is shipped with, in a program that runs one  *)
(* of them, for any connections and descriptors.                           *)
(*                                                                         *)
(* libev: the ev_ref and ev_unref around the timer of a connection never   *)
(* leave the loop with fewer watchers than it has, and with more only for  *)
(* a timer that runs on after its server was silent, for any heartbeat     *)
(* intervals, and however late the loop is.  A                             *)
(* timer that has fired is in between: the loop has stopped it, and        *)
(* counted it, if it does not repeat.  A timer that is not needed any more *)
(* but was not stopped repeats, so the loop never stops it itself.  And    *)
(* the heartbeats are sent in time, and a silent server is noticed in      *)
(* time and no other: the moments that the code keeps and the time that    *)
(* has passed make up the interval, and the timer is set for neither of    *)
(* them too late.                                                          *)
(*                                                                         *)
(* libuv and libevent: a watcher calls the connection that its descriptor  *)
(* belongs to, though the watcher keeps the connection that it was made    *)
(* for.  The loop holds events only for descriptors that are watched,      *)
(* since a change of a watcher drops them.                                 *)
(*                                                                         *)
(* boost::asio: no event that is wanted is ever left without an operation, *)
(* for any number of operations.                                           *)
(*                                                                         *)
(* And all of them do what AMQP-CPP asks of an event loop.                 *)
(***************************************************************************)
EXTENDS EventLoops, TLAPS

-----------------------------------------------------------------------------
(* libev *)

EFlags == Ev!Flags

EWatch == [EvFds -> SUBSET EFlags]

ECall == [key : Conns \X EvFds, flags : SUBSET EFlags, odd : BOOLEAN]

EWrapper ==
    [live : BOOLEAN, timed : BOOLEAN, timeout : Int, next : Int, expire : Int,
     armed : BOOLEAN, due : Int, repeat : Int, refs : Int, watch : EWatch,
     beat : Int, seen : Int]

\* What its timer adds to the count of the loop; f says whether it has fired.
Counted(w, f) ==
    /\ ~w.timed => /\ w.refs >= 0 /\ (w.armed => w.repeat > 0)
                   /\ (f => w.armed) /\ (~w.armed => w.refs = 0)
    /\ w.timed /\ ~f => w.armed /\ w.refs = 0
    /\ w.timed /\ f => \/ w.armed /\ w.repeat > 0 /\ w.refs = 0
                       \/ ~w.armed /\ w.refs = -1

Empty(w) == \A fd \in EvFds : w.watch[fd] = {}

\* The timer is needed until the connection is set up.
ConnInv(w, ph, f) ==
    /\ w \in EWrapper /\ Counted(w, f)
    /\ ph \in Ev!Phases
    /\ ph = "none" => ~f /\ ~w.armed
    /\ ph \in {"none", "gone"} => Empty(w)
    /\ w.live <=> ph \notin {"none", "gone"}
    /\ ph = "connecting" => w.timed /\ w.timeout = 0
    /\ w.timeout # 0 => w.timed

\* An event that the loop holds is one that its watcher waits for.
Waited(a, w) ==
    /\ a \in [conn : Conns, fd : EvFds, flags : SUBSET EFlags]
    /\ a.flags # {} /\ a.flags \subseteq w.watch[a.fd]

EvInv ==
    /\ wrapper \in [Conns -> EWrapper] /\ phase \in [Conns -> Ev!Phases]
    /\ \A c \in Conns : ConnInv(wrapper[c], phase[c], c \in fired)
    /\ fired \subseteq Conns
    /\ \A a \in active : Waited(a, wrapper[a.conn])
    /\ evCall \in ECall

-----------------------------------------------------------------------------
\* The operations of a Wrapper.
LEMMA NoWrapperOK ==
    /\ Ev!NoWrapper \in EWrapper /\ Counted(Ev!NoWrapper, FALSE) /\ Empty(Ev!NoWrapper)
    /\ ~Ev!NoWrapper.timed /\ Ev!NoWrapper.timeout = 0 /\ ~Ev!NoWrapper.live
<1>1. [fd \in EvFds |-> {}] \in EWatch
    BY DEF EWatch
<1>2. Ev!NoWrapper \in EWrapper
    BY <1>1 DEF Ev!NoWrapper, EWrapper
<1>3. /\ Ev!NoWrapper.watch = [fd \in EvFds |-> {}] /\ Ev!NoWrapper.refs = 0
      /\ ~Ev!NoWrapper.timed /\ ~Ev!NoWrapper.armed /\ Ev!NoWrapper.timeout = 0
      /\ ~Ev!NoWrapper.live
    BY DEF Ev!NoWrapper
<1> QED BY <1>2, <1>3 DEF Counted, Empty

LEMMA FreshOK ==
    /\ Ev!Fresh \in EWrapper /\ Counted(Ev!Fresh, FALSE) /\ Ev!Fresh.watch = Ev!NoWrapper.watch
    /\ Ev!Fresh.timed /\ Ev!Fresh.timeout = 0 /\ Ev!Fresh.live
<1> DEFINE n == Ev!NoWrapper
<1>1. n \in EWrapper /\ n.refs = 0 /\ n.timeout = 0
    BY NoWrapperOK DEF Ev!NoWrapper
<1>2. ConnectTimeout \in Int
    BY EventLoopsAssumption
<1>3. Ev!Fresh = [n EXCEPT !.live = TRUE, !.timed = TRUE, !.expire = ConnectTimeout,
                           !.armed = TRUE, !.due = ConnectTimeout]
    BY DEF Ev!Fresh
<1> HIDE DEF n
<1>4. /\ Ev!Fresh \in EWrapper /\ Ev!Fresh.watch = n.watch
      /\ Ev!Fresh.timed /\ Ev!Fresh.timeout = 0 /\ Ev!Fresh.live
      /\ Ev!Fresh.armed /\ Ev!Fresh.refs = 0
    BY <1>1, <1>2, <1>3 DEF EWrapper
<1> QED BY <1>4 DEF Counted, n

\* What concerns the descriptors leaves the timer alone.
LEMMA WatchOK ==
    ASSUME NEW w \in EWrapper, NEW x \in EWatch
    PROVE LET v == [w EXCEPT !.watch = x]
          IN /\ v \in EWrapper /\ v.watch = x
             /\ v.live = w.live /\ v.timed = w.timed /\ v.timeout = w.timeout
             /\ v.armed = w.armed /\ v.repeat = w.repeat /\ v.refs = w.refs
BY DEF EWrapper

LEMMA UnwatchOK ==
    ASSUME NEW w \in EWrapper
    PROVE LET v == Ev!Unwatch(w)
          IN /\ v \in EWrapper /\ Empty(v)
             /\ v.live = w.live /\ v.timed = w.timed /\ v.timeout = w.timeout
             /\ v.armed = w.armed /\ v.repeat = w.repeat /\ v.refs = w.refs
<1> DEFINE x == [fd \in EvFds |-> {}]
<1>1. x \in EWatch
    BY DEF EWatch
<1>2. Ev!Unwatch(w) = [w EXCEPT !.watch = x]
    BY DEF Ev!Unwatch
<1>3. \A fd \in EvFds : x[fd] = {}
    OBVIOUS
<1> HIDE DEF x
<1> QED BY <1>1, <1>2, <1>3, WatchOK DEF Empty

LEMMA MonitorOK ==
    ASSUME NEW w \in EWrapper, w.live, NEW fd \in EvFds, NEW fl \in SUBSET EFlags
    PROVE LET v == Ev!Monitor(w, fd, fl)
          IN /\ v \in EWrapper /\ v.watch = [w.watch EXCEPT ![fd] = fl]
             /\ v.live = w.live /\ v.timed = w.timed /\ v.timeout = w.timeout
             /\ v.armed = w.armed /\ v.repeat = w.repeat /\ v.refs = w.refs
<1> DEFINE x == [w.watch EXCEPT ![fd] = fl]
<1>1. w.watch \in EWatch
    BY DEF EWrapper
<1>2. x \in EWatch
    BY <1>1 DEF EWatch
<1>3. Ev!Monitor(w, fd, fl) = [w EXCEPT !.watch[fd] = fl]
    BY DEF Ev!Monitor, Ev!Lookup
<1>4. [w EXCEPT !.watch[fd] = fl] = [w EXCEPT !.watch = x]
    OBVIOUS
<1> HIDE DEF x
<1> DEFINE v == [w EXCEPT !.watch = x]
<1>5. /\ v \in EWrapper /\ v.watch = x
      /\ v.live = w.live /\ v.timed = w.timed /\ v.timeout = w.timeout
      /\ v.armed = w.armed /\ v.repeat = w.repeat /\ v.refs = w.refs
    BY <1>2, WatchOK
<1> HIDE DEF v
<1>6. Ev!Monitor(w, fd, fl) = v
    BY <1>3, <1>4 DEF v
<1> QED BY <1>5, <1>6 DEF x

\* The first descriptor of a connection.
LEMMA FirstOK ==
    ASSUME NEW w \in EWrapper, NEW f \in BOOLEAN, ~w.live \/ ~f,
           ~w.live \/ (w.timed /\ w.timeout = 0 /\ Counted(w, f)),
           NEW fd \in EvFds, NEW fl \in SUBSET EFlags
    PROVE LET v == Ev!Monitor(w, fd, fl)
          IN /\ v \in EWrapper /\ Counted(v, FALSE)
             /\ v.live /\ v.timed /\ v.timeout = 0
<1> DEFINE u == Ev!Lookup(w)
           x == [u.watch EXCEPT ![fd] = fl]
<1>1. u \in EWrapper /\ u.live /\ u.timed /\ u.timeout = 0 /\ Counted(u, FALSE)
    <2>1. CASE w.live
        BY <2>1 DEF Ev!Lookup, Counted
    <2>2. CASE ~w.live
        BY <2>2, FreshOK DEF Ev!Lookup
    <2> QED BY <2>1, <2>2
<1>2. Ev!Monitor(w, fd, fl) = [u EXCEPT !.watch[fd] = fl]
    BY DEF Ev!Monitor
<1> HIDE DEF u
<1>3. [u EXCEPT !.watch[fd] = fl] = [u EXCEPT !.watch = x]
    OBVIOUS
<1>4. u.watch \in EWatch
    BY <1>1 DEF EWrapper
<1>5. x \in EWatch
    BY <1>4 DEF EWatch
<1> HIDE DEF x
<1> DEFINE v == [u EXCEPT !.watch = x]
<1>6. /\ v \in EWrapper /\ v.live = u.live /\ v.timed = u.timed /\ v.timeout = u.timeout
      /\ v.armed = u.armed /\ v.repeat = u.repeat /\ v.refs = u.refs
    BY <1>1, <1>5, WatchOK
<1> HIDE DEF v
<1>7. Ev!Monitor(w, fd, fl) = v
    BY <1>2, <1>3 DEF v
<1> QED BY <1>1, <1>6, <1>7 DEF Counted

\* What concerns the moments that the timer waits for, but not the timer itself.
Same(v, w) ==
    /\ v \in EWrapper /\ v.watch = w.watch /\ v.live = w.live /\ v.timed = w.timed
    /\ v.armed = w.armed /\ v.repeat = w.repeat /\ v.refs = w.refs

LEMMA MomentOK ==
    ASSUME NEW w \in EWrapper, NEW n \in Int
    PROVE /\ Same([w EXCEPT !.timeout = n], w)
          /\ Same([w EXCEPT !.next = n], w) /\ [w EXCEPT !.next = n].timeout = w.timeout
          /\ Same([w EXCEPT !.expire = n], w) /\ [w EXCEPT !.expire = n].timeout = w.timeout
          /\ Same([w EXCEPT !.beat = n], w) /\ [w EXCEPT !.beat = n].timeout = w.timeout
          /\ Same([w EXCEPT !.seen = n], w) /\ [w EXCEPT !.seen = n].timeout = w.timeout
          /\ Same([w EXCEPT !.due = n], w) /\ [w EXCEPT !.due = n].timeout = w.timeout
<1>1. Same([w EXCEPT !.timeout = n], w)
    BY DEF Same, EWrapper
<1>2. Same([w EXCEPT !.next = n], w) /\ [w EXCEPT !.next = n].timeout = w.timeout
    BY DEF Same, EWrapper
<1>3. Same([w EXCEPT !.expire = n], w) /\ [w EXCEPT !.expire = n].timeout = w.timeout
    BY DEF Same, EWrapper
<1>4. Same([w EXCEPT !.beat = n], w) /\ [w EXCEPT !.beat = n].timeout = w.timeout
    BY DEF Same, EWrapper
<1>5. Same([w EXCEPT !.seen = n], w) /\ [w EXCEPT !.seen = n].timeout = w.timeout
    BY DEF Same, EWrapper
<1>6. Same([w EXCEPT !.due = n], w) /\ [w EXCEPT !.due = n].timeout = w.timeout
    BY DEF Same, EWrapper
<1> QED BY <1>1, <1>2, <1>3, <1>4, <1>5, <1>6

\* A heartbeat interval.
LEMMA IntervalOK ==
    ASSUME NEW w \in EWrapper, NEW t \in Int, NEW b \in Int, NEW i \in Int,
           NEW z \in Int
    PROVE LET v == [w EXCEPT !.timeout = t, !.next = b, !.expire = i, !.beat = z, !.seen = z]
          IN Same(v, w) /\ v.timeout = t
<1> DEFINE w1 == [w EXCEPT !.timeout = t]
           w2 == [w1 EXCEPT !.next = b]
           w3 == [w2 EXCEPT !.expire = i]
           w4 == [w3 EXCEPT !.beat = z]
           w5 == [w4 EXCEPT !.seen = z]
<1>1. [w EXCEPT !.timeout = t, !.next = b, !.expire = i, !.beat = z, !.seen = z] = w5
    OBVIOUS
<1>2. Same(w1, w) /\ w1.timeout = t
    BY MomentOK DEF EWrapper
<1> HIDE DEF w1
<1>3. w1 \in EWrapper
    BY <1>2 DEF Same
<1>4. Same(w2, w1) /\ w2.timeout = w1.timeout
    BY <1>3, MomentOK
<1> HIDE DEF w2
<1>5. w2 \in EWrapper
    BY <1>4 DEF Same
<1>6. Same(w3, w2) /\ w3.timeout = w2.timeout
    BY <1>5, MomentOK
<1> HIDE DEF w3
<1>8. w3 \in EWrapper
    BY <1>6 DEF Same
<1>9. Same(w4, w3) /\ w4.timeout = w3.timeout
    BY <1>8, MomentOK
<1> HIDE DEF w4
<1>10. w4 \in EWrapper
    BY <1>9 DEF Same
<1>11. Same(w5, w4) /\ w5.timeout = w4.timeout
    BY <1>10, MomentOK
<1> HIDE DEF w5
<1>12. Same(w3, w) /\ w3.timeout = t
    BY <1>2, <1>4, <1>6 DEF Same
<1>7. Same(w5, w) /\ w5.timeout = t
    BY <1>9, <1>11, <1>12 DEF Same
<1> QED BY <1>1, <1>7

LEMMA GoneOK ==
    ASSUME NEW w \in EWrapper
    PROVE LET v == Ev!Gone(w)
          IN /\ v \in EWrapper /\ v.watch = w.watch /\ v.refs = w.refs /\ v.armed = w.armed
             /\ v.repeat = w.repeat /\ v.timed = FALSE /\ v.timeout = 0 /\ v.live = FALSE
<1> DEFINE z == 0
           q == [w EXCEPT !.timeout = z, !.next = z, !.expire = z, !.beat = z, !.seen = z]
           p == [q EXCEPT !.live = FALSE]
           v == Ev!Gone(w)
<1>1. v = [p EXCEPT !.timed = FALSE]
    BY DEF Ev!Gone
<1> HIDE DEF v, p
<1>2. Same(q, w) /\ q.timeout = 0
    <2>1. z \in Int
        OBVIOUS
    <2>2. Same(q, w)
        <3> HIDE DEF z
        <3> QED BY <2>1, IntervalOK
    <2>3. q.timeout = z
        BY DEF EWrapper
    <2> QED BY <2>2, <2>3
<1> HIDE DEF q
<1>3. /\ p \in EWrapper /\ p.watch = q.watch /\ p.refs = q.refs /\ p.armed = q.armed
      /\ p.repeat = q.repeat /\ p.timeout = q.timeout /\ p.live = FALSE
    BY <1>2 DEF Same, EWrapper, p
<1>4. /\ v \in EWrapper /\ v.watch = p.watch /\ v.refs = p.refs /\ v.armed = p.armed
      /\ v.repeat = p.repeat /\ v.timed = FALSE /\ v.timeout = p.timeout /\ v.live = p.live
    BY <1>1, <1>3 DEF EWrapper
<1> QED BY <1>2, <1>3, <1>4 DEF Same, v

\* The destructor leaves nothing of the timer in the count.
LEMMA DestroyOK ==
    ASSUME NEW w \in EWrapper, NEW f \in BOOLEAN, Counted(w, f),
           NEW g \in BOOLEAN, g => f /\ ~w.timed
    PROVE LET v == Ev!Destroy(w)
          IN /\ v \in EWrapper /\ Empty(v) /\ Counted(v, g)
             /\ ~v.timed /\ v.timeout = 0 /\ ~v.live
<1> DEFINE u == Ev!Unwatch(w)
           t == Ev!StopTimer(u)
           s == IF w.timed THEN [t EXCEPT !.refs = @ + 1] ELSE u
           v == Ev!Gone(s)
<1>1. /\ u \in EWrapper /\ Empty(u) /\ u.timed = w.timed /\ u.armed = w.armed
      /\ u.repeat = w.repeat /\ u.refs = w.refs
    BY UnwatchOK
<1>2. Ev!Destroy(w) = v
    BY DEF Ev!Destroy
<1> HIDE DEF u
<1> DEFINE n == IF u.armed THEN u.refs - 1 ELSE u.refs
<1>3. n \in Int
    BY <1>1 DEF EWrapper
<1>4. t = [u EXCEPT !.armed = FALSE, !.refs = n]
    BY <1>1 DEF Ev!StopTimer, EWrapper
<1> HIDE DEF n, t
<1>5. t \in EWrapper /\ t.watch = u.watch /\ t.armed = FALSE /\ t.refs = n
    BY <1>1, <1>3, <1>4 DEF EWrapper
<1>6. /\ s \in EWrapper /\ s.watch = u.watch /\ s.refs >= 0 /\ (s.armed => s.repeat > 0)
      /\ (g => s.armed) /\ (~s.armed => s.refs = 0)
    <2>1. CASE ~w.timed
        BY <1>1, <2>1 DEF Counted
    <2>2. CASE w.timed
        <3>1. n + 1 = 0
            BY <1>1, <2>2 DEF Counted, EWrapper, n
        <3>2. s = [t EXCEPT !.refs = n + 1]
            BY <1>5, <2>2
        <3>3. s \in EWrapper /\ s.watch = u.watch /\ s.refs = 0 /\ s.armed = FALSE
            <4> HIDE DEF s
            <4> QED BY <1>3, <1>5, <3>1, <3>2 DEF EWrapper
        <3>4. ~g
            BY <2>2
        <3> HIDE DEF s
        <3> QED BY <3>3, <3>4
    <2> QED BY <2>1, <2>2
<1> HIDE DEF s
<1>7. /\ v \in EWrapper /\ v.watch = s.watch /\ v.refs = s.refs /\ v.armed = s.armed
      /\ v.repeat = s.repeat /\ v.timed = FALSE /\ v.timeout = 0 /\ v.live = FALSE
    BY <1>6, GoneOK
<1> HIDE DEF v
<1> QED BY <1>1, <1>2, <1>6, <1>7 DEF Empty, Counted

\* ev_timer_again counts for a timer that is not active.
LEMMA AgainOK ==
    ASSUME NEW w \in EWrapper, NEW r \in Int
    PROVE LET v == Ev!Again(w, r)
          IN /\ v \in EWrapper /\ v.watch = w.watch /\ v.live = w.live /\ v.timed = w.timed
             /\ v.timeout = w.timeout /\ v.armed = TRUE
             /\ v.refs = IF w.armed THEN w.refs ELSE w.refs + 1
<1> DEFINE n == IF w.armed THEN w.refs ELSE w.refs + 1
<1>1. n \in Int
    BY DEF EWrapper
<1>2. Ev!Again(w, r) = [w EXCEPT !.repeat = r, !.due = r, !.armed = TRUE, !.refs = n]
    BY DEF Ev!Again
<1> HIDE DEF n
<1>3. LET v == Ev!Again(w, r)
      IN /\ v \in EWrapper /\ v.watch = w.watch /\ v.live = w.live /\ v.timed = w.timed
         /\ v.timeout = w.timeout /\ v.armed = TRUE /\ v.refs = n
    BY <1>1, <1>2 DEF EWrapper
<1> QED BY <1>3 DEF n

LEMMA TimesOK ==
    ASSUME NEW t \in Int
    PROVE Ev!Beat(t) \in Int /\ Ev!Idle(t) \in Int
BY DEF Ev!Beat, Ev!Idle

\* start(): the timer counts for nothing, whether it had fired or not.
LEMMA StartOK ==
    ASSUME NEW w \in EWrapper, NEW f \in BOOLEAN, Counted(w, f), w.timed,
           NEW t \in Int, t # 0
    PROVE LET v == Ev!Start(w, t)
          IN /\ v \in EWrapper /\ Counted(v, FALSE) /\ v.watch = w.watch
             /\ v.live = w.live /\ v.timed
<1> DEFINE b == Ev!Beat(t)
           i == Ev!Idle(t)
           r == Ev!Lesser(b, i)
           u == [w EXCEPT !.timeout = t, !.timed = TRUE, !.next = b, !.expire = i,
                          !.beat = 0, !.seen = 0]
           v == Ev!Again(u, r)
<1>1. Ev!Start(w, t) = v
    BY DEF Ev!Start
<1>2. b \in Int /\ i \in Int
    BY TimesOK
<1> HIDE DEF b, i
<1>3. r \in Int
    BY <1>2 DEF Ev!Lesser
<1> HIDE DEF r
<1> DEFINE z == 0
           q == [w EXCEPT !.timeout = t, !.next = b, !.expire = i, !.beat = z, !.seen = z]
<1>4. /\ u \in EWrapper /\ u.watch = w.watch /\ u.live = w.live /\ u.timed = TRUE
      /\ u.armed = w.armed /\ u.refs = w.refs
    <2>1. u = q
        BY DEF EWrapper
    <2> HIDE DEF u
    <2>2. Same(q, w)
        <3>1. z \in Int
            OBVIOUS
        <3> HIDE DEF z
        <3> QED BY <1>2, <3>1, IntervalOK
    <2> HIDE DEF q
    <2> QED BY <2>1, <2>2 DEF Same
<1> HIDE DEF u
<1>5. /\ v \in EWrapper /\ v.watch = u.watch /\ v.live = u.live /\ v.timed = u.timed
      /\ v.armed = TRUE /\ v.refs = IF u.armed THEN u.refs ELSE u.refs + 1
    <2>1. u \in EWrapper
        BY <1>4
    <2> QED BY <1>3, <2>1, AgainOK
<1> HIDE DEF v
<1>6. v.refs = 0
    BY <1>4, <1>5 DEF Counted
<1> QED BY <1>1, <1>4, <1>5, <1>6 DEF Counted

\* onExpired: the timer that has fired is taken out of the count.
LEMMA RearmOK ==
    ASSUME NEW w \in EWrapper, w.timed, w.refs = IF w.armed THEN 1 ELSE 0
    PROVE LET v == Ev!Rearm(w)
          IN /\ v \in EWrapper /\ Counted(v, FALSE) /\ v.watch = w.watch /\ v.live = w.live
             /\ v.timed = w.timed /\ v.timeout = w.timeout
<1> DEFINE b == Ev!Beat(w.timeout)
           u == IF w.next <= 0 THEN [w EXCEPT !.next = b, !.beat = 0] ELSE w
           r == Ev!Lesser(u.next, u.expire)
           x == Ev!Again(u, r)
           v == [x EXCEPT !.refs = @ - 1]
<1>1. Ev!Rearm(w) = v
    BY DEF Ev!Rearm
<1>2. b \in Int
    BY TimesOK DEF EWrapper
<1> HIDE DEF b
<1>3. /\ u \in EWrapper /\ u.watch = w.watch /\ u.live = w.live /\ u.timed = w.timed
      /\ u.timeout = w.timeout /\ u.armed = w.armed /\ u.refs = w.refs
    <2>1. CASE w.next <= 0
        <3>1. u = [w EXCEPT !.next = b, !.beat = 0]
            BY <2>1
        <3> DEFINE q == [w EXCEPT !.next = b]
        <3>2. Same(q, w) /\ q.timeout = w.timeout /\ q \in EWrapper
            BY <1>2, MomentOK DEF Same
        <3> DEFINE z == 0
        <3>3. u = [q EXCEPT !.beat = z] /\ z \in Int
            BY <3>1
        <3> HIDE DEF q, u, z
        <3>4. Same(u, q) /\ u.timeout = q.timeout
            BY <3>2, <3>3, MomentOK
        <3> QED BY <3>2, <3>4 DEF Same
    <2>2. CASE ~(w.next <= 0)
        BY <2>2
    <2> QED BY <2>1, <2>2
<1> HIDE DEF u
<1>4. r \in Int
    BY <1>3 DEF Ev!Lesser, EWrapper
<1> HIDE DEF r
<1>5. /\ x \in EWrapper /\ x.watch = u.watch /\ x.live = u.live /\ x.timed = u.timed
      /\ x.timeout = u.timeout /\ x.armed = TRUE
      /\ x.refs = IF u.armed THEN u.refs ELSE u.refs + 1
    <2>1. u \in EWrapper
        BY <1>3
    <2> QED BY <1>4, <2>1, AgainOK
<1> HIDE DEF x
<1>6. x.refs = 1
    BY <1>3, <1>5
<1>7. v = [x EXCEPT !.refs = 0]
    BY <1>6
<1> HIDE DEF v
<1>8. /\ v \in EWrapper /\ v.watch = x.watch /\ v.live = x.live /\ v.timed = x.timed
      /\ v.timeout = x.timeout /\ v.armed = x.armed /\ v.refs = 0
    BY <1>5, <1>7 DEF EWrapper
<1> QED BY <1>1, <1>3, <1>5, <1>8 DEF Counted

-----------------------------------------------------------------------------
\* What is invariant about a connection is so after a change of moments.
LEMMA SameInv ==
    ASSUME NEW w, NEW v, Same(v, w), v.timeout = w.timeout, NEW ph, NEW f \in BOOLEAN,
           ConnInv(w, ph, f)
    PROVE ConnInv(v, ph, f)
<1>1. v \in EWrapper /\ Counted(v, f)
    BY DEF Same, ConnInv, Counted
<1>2. /\ ph \in Ev!Phases /\ (ph = "none" => ~f /\ ~v.armed)
      /\ (v.live <=> ph \notin {"none", "gone"})
      /\ (ph = "connecting" => v.timed /\ v.timeout = 0) /\ (v.timeout # 0 => v.timed)
    BY DEF Same, ConnInv
<1>3. ph \in {"none", "gone"} => Empty(v)
    BY DEF Same, ConnInv, Empty
<1> QED BY <1>1, <1>2, <1>3 DEF ConnInv

Kept(w, f, r) ==
    /\ ConnInv(r.wrapper, r.phase, f /\ ~r.timer) /\ r.timer \in BOOLEAN
    /\ \A fd \in EvFds : fd \notin r.fds => r.wrapper.watch[fd] = w.watch[fd]

\* What a connection may do.
Reacts(w, ph, r) ==
    \/ r = Ev!Outcome(w, ph, {}, FALSE)
    \/ r = Ev!Outcome(Ev!Destroy(w), "gone", EvFds, w.timed)
    \/ r = Ev!Outcome(Ev!Unwatch(w), "lost", EvFds, FALSE)
    \/ \E fd \in EvFds, fl \in SUBSET EFlags :
          r = Ev!Outcome(Ev!Monitor(w, fd, fl), ph, {fd}, FALSE)
    \/ ph = "connecting"
       /\ \E t \in Timeouts : r = Ev!Outcome(Ev!Start(w, t), "tuned", {}, t # 0)
    \/ r = Ev!Outcome(w, "ready", {}, FALSE)

LEMMA ReactionCases ==
    ASSUME NEW w, NEW ph, NEW read \in BOOLEAN, NEW r \in Ev!Reactions(w, ph, read)
    PROVE  Reacts(w, ph, r)
<1> DEFINE X == IF ph = "lost" THEN {}
                ELSE {Ev!Outcome(Ev!Unwatch(w), "lost", EvFds, FALSE)} \cup Ev!Rewatches(w, ph)
           Y == IF ph = "connecting" /\ read THEN Ev!Negotiates(w) ELSE {}
           Z == IF ph = "tuned" /\ read THEN {Ev!Outcome(w, "ready", {}, FALSE)} ELSE {}
<1>1. r \in {Ev!Outcome(w, ph, {}, FALSE), Ev!Outcome(Ev!Destroy(w), "gone", EvFds, w.timed)}
           \cup X \cup Y \cup Z
    BY DEF Ev!Reactions
<1>2. r \in X => r = Ev!Outcome(Ev!Unwatch(w), "lost", EvFds, FALSE) \/ r \in Ev!Rewatches(w, ph)
    OBVIOUS
<1>3. r \in Y => ph = "connecting" /\ r \in Ev!Negotiates(w)
    OBVIOUS
<1>4. r \in Z => r = Ev!Outcome(w, "ready", {}, FALSE)
    OBVIOUS
<1>5. r \in Ev!Rewatches(w, ph) => \E fd \in EvFds, fl \in SUBSET EFlags :
                                    r = Ev!Outcome(Ev!Monitor(w, fd, fl), ph, {fd}, FALSE)
    <2>1. r \in Ev!Rewatches(w, ph) => \E x \in EvFds \X SUBSET EFlags :
              r = Ev!Outcome(Ev!Monitor(w, x[1], x[2]), ph, {x[1]}, FALSE)
        BY DEF Ev!Rewatches, EFlags
    <2>2. QED
        BY <2>1
<1>6. r \in Ev!Negotiates(w) =>
          \E t \in Timeouts : r = Ev!Outcome(Ev!Start(w, t), "tuned", {}, t # 0)
    BY DEF Ev!Negotiates
<1> HIDE DEF X, Y, Z
<1>7. QED
    BY <1>1, <1>2, <1>3, <1>4, <1>5, <1>6 DEF Reacts

\* What a connection does leaves its invariant, and the events of a descriptor
\* that it did not ask about are those that its watcher waits for.
LEMMA ReactionsOK ==
    ASSUME NEW w, NEW ph, NEW f \in BOOLEAN, ConnInv(w, ph, f), ph \notin {"none", "gone"},
           NEW read \in BOOLEAN, NEW r \in Ev!Reactions(w, ph, read)
    PROVE Kept(w, f, r)
<1>1. /\ w \in EWrapper /\ Counted(w, f) /\ w.live /\ ph \in Ev!Phases
      /\ (ph = "connecting" => w.timed /\ w.timeout = 0) /\ (w.timeout # 0 => w.timed)
      /\ w.timed \in BOOLEAN
    BY DEF ConnInv, EWrapper
<1>2. CASE r = Ev!Outcome(w, ph, {}, FALSE)
    BY <1>2 DEF Ev!Outcome, Kept
<1>3. CASE r = Ev!Outcome(Ev!Destroy(w), "gone", EvFds, w.timed)
    <2> DEFINE v == Ev!Destroy(w)
               g == f /\ ~w.timed
    <2>1. g \in BOOLEAN /\ (g => f /\ ~w.timed)
        BY <1>1
    <2>2. /\ v \in EWrapper /\ Empty(v) /\ Counted(v, g)
          /\ ~v.timed /\ v.timeout = 0 /\ ~v.live
        <3> HIDE DEF g
        <3> QED BY <1>1, <2>1, DestroyOK
    <2>3. r.wrapper = v /\ r.phase = "gone" /\ r.fds = EvFds /\ r.timer = w.timed
        BY <1>3 DEF Ev!Outcome
    <2> HIDE DEF v
    <2>4. ConnInv(v, "gone", g)
        BY <2>2 DEF ConnInv, Ev!Phases
    <2> QED BY <1>1, <2>3, <2>4 DEF Kept
<1>4. CASE r = Ev!Outcome(Ev!Unwatch(w), "lost", EvFds, FALSE)
    <2> DEFINE v == Ev!Unwatch(w)
    <2>1. /\ v \in EWrapper /\ Empty(v)
          /\ v.live = w.live /\ v.timed = w.timed /\ v.timeout = w.timeout
          /\ v.armed = w.armed /\ v.repeat = w.repeat /\ v.refs = w.refs
        BY <1>1, UnwatchOK
    <2>2. r.wrapper = v /\ r.phase = "lost" /\ r.fds = EvFds /\ r.timer = FALSE
        BY <1>4 DEF Ev!Outcome
    <2> HIDE DEF v
    <2>3. Counted(v, f)
        BY <1>1, <2>1 DEF Counted
    <2>4. ConnInv(v, "lost", f)
        BY <1>1, <2>1, <2>3 DEF ConnInv, Ev!Phases
    <2> QED BY <2>2, <2>4 DEF Kept
<1>5. CASE \E fd \in EvFds, fl \in SUBSET EFlags :
              r = Ev!Outcome(Ev!Monitor(w, fd, fl), ph, {fd}, FALSE)
    <2>1. PICK fd \in EvFds, fl \in SUBSET EFlags :
              r = Ev!Outcome(Ev!Monitor(w, fd, fl), ph, {fd}, FALSE)
        BY <1>5
    <2> DEFINE v == Ev!Monitor(w, fd, fl)
    <2>2. /\ v \in EWrapper /\ v.watch = [w.watch EXCEPT ![fd] = fl]
          /\ v.live = w.live /\ v.timed = w.timed /\ v.timeout = w.timeout
          /\ v.armed = w.armed /\ v.repeat = w.repeat /\ v.refs = w.refs
        <3>1. w \in EWrapper /\ w.live
            BY <1>1
        <3> QED BY <3>1, MonitorOK
    <2>3. r.wrapper = v /\ r.phase = ph /\ r.fds = {fd} /\ r.timer = FALSE
        BY <2>1 DEF Ev!Outcome
    <2> HIDE DEF v
    <2>4. Counted(v, f)
        BY <1>1, <2>2 DEF Counted
    <2>5. ConnInv(v, ph, f)
        BY <1>1, <2>2, <2>4 DEF ConnInv
    <2>6. w.watch \in EWatch
        BY <1>1 DEF EWrapper
    <2>7. \A x \in EvFds : x # fd => v.watch[x] = w.watch[x]
        BY <2>2, <2>6 DEF EWatch
    <2> QED BY <2>3, <2>5, <2>7 DEF Kept
<1>6. CASE ph = "connecting"
           /\ \E t \in Timeouts : r = Ev!Outcome(Ev!Start(w, t), "tuned", {}, t # 0)
    <2>1. PICK t \in Timeouts : r = Ev!Outcome(Ev!Start(w, t), "tuned", {}, t # 0)
        BY <1>6
    <2> DEFINE v == Ev!Start(w, t)
    <2>2. r.wrapper = v /\ r.phase = "tuned" /\ r.fds = {} /\ r.timer = (t # 0)
        BY <2>1 DEF Ev!Outcome
    <2>3. CASE t = 0
        <3>1. v = w
            BY <2>3 DEF Ev!Start
        <3>2. ConnInv(w, "tuned", f)
            BY <1>1 DEF ConnInv, Ev!Phases
        <3> QED BY <2>2, <2>3, <3>1, <3>2 DEF Kept
    <2>4. CASE t # 0
        <3>1. t \in Int
            BY EventLoopsAssumption
        <3>2. /\ v \in EWrapper /\ Counted(v, FALSE) /\ v.watch = w.watch
              /\ v.live = w.live /\ v.timed
            BY <1>1, <1>6, <2>4, <3>1, StartOK
        <3> HIDE DEF v
        <3>3. ConnInv(v, "tuned", FALSE)
            BY <1>1, <3>2 DEF ConnInv, Ev!Phases
        <3>4. (f /\ ~r.timer) = FALSE
            BY <2>2, <2>4
        <3> QED BY <2>2, <2>4, <3>2, <3>3, <3>4 DEF Kept
    <2> QED BY <2>3, <2>4
<1>7. CASE r = Ev!Outcome(w, "ready", {}, FALSE)
    <2>1. ConnInv(w, "ready", f)
        BY <1>1 DEF ConnInv, Ev!Phases
    <2>2. r.wrapper = w /\ r.phase = "ready" /\ r.timer = FALSE
        BY <1>7 DEF Ev!Outcome
    <2> QED BY <2>1, <2>2 DEF Kept
<1>8. Reacts(w, ph, r)
    BY ReactionCases
<1> QED BY <1>2, <1>3, <1>4, <1>5, <1>6, <1>7, <1>8 DEF Reacts

\* One connection changes; its timer may have been called back.
LEMMA OneInv ==
    ASSUME EvInv, NEW c \in Conns, NEW w, NEW ph, NEW fds,
           wrapper' = [wrapper EXCEPT ![c] = w], phase' = [phase EXCEPT ![c] = ph],
           fired' \subseteq fired, fired \ {c} \subseteq fired',
           ConnInv(w, ph, c \in fired'),
           \A fd \in EvFds : fd \notin fds => w.watch[fd] = wrapper[c].watch[fd],
           active' \subseteq Ev!Keep(c, fds), evCall' \in ECall
    PROVE EvInv'
<1>1. w \in EWrapper /\ ph \in Ev!Phases
    BY DEF ConnInv
<1>2. wrapper' \in [Conns -> EWrapper] /\ phase' \in [Conns -> Ev!Phases] /\ fired' \subseteq Conns
    BY <1>1 DEF EvInv
<1>3. ASSUME NEW d \in Conns PROVE ConnInv(wrapper'[d], phase'[d], d \in fired')
    <2>1. CASE d = c
        BY <2>1 DEF EvInv
    <2>2. CASE d # c
        <3>1. wrapper'[d] = wrapper[d] /\ phase'[d] = phase[d] /\ (d \in fired') = (d \in fired)
            BY <2>2 DEF EvInv
        <3>2. ConnInv(wrapper[d], phase[d], d \in fired)
            BY DEF EvInv
        <3> QED BY <3>1, <3>2
    <2> QED BY <2>1, <2>2
<1>4. ASSUME NEW a \in active' PROVE Waited(a, wrapper'[a.conn])
    <2>1. a \in active /\ (a.conn # c \/ a.fd \notin fds)
        BY DEF Ev!Keep
    <2>2. Waited(a, wrapper[a.conn])
        BY <2>1 DEF EvInv
    <2>3. a.conn \in Conns /\ a.fd \in EvFds
        BY <2>2 DEF Waited
    <2>4. wrapper'[a.conn].watch[a.fd] = wrapper[a.conn].watch[a.fd]
        <3>1. wrapper'[a.conn] = IF a.conn = c THEN w ELSE wrapper[a.conn]
            BY <2>3 DEF EvInv
        <3>2. a.conn = c => w.watch[a.fd] = wrapper[c].watch[a.fd]
            BY <2>1, <2>3
        <3> QED BY <3>1, <3>2
    <2> QED BY <2>2, <2>4 DEF Waited
<1> QED BY <1>2, <1>3, <1>4 DEF EvInv, Waited

-----------------------------------------------------------------------------
\* The steps of the handler.
LEMMA UserCallsInv ==
    ASSUME EvInv, NEW c \in Conns, Ev!UserCalls(c)
    PROVE EvInv'
<1>1. /\ ConnInv(wrapper[c], phase[c], c \in fired) /\ evCall \in ECall
      /\ phase[c] \notin {"none", "gone"} /\ evCall' = evCall
    BY DEF EvInv, Ev!UserCalls
<1>2. PICK r \in Ev!Reactions(wrapper[c], phase[c], FALSE) :
          Ev!Happens(c, r) /\ active' = Ev!Keep(c, r.fds)
    BY DEF Ev!UserCalls
<1> DEFINE w == wrapper[c]
           f == c \in fired
<1>3. Kept(w, f, r)
    <2>1. f \in BOOLEAN /\ FALSE \in BOOLEAN /\ ConnInv(w, phase[c], f)
        BY <1>1
    <2> HIDE DEF w, f
    <2> QED BY <1>1, <2>1, ReactionsOK DEF w
<1>4. /\ wrapper' = [wrapper EXCEPT ![c] = r.wrapper] /\ phase' = [phase EXCEPT ![c] = r.phase]
      /\ fired' = IF r.timer THEN fired \ {c} ELSE fired
    BY <1>2 DEF Ev!Happens
<1>5. (c \in fired') = (f /\ ~r.timer)
    BY <1>3, <1>4 DEF Kept
<1>6. /\ ConnInv(r.wrapper, r.phase, c \in fired')
      /\ \A fd \in EvFds : fd \notin r.fds => r.wrapper.watch[fd] = wrapper[c].watch[fd]
    BY <1>3, <1>5 DEF Kept
<1>7. fired' \subseteq fired /\ fired \ {c} \subseteq fired'
    BY <1>4
<1> QED BY <1>1, <1>2, <1>4, <1>6, <1>7, OneInv

LEMMA ConnectInv ==
    ASSUME EvInv, NEW c \in Conns, Ev!Connect(c)
    PROVE EvInv'
<1> DEFINE w == wrapper[c]
<1>1. /\ ConnInv(w, phase[c], c \in fired) /\ phase[c] = "none" /\ evCall' \in ECall
      /\ active' = active
    BY DEF EvInv, Ev!Connect
<1>2. PICK fd \in EvFds, fl \in SUBSET EFlags :
          Ev!Happens(c, Ev!Outcome(Ev!Monitor(w, fd, fl), "connecting", {fd}, FALSE))
    BY DEF Ev!Connect, EFlags
<1> DEFINE v == Ev!Monitor(w, fd, fl)
<1>3. wrapper' = [wrapper EXCEPT ![c] = v] /\ phase' = [phase EXCEPT ![c] = "connecting"]
      /\ fired' = fired
    BY <1>2 DEF Ev!Happens, Ev!Outcome
<1>4. w \in EWrapper /\ ~w.live /\ c \notin fired /\ Empty(w)
    BY <1>1 DEF ConnInv
<1>5. v \in EWrapper /\ Counted(v, FALSE) /\ v.live /\ v.timed /\ v.timeout = 0
    <2> HIDE DEF w
    <2> QED BY <1>4, FirstOK
<1> HIDE DEF v
<1>6. ConnInv(v, "connecting", FALSE)
    BY <1>5 DEF ConnInv, Ev!Phases
<1>7. active \subseteq Ev!Keep(c, EvFds)
    <2> SUFFICES ASSUME NEW a \in active PROVE a.conn # c
        BY DEF Ev!Keep
    <2>1. Waited(a, wrapper[a.conn])
        BY DEF EvInv
    <2> QED BY <1>4, <2>1 DEF Waited, Empty
<1>8. ConnInv(v, "connecting", c \in fired')
    <2>1. (c \in fired') = FALSE
        BY <1>3, <1>4
    <2> QED BY <1>6, <2>1
<1> QED BY <1>1, <1>3, <1>7, <1>8, OneInv

\* onActive: the server has been heard from.
LEMMA ExtendOK ==
    ASSUME NEW w \in EWrapper, NEW fl
    PROVE Same(Ev!Extend(w, fl), w) /\ Ev!Extend(w, fl).timeout = w.timeout
<1> DEFINE i == IF w.timeout # 0 THEN Ev!Idle(w.timeout) ELSE w.expire
           q == [w EXCEPT !.expire = i]
           z == 0
           v == [q EXCEPT !.seen = z]
<1>1. CASE "readable" \notin fl
    BY <1>1 DEF Ev!Extend, Same
<1>2. CASE "readable" \in fl
    <2>1. Ev!Extend(w, fl) = v
        BY <1>2 DEF Ev!Extend
    <2>2. w.timeout \in Int /\ w.expire \in Int
        BY DEF EWrapper
    <2>3. i \in Int
        BY <2>2, TimesOK
    <2> HIDE DEF i
    <2>4. Same(q, w) /\ q.timeout = w.timeout
        BY <2>3, MomentOK
    <2>5. q \in EWrapper
        BY <2>4 DEF Same
    <2>6. z \in Int
        OBVIOUS
    <2> HIDE DEF q, z
    <2>7. Same(v, q) /\ v.timeout = q.timeout
        BY <2>5, <2>6, MomentOK
    <2> HIDE DEF v
    <2> QED BY <2>1, <2>4, <2>7 DEF Same
<1> QED BY <1>1, <1>2

LEMMA OnActiveInv ==
    ASSUME EvInv, NEW c \in Conns, Ev!OnActive(c)
    PROVE EvInv'
<1>1. PICK a \in active :
          /\ a.conn = c
          /\ \E r \in Ev!Reactions(Ev!Extend(wrapper[c], a.flags), phase[c],
                                   "readable" \in a.flags) :
                Ev!Happens(c, r) /\ active' = Ev!Keep(c, r.fds) \ {a}
          /\ evCall' = [key |-> <<c, a.fd>>, flags |-> a.flags, odd |-> ~evCall.odd]
    BY DEF Ev!OnActive
<1> DEFINE w == wrapper[c]
           u == Ev!Extend(w, a.flags)
<1>2. PICK r \in Ev!Reactions(u, phase[c], "readable" \in a.flags) :
          Ev!Happens(c, r) /\ active' = Ev!Keep(c, r.fds) \ {a}
    BY <1>1
<1>3. ConnInv(w, phase[c], c \in fired) /\ Waited(a, w) /\ evCall \in ECall /\ w \in EWrapper
    BY <1>1 DEF EvInv, ConnInv
<1>4. phase[c] \notin {"none", "gone"}
    BY <1>3 DEF ConnInv, Empty, Waited
<1>5. evCall' \in ECall
    <2>1. a.fd \in EvFds /\ a.flags \in SUBSET EFlags
        BY <1>3 DEF Waited
    <2>2. (~evCall.odd) \in BOOLEAN
        OBVIOUS
    <2> QED BY <1>1, <2>1, <2>2 DEF ECall
<1>6. Same(u, w) /\ u.timeout = w.timeout
    <2> HIDE DEF w
    <2> QED BY <1>3, ExtendOK
<1> HIDE DEF u
<1> DEFINE f == c \in fired
<1>7. f \in BOOLEAN /\ ("readable" \in a.flags) \in BOOLEAN
    OBVIOUS
<1>8. Kept(u, f, r)
    <2>1. ConnInv(w, phase[c], f)
        BY <1>3
    <2> HIDE DEF f, w
    <2>2. ConnInv(u, phase[c], f)
        BY <1>6, <1>7, <2>1, SameInv
    <2> DEFINE read == "readable" \in a.flags
    <2>3. read \in BOOLEAN /\ r \in Ev!Reactions(u, phase[c], read)
        BY <1>7
    <2> HIDE DEF read
    <2> QED BY <1>4, <1>7, <2>2, <2>3, ReactionsOK
<1>9. /\ wrapper' = [wrapper EXCEPT ![c] = r.wrapper] /\ phase' = [phase EXCEPT ![c] = r.phase]
      /\ fired' = IF r.timer THEN fired \ {c} ELSE fired
    BY <1>2 DEF Ev!Happens
<1>10. (c \in fired') = (f /\ ~r.timer)
    BY <1>8, <1>9 DEF Kept
<1>11. ConnInv(r.wrapper, r.phase, c \in fired')
    BY <1>8, <1>10 DEF Kept
<1>12. fired' \subseteq fired /\ fired \ {c} \subseteq fired' /\ active' \subseteq Ev!Keep(c, r.fds)
    BY <1>2, <1>9
<1>13. \A fd \in EvFds : fd \notin r.fds => r.wrapper.watch[fd] = wrapper[c].watch[fd]
    BY <1>6, <1>8 DEF Same, Kept
<1> QED BY <1>5, <1>9, <1>11, <1>12, <1>13, OneInv

\* The timer that is called back: what it counts for with the ev_ref.
LEMMA FiredOK ==
    ASSUME NEW o \in EWrapper, Counted(o, TRUE)
    PROVE LET w == [o EXCEPT !.refs = Ev!Lesser(@ + 1, MaxRefs)]
          IN /\ w \in EWrapper /\ w.watch = o.watch /\ w.live = o.live /\ w.timed = o.timed
             /\ w.timeout = o.timeout /\ w.armed = o.armed /\ w.repeat = o.repeat
             /\ w.refs >= 0 /\ (w.armed => w.repeat > 0) /\ (~w.armed => w.refs = 0)
             /\ w.timed => w.refs = IF w.armed THEN 1 ELSE 0
<1> DEFINE m == Ev!Lesser(o.refs + 1, MaxRefs)
           w == [o EXCEPT !.refs = m]
<1>1. o.refs \in Int /\ MaxRefs \in Int /\ MaxRefs >= 1
    BY EventLoopsAssumption DEF EWrapper
<1>2. m \in Int /\ m >= 0 /\ (~o.armed => m = 0) /\ (o.timed => m = IF o.armed THEN 1 ELSE 0)
    BY <1>1 DEF Counted, Ev!Lesser
<1>3. o.armed => o.repeat > 0
    BY DEF Counted
<1> HIDE DEF m
<1>4. m \in Int
    BY <1>2
<1>5. /\ w \in EWrapper /\ w.watch = o.watch /\ w.live = o.live /\ w.timed = o.timed
      /\ w.timeout = o.timeout /\ w.armed = o.armed /\ w.repeat = o.repeat /\ w.refs = m
    BY <1>4 DEF EWrapper
<1> HIDE DEF w
<1>6. [o EXCEPT !.refs = Ev!Lesser(@ + 1, MaxRefs)] = w
    BY DEF w, m
<1> QED BY <1>2, <1>3, <1>5, <1>6

\* A timer that is not needed any more, and was called back.
LEMMA OffOK ==
    ASSUME NEW w \in EWrapper, w.refs >= 0, w.armed => w.repeat > 0, ~w.armed => w.refs = 0
    PROVE LET v == [w EXCEPT !.timed = FALSE, !.timeout = 0]
          IN /\ v \in EWrapper /\ Counted(v, FALSE) /\ v.watch = w.watch /\ v.live = w.live
             /\ v.timed = FALSE /\ v.timeout = 0
<1> DEFINE u == [w EXCEPT !.timed = FALSE]
           z == 0
           v == [u EXCEPT !.timeout = z]
<1>1. /\ u \in EWrapper /\ u.watch = w.watch /\ u.live = w.live /\ u.timed = FALSE
      /\ u.armed = w.armed /\ u.repeat = w.repeat /\ u.refs = w.refs
    BY DEF EWrapper
<1>2. [w EXCEPT !.timed = FALSE, !.timeout = 0] = v
    OBVIOUS
<1>3. u \in EWrapper /\ z \in Int /\ z = 0
    BY <1>1
<1> HIDE DEF u
<1>4. Same(v, u)
    <2>1. u \in EWrapper /\ z \in Int
        BY <1>3
    <2> HIDE DEF z
    <2> QED BY <2>1, MomentOK
<1>5. v.timeout = 0
    BY <1>3 DEF EWrapper
<1> HIDE DEF v, z
<1>6. /\ v \in EWrapper /\ v.watch = w.watch /\ v.live = w.live /\ v.timed = FALSE
      /\ v.armed = w.armed /\ v.repeat = w.repeat /\ v.refs = w.refs
    BY <1>1, <1>4 DEF Same
<1>7. Counted(v, FALSE)
    BY <1>6 DEF Counted
<1> QED BY <1>2, <1>5, <1>6, <1>7

LEMMA OnExpiredInv ==
    ASSUME EvInv, NEW c \in Conns, Ev!OnExpired(c)
    PROVE EvInv'
<1> DEFINE o == wrapper[c]
           ph == phase[c]
           w == [o EXCEPT !.refs = Ev!Lesser(@ + 1, MaxRefs)]
           idle == w.timeout # 0 /\ w.expire <= 0
           off == [w EXCEPT !.timed = FALSE, !.timeout = 0]
<1>1. /\ c \in fired /\ o.live /\ fired' = fired \ {c} /\ evCall' \in ECall
      /\ ConnInv(o, ph, c \in fired) /\ o \in EWrapper
    BY DEF Ev!OnExpired, EvInv, ConnInv
<1>2. \/ /\ wrapper' = [wrapper EXCEPT ![c] = off] /\ ph = "ready"
         /\ phase' = phase /\ active' = active
      \/ /\ wrapper' = [wrapper EXCEPT ![c] = Ev!Unwatch(off)]
         /\ phase' = [phase EXCEPT ![c] = "lost"] /\ active' = Ev!Keep(c, EvFds)
      \/ /\ wrapper' = [wrapper EXCEPT ![c] = off] /\ active' = active /\ w.timeout # 0
         /\ \E p \in {ph, "closing"} : phase' = [phase EXCEPT ![c] = p]
      \/ /\ wrapper' = [wrapper EXCEPT ![c] = Ev!Rearm(w)] /\ w.timeout # 0
         /\ phase' = phase /\ active' = active
    BY DEF Ev!OnExpired
<1>3. Counted(o, TRUE)
    <2>1. (c \in fired) = TRUE
        BY <1>1
    <2> QED BY <1>1, <2>1 DEF ConnInv
<1>4. /\ ph \in Ev!Phases /\ ph \notin {"none", "gone"}
      /\ (ph = "connecting" => o.timeout = 0) /\ (o.timeout # 0 => o.timed)
    BY <1>1 DEF ConnInv
<1>5. /\ w \in EWrapper /\ w.watch = o.watch /\ w.live = o.live /\ w.timed = o.timed
      /\ w.timeout = o.timeout /\ w.armed = o.armed /\ w.repeat = o.repeat
      /\ w.refs >= 0 /\ (w.armed => w.repeat > 0) /\ (~w.armed => w.refs = 0)
      /\ w.timed => w.refs = IF w.armed THEN 1 ELSE 0
    <2> HIDE DEF o
    <2> QED BY <1>1, <1>3, FiredOK
<1> HIDE DEF w
<1>6. /\ off \in EWrapper /\ Counted(off, FALSE) /\ off.watch = w.watch /\ off.live = w.live
      /\ off.timed = FALSE /\ off.timeout = 0
    BY <1>5, OffOK
<1> HIDE DEF off
<1>7. active \subseteq Ev!Keep(c, {})
    BY DEF Ev!Keep
<1>8. phase = [phase EXCEPT ![c] = ph]
    BY DEF EvInv
<1>9. fired' \subseteq fired /\ fired \ {c} \subseteq fired' /\ (c \in fired') = FALSE
    BY <1>1
<1>10. CASE /\ wrapper' = [wrapper EXCEPT ![c] = off] /\ active' = active
            /\ \E p \in {ph, "closing"} : p # "connecting" /\ phase' = [phase EXCEPT ![c] = p]
    <2>1. PICK p \in {ph, "closing"} : p # "connecting" /\ phase' = [phase EXCEPT ![c] = p]
        BY <1>10
    <2>2. ConnInv(off, p, FALSE)
        BY <1>1, <1>4, <1>5, <1>6, <2>1 DEF ConnInv, Ev!Phases
    <2>3. ConnInv(off, p, c \in fired')
        BY <1>9, <2>2
    <2>4. \A fd \in EvFds : fd \notin {} => off.watch[fd] = wrapper[c].watch[fd]
        BY <1>5, <1>6
    <2> QED BY <1>1, <1>7, <1>9, <1>10, <2>1, <2>3, <2>4, OneInv
<1>11. CASE /\ wrapper' = [wrapper EXCEPT ![c] = Ev!Unwatch(off)]
            /\ phase' = [phase EXCEPT ![c] = "lost"] /\ active' = Ev!Keep(c, EvFds)
    <2> DEFINE v == Ev!Unwatch(off)
    <2>1. /\ v \in EWrapper /\ Empty(v)
          /\ v.live = off.live /\ v.timed = off.timed /\ v.timeout = off.timeout
          /\ v.armed = off.armed /\ v.repeat = off.repeat /\ v.refs = off.refs
        BY <1>6, UnwatchOK
    <2> HIDE DEF v
    <2>2. Counted(v, FALSE)
        BY <1>6, <2>1 DEF Counted
    <2>3. ConnInv(v, "lost", FALSE)
        BY <1>1, <1>5, <1>6, <2>1, <2>2 DEF ConnInv, Ev!Phases
    <2>4. ConnInv(v, "lost", c \in fired')
        BY <1>9, <2>3
    <2>5. wrapper' = [wrapper EXCEPT ![c] = v]
        BY <1>11 DEF v
    <2> QED BY <1>1, <1>9, <1>11, <2>4, <2>5, OneInv
<1>12. CASE /\ wrapper' = [wrapper EXCEPT ![c] = Ev!Rearm(w)] /\ w.timeout # 0
            /\ phase' = phase /\ active' = active
    <2> DEFINE v == Ev!Rearm(w)
    <2>1. w.timed /\ w.refs = IF w.armed THEN 1 ELSE 0
        BY <1>4, <1>5, <1>12
    <2>2. /\ v \in EWrapper /\ Counted(v, FALSE) /\ v.watch = w.watch /\ v.live = w.live
          /\ v.timed = w.timed /\ v.timeout = w.timeout
        BY <1>5, <2>1, RearmOK
    <2> HIDE DEF v
    <2>3. ConnInv(v, ph, FALSE)
        BY <1>1, <1>4, <1>5, <1>12, <2>1, <2>2 DEF ConnInv
    <2>4. ConnInv(v, ph, c \in fired')
        BY <1>9, <2>3
    <2>5. wrapper' = [wrapper EXCEPT ![c] = v] /\ phase' = [phase EXCEPT ![c] = ph]
        BY <1>8, <1>12 DEF v
    <2>6. \A fd \in EvFds : fd \notin {} => v.watch[fd] = wrapper[c].watch[fd]
        BY <1>5, <2>2
    <2> QED BY <1>1, <1>7, <1>9, <1>12, <2>4, <2>5, <2>6, OneInv
<1>13. (ph = "ready" \/ w.timeout # 0) => ph # "connecting"
    BY <1>4, <1>5
<1> QED BY <1>2, <1>8, <1>10, <1>11, <1>12, <1>13

\* The loop arms a timer that repeats again, and stops another.
LEMMA ReifyOK ==
    ASSUME NEW w \in EWrapper, w.armed, Counted(w, FALSE)
    PROVE LET v == Ev!Reify(w)
          IN /\ v \in EWrapper /\ Counted(v, TRUE) /\ v.watch = w.watch /\ v.live = w.live
             /\ v.timed = w.timed /\ v.timeout = w.timeout
<1>1. CASE w.repeat > 0
    <2> DEFINE d == IF w.due + w.repeat > 0 THEN w.due + w.repeat ELSE 0
               v == [w EXCEPT !.due = d]
    <2>1. Ev!Reify(w) = v
        BY <1>1 DEF Ev!Reify
    <2>2. d \in Int
        BY DEF EWrapper
    <2> HIDE DEF d
    <2>3. Same(v, w) /\ v.timeout = w.timeout
        BY <2>2, MomentOK
    <2> HIDE DEF v
    <2>4. Counted(v, TRUE)
        BY <1>1, <2>3 DEF Same, Counted
    <2> QED BY <2>1, <2>3, <2>4 DEF Same
<1>2. CASE ~(w.repeat > 0)
    <2> DEFINE n == w.refs - 1
               u == [w EXCEPT !.armed = FALSE]
               v == [u EXCEPT !.refs = n]
    <2>1. u \in EWrapper /\ u.refs = w.refs /\ u.watch = w.watch /\ u.live = w.live
          /\ u.timed = w.timed /\ u.timeout = w.timeout /\ u.armed = FALSE
        BY DEF EWrapper
    <2>2. Ev!Reify(w) = v
        BY <1>2 DEF Ev!Reify
    <2>3. n \in Int /\ w.timed /\ n = -1
        BY <1>2 DEF Counted, EWrapper
    <2>4. n \in Int
        BY <2>3
    <2> HIDE DEF n, u
    <2>5. /\ v \in EWrapper /\ v.refs = n /\ v.watch = u.watch /\ v.live = u.live
          /\ v.timed = u.timed /\ v.timeout = u.timeout /\ v.armed = u.armed
        BY <2>1, <2>4 DEF EWrapper
    <2> HIDE DEF v
    <2>6. Counted(v, TRUE)
        BY <2>1, <2>3, <2>5 DEF Counted
    <2> QED BY <2>1, <2>2, <2>5, <2>6
<1> QED BY <1>1, <1>2

LEMMA PollEvInv ==
    ASSUME EvInv, Ev!Poll
    PROVE EvInv'
<1> DEFINE due == {c \in Conns : wrapper[c].armed /\ wrapper[c].due <= 0}
<1>1. /\ active = {} /\ fired = {} /\ fired' = due /\ phase' = phase /\ evCall' = evCall
      /\ wrapper' = [c \in Conns |-> IF c \in due THEN Ev!Reify(wrapper[c]) ELSE wrapper[c]]
    BY DEF Ev!Poll
<1>2. ASSUME NEW c \in Conns
      PROVE /\ ConnInv(wrapper'[c], phase'[c], c \in fired') /\ wrapper'[c] \in EWrapper
            /\ wrapper'[c].watch = wrapper[c].watch
    <2> DEFINE w == wrapper[c]
    <2>1. ConnInv(w, phase[c], c \in fired)
        BY DEF EvInv
    <2>2. ConnInv(w, phase[c], FALSE)
        <3>1. (c \in fired) = FALSE
            BY <1>1
        <3> QED BY <2>1, <3>1
    <2>3. w \in EWrapper /\ Counted(w, FALSE)
        BY <2>2 DEF ConnInv
    <2>4. CASE c \in due
        <3> DEFINE v == Ev!Reify(w)
        <3>1. w.armed /\ wrapper'[c] = v
            BY <1>1, <2>4
        <3> HIDE DEF w
        <3>2. /\ v \in EWrapper /\ Counted(v, TRUE) /\ v.watch = w.watch /\ v.live = w.live
              /\ v.timed = w.timed /\ v.timeout = w.timeout
            BY <2>3, <3>1, ReifyOK
        <3> HIDE DEF v
        <3>3. ConnInv(v, phase[c], TRUE)
            BY <2>2, <3>1, <3>2 DEF ConnInv, Empty
        <3>4. (c \in fired') = TRUE
            BY <1>1, <2>4
        <3> QED BY <1>1, <3>1, <3>2, <3>3, <3>4 DEF w
    <2>5. CASE c \notin due
        <3>1. wrapper'[c] = w /\ (c \in fired') = FALSE
            BY <1>1, <2>5
        <3> QED BY <1>1, <2>2, <2>3, <3>1
    <2> QED BY <2>4, <2>5
<1>3. wrapper' \in [Conns -> EWrapper] /\ phase' \in [Conns -> Ev!Phases] /\ evCall' \in ECall
    BY <1>1, <1>2 DEF EvInv
<1>4. ASSUME NEW a \in active' PROVE Waited(a, wrapper'[a.conn])
    <2>1. PICK happened \in [Conns \X EvFds -> SUBSET EFlags] :
              active' = {x \in [conn : Conns, fd : EvFds, flags : (SUBSET EFlags) \ {{}}] :
                  x.flags = happened[<<x.conn, x.fd>>] \cap wrapper[x.conn].watch[x.fd]}
        BY DEF Ev!Poll, EFlags
    <2>2. /\ a \in [conn : Conns, fd : EvFds, flags : (SUBSET EFlags) \ {{}}]
          /\ a.flags \subseteq wrapper[a.conn].watch[a.fd]
        BY <2>1
    <2>3. wrapper'[a.conn].watch = wrapper[a.conn].watch
        BY <1>2, <2>2
    <2> QED BY <2>2, <2>3 DEF Waited
<1>5. fired' \subseteq Conns
    BY <1>1
<1> QED BY <1>2, <1>3, <1>4, <1>5 DEF EvInv

LEMMA OlderOK ==
    ASSUME NEW w \in EWrapper
    PROVE Same(Ev!Older(w), w) /\ Ev!Older(w).timeout = w.timeout
<1> DEFINE v == IF w.armed THEN [w EXCEPT !.due = @ - 1] ELSE w
           e == v.expire - 1
           v1 == [v EXCEPT !.expire = e]
           n == v1.next - 1
           v2 == [v1 EXCEPT !.next = n]
           b == v2.beat + 1
           v3 == [v2 EXCEPT !.beat = b]
           s == v3.seen + 1
           v4 == [v3 EXCEPT !.seen = s]
<1>1. Same(v, w) /\ v.timeout = w.timeout
    <2>1. CASE w.armed
        <3> DEFINE d == w.due - 1
        <3>1. v = [w EXCEPT !.due = d]
            BY <2>1
        <3>2. d \in Int
            BY DEF EWrapper
        <3> HIDE DEF d, v
        <3> QED BY <3>1, <3>2, MomentOK
    <2>2. CASE ~w.armed
        BY <2>2 DEF Same
    <2> QED BY <2>1, <2>2
<1>2. Ev!Older(w) = IF ~w.timed THEN v
                    ELSE IF w.timeout = 0 THEN [v EXCEPT !.expire = @ - 1]
                    ELSE [v EXCEPT !.expire = @ - 1, !.next = @ - 1, !.beat = @ + 1,
                                   !.seen = @ + 1]
    BY DEF Ev!Older
<1> HIDE DEF v
<1>3. v \in EWrapper
    BY <1>1 DEF Same
<1>4. e \in Int
    BY <1>3 DEF EWrapper
<1>5. v1 = [v EXCEPT !.expire = @ - 1]
    BY DEF e
<1>6. v4 = [v EXCEPT !.expire = @ - 1, !.next = @ - 1, !.beat = @ + 1, !.seen = @ + 1]
    BY <1>3 DEF EWrapper
<1> HIDE DEF e
<1>7. Same(v1, v) /\ v1.timeout = v.timeout
    BY <1>3, <1>4, MomentOK
<1> HIDE DEF v1
<1>8. v1 \in EWrapper
    BY <1>7 DEF Same
<1>9. n \in Int
    BY <1>8 DEF EWrapper
<1> HIDE DEF n
<1>10. Same(v2, v1) /\ v2.timeout = v1.timeout
    BY <1>8, <1>9, MomentOK
<1> HIDE DEF v2
<1>11. v2 \in EWrapper
    BY <1>10 DEF Same
<1>12. b \in Int
    BY <1>11 DEF EWrapper
<1> HIDE DEF b
<1>13. Same(v3, v2) /\ v3.timeout = v2.timeout
    BY <1>11, <1>12, MomentOK
<1> HIDE DEF v3
<1>14. v3 \in EWrapper
    BY <1>13 DEF Same
<1>15. s \in Int
    BY <1>14 DEF EWrapper
<1> HIDE DEF s
<1>16. Same(v4, v3) /\ v4.timeout = v3.timeout
    BY <1>14, <1>15, MomentOK
<1> HIDE DEF v4
<1>17. Same(v1, w) /\ v1.timeout = w.timeout
    BY <1>1, <1>7 DEF Same
<1>18. Same(v4, w) /\ v4.timeout = w.timeout
    BY <1>10, <1>13, <1>16, <1>17 DEF Same
<1> QED BY <1>1, <1>2, <1>5, <1>6, <1>17, <1>18

LEMMA TickInv ==
    ASSUME EvInv, Ev!Tick
    PROVE EvInv'
<1>1. /\ active = {} /\ active' = {} /\ fired' = fired /\ phase' = phase /\ evCall' = evCall
      /\ wrapper' = [c \in Conns |-> Ev!Older(wrapper[c])]
    BY DEF Ev!Tick
<1>2. ASSUME NEW c \in Conns
      PROVE ConnInv(wrapper'[c], phase'[c], c \in fired') /\ wrapper'[c] \in EWrapper
    <2> DEFINE w == wrapper[c]
               v == Ev!Older(w)
               f == c \in fired
    <2>1. ConnInv(w, phase[c], f) /\ w \in EWrapper /\ f \in BOOLEAN
        BY DEF EvInv
    <2>2. Same(v, w) /\ v.timeout = w.timeout
        <3> HIDE DEF w
        <3> QED BY <2>1, OlderOK
    <2>3. wrapper'[c] = v /\ phase'[c] = phase[c] /\ (c \in fired') = f
        BY <1>1
    <2> HIDE DEF v, w, f
    <2>4. ConnInv(v, phase[c], f)
        BY <2>1, <2>2, SameInv
    <2> QED BY <2>2, <2>3, <2>4 DEF Same
<1>3. /\ wrapper' \in [Conns -> EWrapper] /\ phase' \in [Conns -> Ev!Phases] /\ evCall' \in ECall
      /\ fired' \subseteq Conns
    BY <1>1, <1>2 DEF EvInv
<1> QED BY <1>1, <1>2, <1>3 DEF EvInv

LEMMA EvInitInv ==
    ASSUME Ev!Init PROVE EvInv
<1>1. /\ wrapper = [c \in Conns |-> Ev!NoWrapper] /\ phase = [c \in Conns |-> "none"]
      /\ active = {} /\ fired = {}
      /\ evCall = [key |-> CHOOSE k \in Conns \X EvFds : TRUE, flags |-> {}, odd |-> FALSE]
    BY DEF Ev!Init
<1>2. evCall \in ECall
    <2>1. (\E c : c \in Conns) /\ (\E fd : fd \in EvFds)
        BY EventLoopsAssumption
    <2>2. \E k \in Conns \X EvFds : TRUE
        <3>1. PICK c \in Conns, fd \in EvFds : TRUE
            BY <2>1
        <3>2. <<c, fd>> \in Conns \X EvFds
            OBVIOUS
        <3> QED BY <3>2
    <2>3. (CHOOSE k \in Conns \X EvFds : TRUE) \in Conns \X EvFds
        BY <2>2
    <2> QED BY <1>1, <2>3 DEF ECall
<1>3. Ev!NoWrapper.live = FALSE /\ Ev!NoWrapper.armed = FALSE
    BY DEF Ev!NoWrapper
<1>4. ConnInv(Ev!NoWrapper, "none", FALSE)
    BY <1>3, NoWrapperOK DEF ConnInv, Ev!Phases
<1>5. ASSUME NEW c \in Conns PROVE ConnInv(wrapper[c], phase[c], c \in fired)
    <2>1. wrapper[c] = Ev!NoWrapper /\ phase[c] = "none" /\ (c \in fired) = FALSE
        BY <1>1
    <2> QED BY <1>4, <2>1
<1>6. wrapper \in [Conns -> EWrapper] /\ phase \in [Conns -> Ev!Phases]
    BY <1>1, NoWrapperOK DEF Ev!Phases
<1> QED BY <1>1, <1>2, <1>5, <1>6 DEF EvInv

\* The invariant gives the count of the loop.
LEMMA EvInvCounts ==
    ASSUME EvInv PROVE Ev!LoopCountsWatchers
<1> SUFFICES ASSUME NEW c \in Conns \ fired
             PROVE /\ wrapper[c].refs >= 0
                   /\ wrapper[c].refs > 0 => wrapper[c].armed /\ ~wrapper[c].timed
    BY DEF Ev!LoopCountsWatchers
<1>1. ConnInv(wrapper[c], phase[c], c \in fired) /\ (c \in fired) = FALSE
    BY DEF EvInv
<1> QED BY <1>1 DEF ConnInv, Counted

\* The invariant of every step of a program, whatever handler it made.
THEOREM EvInvariant ==
    Spec => []EvInv
<1>1. Init => EvInv
    BY EvInitInv DEF Init
<1>2. EvInv /\ [Next]_vars => EvInv'
    <2> SUFFICES ASSUME EvInv, [Next]_vars PROVE EvInv'
        OBVIOUS
    <2>1. CASE \E c \in Conns : Ev!Connect(c)
        BY <2>1, ConnectInv
    <2>2. CASE \E c \in Conns : Ev!UserCalls(c)
        BY <2>2, UserCallsInv
    <2>3. CASE Ev!Poll
        BY <2>3, PollEvInv
    <2>4. CASE Ev!Callbacks
        BY <2>4, OnActiveInv, OnExpiredInv DEF Ev!Callbacks
    <2>5. CASE Ev!Tick
        BY <2>5, TickInv
    <2>6. CASE UNCHANGED evVars
        BY <2>6 DEF evVars, EvInv, ConnInv, Waited
    <2> QED BY <2>1, <2>2, <2>3, <2>4, <2>5, <2>6
            DEF Next, EvStep, PollStep, AsioStep, vars
<1> QED BY <1>1, <1>2, PTL DEF Spec

\* The ev_ref and ev_unref around the timer leave the loop with at least the
\* watchers of the descriptors, and with those alone unless a timer runs that is
\* not needed any more: that of a connection whose server was silent.
THEOREM EvLoopCountsWatchers == Spec => []LoopCountsWatchers
<1>1. EvInv => LoopCountsWatchers
    BY EvInvCounts DEF LoopCountsWatchers
<1> QED BY <1>1, EvInvariant, PTL
-----------------------------------------------------------------------------
(* The moments of a connection that has an interval *)

\* The moments that a timer and its connection wait for.
Moments(v, w) ==
    /\ v.timeout = w.timeout /\ v.next = w.next /\ v.expire = w.expire
    /\ v.due = w.due /\ v.beat = w.beat /\ v.seen = w.seen

\* What is left until the next heartbeat, and until the connection is idle, is
\* what the interval leaves of the time since the last one, and since the server
\* was heard from.  The timer is set for neither too late; one that has fired is
\* about to be called back, and until then no time passes.
Clocked(w, f) ==
    w.timeout # 0 =>
        /\ w.timeout > 0 /\ w.live
        /\ w.beat + w.next = Ev!Beat(w.timeout) /\ w.next >= -Late
        /\ w.seen + w.expire = Ev!Idle(w.timeout) /\ w.expire >= -Late /\ w.seen >= 0
        /\ ~f => w.due <= w.next /\ w.due <= w.expire

Clocks == \A c \in Conns : Clocked(wrapper[c], c \in fired)

LEMMA MomentsClocked ==
    ASSUME NEW v, NEW w, NEW f, Moments(v, w), v.live = w.live, Clocked(w, f)
    PROVE  Clocked(v, f)
BY DEF Moments, Clocked

LEMMA NotClocked == ASSUME NEW v, NEW f, v.timeout = 0 PROVE Clocked(v, f)
BY DEF Clocked

\* Watchers have nothing to do with the moments.
LEMMA WatchMoments ==
    ASSUME NEW w \in EWrapper, NEW x
    PROVE  Moments([w EXCEPT !.watch = x], w) /\ [w EXCEPT !.watch = x].live = w.live
BY DEF EWrapper, Moments

LEMMA UnwatchMoments ==
    ASSUME NEW w \in EWrapper
    PROVE  Moments(Ev!Unwatch(w), w) /\ Ev!Unwatch(w).live = w.live
BY WatchMoments DEF Ev!Unwatch

LEMMA MonitorMoments ==
    ASSUME NEW w \in EWrapper, w.live, NEW fd \in EvFds, NEW fl
    PROVE  Moments(Ev!Monitor(w, fd, fl), w) /\ Ev!Monitor(w, fd, fl).live = w.live
<1> DEFINE x == [w.watch EXCEPT ![fd] = fl]
<1>1. Ev!Monitor(w, fd, fl) = [w EXCEPT !.watch[fd] = fl]
    BY DEF Ev!Monitor, Ev!Lookup
<1>2. [w EXCEPT !.watch[fd] = fl] = [w EXCEPT !.watch = x]
    OBVIOUS
<1> DEFINE v == [w EXCEPT !.watch = x]
<1> HIDE DEF x
<1>3. Moments(v, w) /\ v.live = w.live
    BY WatchMoments
<1>4. Ev!Monitor(w, fd, fl) = v
    BY <1>1, <1>2 DEF x
<1> HIDE DEF v
<1>5. QED
    BY <1>3, <1>4

\* ev_timer_again sets the timer alone.
LEMMA AgainMoments ==
    ASSUME NEW w \in EWrapper, NEW r \in Int
    PROVE  LET v == Ev!Again(w, r)
           IN /\ v.timeout = w.timeout /\ v.next = w.next /\ v.expire = w.expire
              /\ v.beat = w.beat /\ v.seen = w.seen /\ v.due = r /\ v.live = w.live
<1> DEFINE n == IF w.armed THEN w.refs ELSE w.refs + 1
<1>1. Ev!Again(w, r) = [w EXCEPT !.repeat = r, !.due = r, !.armed = TRUE, !.refs = n]
    BY DEF Ev!Again
<1> HIDE DEF n
<1>2. QED
    BY <1>1 DEF EWrapper

\* The interval is negotiated: the timer is set for whatever comes first.
LEMMA StartClocked ==
    ASSUME NEW w \in EWrapper, w.live, NEW t \in Nat, t # 0, NEW f
    PROVE  Clocked(Ev!Start(w, t), f)
<1> DEFINE b == Ev!Beat(t)
           i == Ev!Idle(t)
           r == Ev!Lesser(b, i)
           z == 0
           u == [w EXCEPT !.timeout = t, !.timed = TRUE, !.next = b, !.expire = i,
                          !.beat = z, !.seen = z]
           v == Ev!Again(u, r)
<1>1. Ev!Start(w, t) = v
    BY DEF Ev!Start
<1>2. b \in Int /\ i \in Int /\ b >= 0 /\ i >= 0
    BY DEF Ev!Beat, Ev!Idle
<1>3. r \in Int /\ r <= b /\ r <= i
    <2> HIDE DEF b, i
    <2>1. QED
        BY <1>2 DEF Ev!Lesser
<1>4. z \in Int /\ t \in Int
    OBVIOUS
<1>5. /\ u \in EWrapper /\ u.timeout = t /\ u.next = b /\ u.expire = i /\ u.beat = z /\ u.seen = z
      /\ u.live = w.live
    <2> HIDE DEF b, i, z
    <2>1. QED
        BY <1>2, <1>4 DEF EWrapper
<1> HIDE DEF u
<1>6. /\ v.timeout = t /\ v.next = b /\ v.expire = i /\ v.beat = z /\ v.seen = z /\ v.due = r
      /\ v.live = w.live
    <2> HIDE DEF b, i, z, r
    <2>1. QED
        BY <1>3, <1>5, AgainMoments
<1> HIDE DEF v
<1>7. /\ v.timeout > 0 /\ v.live /\ v.beat + v.next = b /\ v.next >= -Late
      /\ v.seen + v.expire = i /\ v.expire >= -Late /\ v.seen >= 0
      /\ v.due <= v.next /\ v.due <= v.expire
    <2> HIDE DEF b, i, r
    <2>1. QED
        BY <1>2, <1>3, <1>6, EventLoopsAssumption
<1>8. b = Ev!Beat(v.timeout) /\ i = Ev!Idle(v.timeout)
    BY <1>6
<1> HIDE DEF b, i
<1>9. QED
    BY <1>1, <1>7, <1>8 DEF Clocked

\* The server has been heard from: the connection expires later.
LEMMA ExtendClocked ==
    ASSUME NEW w \in EWrapper, NEW fl, NEW f, Clocked(w, f)
    PROVE  Clocked(Ev!Extend(w, fl), f)
<1>1. CASE "readable" \notin fl
    BY <1>1 DEF Ev!Extend
<1>2. CASE "readable" \in fl /\ w.timeout # 0
    <2> DEFINE i == Ev!Idle(w.timeout)
               z == 0
               v == [w EXCEPT !.expire = i, !.seen = z]
    <2>1. Ev!Extend(w, fl) = v
        BY <1>2 DEF Ev!Extend
    <2>2. i >= 0 /\ i \in Int /\ z \in Int
        BY <1>2 DEF Clocked, Ev!Idle, EWrapper
    <2> HIDE DEF i, z
    <2>3. /\ v.timeout = w.timeout /\ v.next = w.next /\ v.expire = i /\ v.due = w.due
          /\ v.beat = w.beat /\ v.seen = z /\ v.live = w.live
        BY DEF EWrapper
    <2> HIDE DEF v
    <2>4. /\ w.timeout > 0 /\ w.live /\ w.beat + w.next = Ev!Beat(w.timeout) /\ w.next >= -Late
          /\ w.seen + w.expire = i /\ w.seen >= 0 /\ (~f => w.due <= w.next /\ w.due <= w.expire)
        BY <1>2 DEF Clocked, i
    <2>5. z = 0
        BY DEF z
    <2>6. v.seen + v.expire = i /\ v.expire >= -Late /\ v.seen >= 0 /\ w.expire <= i
        BY <2>2, <2>3, <2>4, <2>5, EventLoopsAssumption DEF EWrapper
    <2>7. w.due <= w.expire => v.due <= v.expire
        BY <2>2, <2>3, <2>6 DEF EWrapper
    <2>8. v.seen + v.expire = Ev!Idle(v.timeout) /\ v.beat + v.next = Ev!Beat(v.timeout)
        BY <2>3, <2>4, <2>6 DEF i
    <2>9. QED
        BY <2>1, <2>3, <2>4, <2>6, <2>7, <2>8 DEF Clocked
<1>3. CASE w.timeout = 0
    BY <1>3, ExtendOK, NotClocked
<1>4. QED
    BY <1>1, <1>2, <1>3

\* onExpired with time left: the next heartbeat, and the timer again.
LEMMA RearmClocked ==
    ASSUME NEW w \in EWrapper, NEW g, Clocked(w, g), w.timeout # 0, ~(w.expire <= 0), NEW f
    PROVE  Clocked(Ev!Rearm(w), f) /\ Ev!Rearm(w).timeout = w.timeout
<1> DEFINE b == Ev!Beat(w.timeout)
           z == 0
           u == IF w.next <= 0 THEN [w EXCEPT !.next = b, !.beat = z] ELSE w
           r == Ev!Lesser(u.next, u.expire)
           x == Ev!Again(u, r)
           v == [x EXCEPT !.refs = @ - 1]
<1>1. Ev!Rearm(w) = v
    BY DEF Ev!Rearm
<1>2. b \in Int /\ b >= 2 /\ z \in Int /\ z = 0
    BY DEF Ev!Beat, EWrapper
<1>3. /\ w.timeout > 0 /\ w.live /\ w.beat + w.next = b /\ w.next >= -Late
      /\ w.seen + w.expire = Ev!Idle(w.timeout) /\ w.expire >= -Late /\ w.seen >= 0
    BY DEF Clocked
<1>4. /\ u \in EWrapper /\ u.timeout = w.timeout /\ u.expire = w.expire /\ u.seen = w.seen
      /\ u.live = w.live /\ u.beat + u.next = b /\ u.next >= -Late
    <2>1. CASE w.next <= 0
        <3> HIDE DEF b, z
        <3>1. /\ u \in EWrapper /\ u.timeout = w.timeout /\ u.expire = w.expire /\ u.seen = w.seen
              /\ u.live = w.live /\ u.beat = z /\ u.next = b
            BY <1>2, <2>1 DEF EWrapper
        <3>2. z + b = b /\ b >= -Late
            BY <1>2, EventLoopsAssumption
        <3>3. QED
            BY <3>1, <3>2
    <2>2. CASE ~(w.next <= 0)
        BY <1>3, <2>2
    <2>3. QED
        BY <2>1, <2>2
<1> HIDE DEF u
<1>5. r \in Int /\ r <= u.next /\ r <= u.expire
    BY <1>4 DEF Ev!Lesser, EWrapper
<1> HIDE DEF r
<1>6. /\ x.timeout = u.timeout /\ x.next = u.next /\ x.expire = u.expire
      /\ x.beat = u.beat /\ x.seen = u.seen /\ x.due = r /\ x.live = u.live /\ x \in EWrapper
    <2>1. u \in EWrapper
        BY <1>4
    <2>2. x \in EWrapper
        BY <1>5, <2>1, AgainOK
    <2>3. QED
        BY <1>5, <2>1, <2>2, AgainMoments
<1> HIDE DEF x
<1>7. /\ v.timeout = x.timeout /\ v.next = x.next /\ v.expire = x.expire
      /\ v.beat = x.beat /\ v.seen = x.seen /\ v.due = x.due /\ v.live = x.live
    BY <1>6 DEF EWrapper
<1> HIDE DEF v
<1>8. v.due <= v.next /\ v.due <= v.expire
    BY <1>5, <1>6, <1>7
<1>9. /\ v.timeout = w.timeout /\ v.live /\ v.beat + v.next = b /\ v.next >= -Late
      /\ v.seen + v.expire = w.seen + w.expire /\ v.expire = w.expire /\ v.seen = w.seen
    BY <1>3, <1>4, <1>6, <1>7
<1>10. QED
    BY <1>1, <1>3, <1>8, <1>9 DEF Clocked

\* A timer that the loop has collected is about to be called back.
LEMMA ReifyClocked ==
    ASSUME NEW w \in EWrapper, NEW g, Clocked(w, g)
    PROVE  Clocked(Ev!Reify(w), TRUE) /\ Ev!Reify(w).timeout = w.timeout
<1> DEFINE v == Ev!Reify(w)
<1>1. /\ v.timeout = w.timeout /\ v.next = w.next /\ v.expire = w.expire
      /\ v.beat = w.beat /\ v.seen = w.seen /\ v.live = w.live
    <2>1. CASE w.repeat > 0
        <3> DEFINE d == IF w.due + w.repeat > 0 THEN w.due + w.repeat ELSE 0
        <3>1. v = [w EXCEPT !.due = d]
            BY <2>1 DEF Ev!Reify
        <3> HIDE DEF d, v
        <3>2. QED
            BY <3>1 DEF EWrapper
    <2>2. CASE ~(w.repeat > 0)
        <3> DEFINE n == w.refs - 1
        <3>1. v = [w EXCEPT !.armed = FALSE, !.refs = n]
            BY <2>2 DEF Ev!Reify
        <3> HIDE DEF n, v
        <3>2. QED
            BY <3>1 DEF EWrapper
    <2>3. QED
        BY <2>1, <2>2
<1> HIDE DEF v
<1>2. Clocked(v, TRUE)
    BY <1>1 DEF Clocked
<1>3. QED
    BY <1>1, <1>2 DEF v

\* Half a second: the timer is not late, so neither is the connection.
LEMMA OlderClocked ==
    ASSUME NEW w \in EWrapper, Clocked(w, FALSE), w.timeout # 0 => w.timed /\ w.armed,
           w.armed => w.due > -Late, NEW f
    PROVE  Clocked(Ev!Older(w), f)
<1>1. CASE w.timeout # 0
    <2> DEFINE d == w.due - 1
               e == w.expire - 1
               n == w.next - 1
               b == w.beat + 1
               s == w.seen + 1
               u == [w EXCEPT !.due = d]
               v == [u EXCEPT !.expire = e, !.next = n, !.beat = b, !.seen = s]
    <2>1. /\ w.due \in Int /\ w.expire \in Int /\ w.next \in Int /\ w.beat \in Int /\ w.seen \in Int
          /\ w.timeout \in Int
        BY DEF EWrapper
    <2>2. /\ w.timeout > 0 /\ w.live /\ w.beat + w.next = Ev!Beat(w.timeout)
          /\ w.seen + w.expire = Ev!Idle(w.timeout) /\ w.seen >= 0
          /\ w.due <= w.next /\ w.due <= w.expire /\ w.due > -Late
        BY <1>1 DEF Clocked
    <2>3. Ev!Older(w) = v
        BY <1>1 DEF Ev!Older, EWrapper
    <2>4. /\ b + n = w.beat + w.next /\ s + e = w.seen + w.expire /\ s >= 0
          /\ n >= -Late /\ e >= -Late /\ d <= n /\ d <= e
        BY <2>1, <2>2, EventLoopsAssumption
    <2>5. d \in Int /\ e \in Int /\ n \in Int /\ b \in Int /\ s \in Int
        BY <2>1
    <2> HIDE DEF d, e, n, b, s
    <2>6. /\ v.timeout = w.timeout /\ v.live = w.live /\ v.due = d /\ v.next = n /\ v.expire = e
          /\ v.beat = b /\ v.seen = s
        BY DEF EWrapper
    <2> HIDE DEF v
    <2>7. QED
        BY <2>2, <2>3, <2>4, <2>6 DEF Clocked
<1>2. CASE w.timeout = 0
    BY <1>2, OlderOK, NotClocked
<1>3. QED
    BY <1>1, <1>2

-----------------------------------------------------------------------------
(* What every step does to the moments *)

\* An interval is kept, with its moments, as long as there is a wrapper.
Ticking(w, f, r) ==
    /\ Clocked(r.wrapper, f /\ ~r.timer)
    /\ w.timeout # 0 /\ r.wrapper.live => r.wrapper.timeout = w.timeout

LEMMA ReactionsClocked ==
    ASSUME NEW w, NEW ph, NEW f \in BOOLEAN, ConnInv(w, ph, f), ph \notin {"none", "gone"},
           Clocked(w, f), NEW read \in BOOLEAN, NEW r \in Ev!Reactions(w, ph, read)
    PROVE  Ticking(w, f, r)
<1>1. /\ w \in EWrapper /\ Counted(w, f) /\ w.live /\ (ph = "connecting" => w.timeout = 0)
      /\ w.timed \in BOOLEAN
    BY DEF ConnInv, EWrapper
<1>2. ASSUME NEW v, NEW p, NEW fds, r = Ev!Outcome(v, p, fds, FALSE), Moments(v, w), v.live = w.live
      PROVE  Ticking(w, f, r)
    <2>1. Clocked(v, f) /\ v.timeout = w.timeout
        BY <1>2, MomentsClocked DEF Moments
    <2>2. r.wrapper = v /\ r.timer = FALSE
        BY <1>2 DEF Ev!Outcome
    <2>3. QED
        BY <2>1, <2>2 DEF Ticking
<1>3. Moments(w, w)
    BY DEF Moments
<1>4. CASE r = Ev!Outcome(w, ph, {}, FALSE) \/ r = Ev!Outcome(w, "ready", {}, FALSE)
    BY <1>2, <1>3, <1>4
<1>5. CASE r = Ev!Outcome(Ev!Destroy(w), "gone", EvFds, w.timed)
    <2>1. Ev!Destroy(w).timeout = 0 /\ ~Ev!Destroy(w).live
        BY <1>1, DestroyOK
    <2>2. r.wrapper = Ev!Destroy(w)
        BY <1>5 DEF Ev!Outcome
    <2>3. QED
        BY <2>1, <2>2, NotClocked DEF Ticking
<1>6. CASE r = Ev!Outcome(Ev!Unwatch(w), "lost", EvFds, FALSE)
    BY <1>1, <1>2, <1>6, UnwatchMoments
<1>7. CASE \E fd \in EvFds, fl \in SUBSET EFlags :
              r = Ev!Outcome(Ev!Monitor(w, fd, fl), ph, {fd}, FALSE)
    BY <1>1, <1>2, <1>7, MonitorMoments
<1>8. CASE ph = "connecting"
           /\ \E t \in Timeouts : r = Ev!Outcome(Ev!Start(w, t), "tuned", {}, t # 0)
    <2>1. PICK t \in Timeouts : r = Ev!Outcome(Ev!Start(w, t), "tuned", {}, t # 0)
        BY <1>8
    <2>2. t \in Nat /\ w.timeout = 0
        BY <1>1, <1>8, EventLoopsAssumption
    <2>3. r.wrapper = Ev!Start(w, t)
        BY <2>1 DEF Ev!Outcome
    <2>4. CASE t = 0
        <3>1. Ev!Start(w, t) = w
            BY <2>4 DEF Ev!Start
        <3>2. QED
            BY <2>2, <2>3, <3>1, NotClocked DEF Ticking
    <2>5. CASE t # 0
        BY <1>1, <2>2, <2>3, <2>5, StartClocked DEF Ticking
    <2>6. QED
        BY <2>4, <2>5
<1>9. Reacts(w, ph, r)
    BY ReactionCases
<1>10. QED
    BY <1>4, <1>5, <1>6, <1>7, <1>8, <1>9 DEF Reacts

\* One connection changes, and its timer may have been called back.
LEMMA OneClock ==
    ASSUME EvInv, Clocks, NEW c \in Conns, NEW w,
           wrapper' = [wrapper EXCEPT ![c] = w],
           fired' \subseteq fired, fired \ {c} \subseteq fired',
           Clocked(w, c \in fired'),
           wrapper[c].timeout # 0 /\ w.timeout = 0 /\ w.live =>
               wrapper[c].seen >= Ev!Idle(wrapper[c].timeout)
    PROVE  /\ Clocks'
           /\ \A d \in Conns :
                 wrapper[d].timeout # 0 /\ wrapper'[d].timeout = 0 /\ wrapper'[d].live =>
                     wrapper[d].seen >= Ev!Idle(wrapper[d].timeout)
<1>1. \A d \in Conns : wrapper'[d] = IF d = c THEN w ELSE wrapper[d]
    BY DEF EvInv
<1>2. ASSUME NEW d \in Conns PROVE Clocked(wrapper'[d], d \in fired')
    <2>1. CASE d = c
        BY <1>1, <2>1
    <2>2. CASE d # c
        <3>1. wrapper'[d] = wrapper[d] /\ (d \in fired') = (d \in fired)
            BY <1>1, <2>2
        <3>2. Clocked(wrapper[d], d \in fired)
            BY DEF Clocks
        <3>3. QED
            BY <3>1, <3>2
    <2>3. QED
        BY <2>1, <2>2
<1>3. QED
    BY <1>1, <1>2 DEF Clocks

\* What a step promises of the moments.
ClockStep ==
    /\ Clocks'
    /\ \A d \in Conns :
          wrapper[d].timeout # 0 /\ wrapper'[d].timeout = 0 /\ wrapper'[d].live =>
              wrapper[d].seen >= Ev!Idle(wrapper[d].timeout)

LEMMA ConnectClocks == ASSUME EvInv, Clocks, NEW c \in Conns, Ev!Connect(c) PROVE ClockStep
<1> DEFINE w == wrapper[c]
<1>1. w \in EWrapper /\ ~w.live /\ w.timeout = 0
    BY DEF EvInv, ConnInv, Clocks, Clocked, Ev!Connect
<1>2. PICK fd \in EvFds, fl \in SUBSET EFlags :
          Ev!Happens(c, Ev!Outcome(Ev!Monitor(w, fd, fl), "connecting", {fd}, FALSE))
    BY DEF Ev!Connect, EFlags
<1> DEFINE v == Ev!Monitor(w, fd, fl)
<1>3. wrapper' = [wrapper EXCEPT ![c] = v] /\ fired' = fired
    BY <1>2 DEF Ev!Happens, Ev!Outcome
<1>4. v.timeout = 0
    <2> HIDE DEF w
    <2>1. ~w.live \/ ~FALSE
        OBVIOUS
    <2>2. QED
        BY <1>1, <2>1, FirstOK
<1> HIDE DEF v
<1>5. QED
    BY <1>1, <1>3, <1>4, NotClocked, OneClock DEF ClockStep

\* A reaction of a wrapper u with the interval of w.
LEMMA HappensClocks ==
    ASSUME EvInv, Clocks, NEW c \in Conns, NEW u, NEW read \in BOOLEAN,
           phase[c] \notin {"none", "gone"},
           ConnInv(u, phase[c], c \in fired), Clocked(u, c \in fired),
           u.timeout = wrapper[c].timeout,
           NEW r \in Ev!Reactions(u, phase[c], read), Ev!Happens(c, r)
    PROVE  ClockStep
<1> DEFINE f == c \in fired
<1>1. f \in BOOLEAN /\ ConnInv(u, phase[c], f) /\ Clocked(u, f)
    OBVIOUS
<1> HIDE DEF f
<1>2. Ticking(u, f, r) /\ Kept(u, f, r)
    BY <1>1, ReactionsClocked, ReactionsOK
<1>3. wrapper' = [wrapper EXCEPT ![c] = r.wrapper] /\ fired' = IF r.timer THEN fired \ {c} ELSE fired
    BY DEF Ev!Happens
<1>4. (c \in fired') = (f /\ ~r.timer)
    BY <1>2, <1>3 DEF Kept, f
<1>5. Clocked(r.wrapper, c \in fired')
    BY <1>2, <1>4 DEF Ticking
<1>6. ~(wrapper[c].timeout # 0 /\ r.wrapper.timeout = 0 /\ r.wrapper.live)
    BY <1>2 DEF Ticking
<1>7. fired' \subseteq fired /\ fired \ {c} \subseteq fired'
    BY <1>3
<1>8. QED
    BY <1>3, <1>5, <1>6, <1>7, OneClock DEF ClockStep

LEMMA UserCallsClocks == ASSUME EvInv, Clocks, NEW c \in Conns, Ev!UserCalls(c) PROVE ClockStep
<1>1. PICK r \in Ev!Reactions(wrapper[c], phase[c], FALSE) : Ev!Happens(c, r)
    BY DEF Ev!UserCalls
<1>2. /\ ConnInv(wrapper[c], phase[c], c \in fired) /\ Clocked(wrapper[c], c \in fired)
      /\ phase[c] \notin {"none", "gone"}
    BY DEF EvInv, Clocks, Ev!UserCalls
<1>3. QED
    BY <1>1, <1>2, HappensClocks

LEMMA OnActiveClocks == ASSUME EvInv, Clocks, NEW c \in Conns, Ev!OnActive(c) PROVE ClockStep
<1>1. PICK a \in active :
          /\ a.conn = c
          /\ \E r \in Ev!Reactions(Ev!Extend(wrapper[c], a.flags), phase[c],
                                   "readable" \in a.flags) : Ev!Happens(c, r)
    BY DEF Ev!OnActive
<1> DEFINE w == wrapper[c]
           u == Ev!Extend(w, a.flags)
           f == c \in fired
           read == "readable" \in a.flags
<1>2. PICK r \in Ev!Reactions(u, phase[c], read) : Ev!Happens(c, r)
    BY <1>1
<1>3. ConnInv(w, phase[c], f) /\ Waited(a, w) /\ w \in EWrapper /\ Clocked(w, f)
    BY <1>1 DEF EvInv, ConnInv, Clocks
<1>4. phase[c] \notin {"none", "gone"}
    BY <1>3 DEF ConnInv, Empty, Waited
<1>5. f \in BOOLEAN /\ read \in BOOLEAN
    OBVIOUS
<1>6. Same(u, w) /\ u.timeout = w.timeout /\ Clocked(u, f)
    <2> HIDE DEF w, f
    <2>1. QED
        BY <1>3, ExtendOK, ExtendClocked
<1>7. ConnInv(u, phase[c], f)
    <2> HIDE DEF w, f, u
    <2>1. QED
        BY <1>3, <1>5, <1>6, SameInv
<1> HIDE DEF u, read
<1>8. QED
    BY <1>2, <1>4, <1>5, <1>6, <1>7, HappensClocks

LEMMA OnExpiredClocks == ASSUME EvInv, Clocks, NEW c \in Conns, Ev!OnExpired(c) PROVE ClockStep
<1> DEFINE o == wrapper[c]
           m == Ev!Lesser(o.refs + 1, MaxRefs)
           w == [o EXCEPT !.refs = m]
           off == [w EXCEPT !.timed = FALSE, !.timeout = 0]
<1>1. /\ c \in fired /\ fired' = fired \ {c} /\ o \in EWrapper /\ Clocked(o, c \in fired)
    BY DEF Ev!OnExpired, EvInv, Clocks
<1>2. \/ /\ wrapper' = [wrapper EXCEPT ![c] = off] \/ wrapper' = [wrapper EXCEPT ![c] = Ev!Unwatch(off)]
         /\ w.timeout = 0 \/ w.expire <= 0
      \/ /\ wrapper' = [wrapper EXCEPT ![c] = Ev!Rearm(w)]
         /\ w.timeout # 0 /\ ~(w.expire <= 0)
    BY DEF Ev!OnExpired
<1>3. fired' \subseteq fired /\ fired \ {c} \subseteq fired'
    BY <1>1
<1>4. w \in EWrapper /\ Moments(w, o) /\ w.live = o.live
    <2>1. m \in Int
        BY <1>1, EventLoopsAssumption DEF Ev!Lesser, EWrapper
    <2> HIDE DEF o, m
    <2>2. QED
        BY <1>1, <2>1 DEF EWrapper, Moments
<1>5. Clocked(w, c \in fired)
    <2> DEFINE f == c \in fired
    <2>1. Clocked(o, f)
        BY <1>1
    <2> HIDE DEF w, o, f
    <2>2. Clocked(w, f)
        BY <1>4, <2>1, MomentsClocked
    <2>3. QED
        BY <2>2 DEF f
<1> HIDE DEF w
<1>6. off \in EWrapper /\ off.timeout = 0
    <2> DEFINE z == 0
               u == [w EXCEPT !.timed = FALSE]
               v == [u EXCEPT !.timeout = z]
    <2>1. off = v
        OBVIOUS
    <2>2. u \in EWrapper
        BY <1>4 DEF EWrapper
    <2>3. z = 0 /\ z \in Int
        OBVIOUS
    <2> HIDE DEF u, z, off
    <2>4. v \in EWrapper /\ v.timeout = z
        BY <2>2, <2>3 DEF EWrapper
    <2>5. QED
        BY <2>1, <2>3, <2>4
<1> HIDE DEF off
<1>7. Ev!Unwatch(off).timeout = 0
    BY <1>6, UnwatchMoments DEF Moments
<1>8. CASE w.timeout = 0 \/ w.expire <= 0
    <2>1. PICK v \in {off, Ev!Unwatch(off)} : wrapper' = [wrapper EXCEPT ![c] = v]
        BY <1>2, <1>8
    <2>2. v.timeout = 0
        BY <1>6, <1>7, <2>1
    <2>3. wrapper[c].timeout # 0 => wrapper[c].seen >= Ev!Idle(wrapper[c].timeout)
        <3>1. o.timeout # 0 => o.expire <= 0 /\ o.seen + o.expire = Ev!Idle(o.timeout)
            BY <1>1, <1>4, <1>8 DEF Moments, Clocked
        <3>2. o.seen \in Int /\ o.expire \in Int
            BY <1>1 DEF EWrapper
        <3>3. QED
            BY <3>1, <3>2
    <2>4. QED
        BY <1>3, <2>1, <2>2, <2>3, NotClocked, OneClock DEF ClockStep
<1>9. CASE w.timeout # 0 /\ ~(w.expire <= 0)
    <2> DEFINE v == Ev!Rearm(w)
    <2>1. wrapper' = [wrapper EXCEPT ![c] = v]
        BY <1>2, <1>9
    <2>2. Clocked(v, c \in fired') /\ v.timeout # 0
        BY <1>4, <1>5, <1>9, RearmClocked
    <2> HIDE DEF v
    <2>3. QED
        BY <1>3, <2>1, <2>2, OneClock DEF ClockStep
<1>10. QED
    BY <1>8, <1>9

LEMMA PollClocks == ASSUME EvInv, Clocks, Ev!Poll PROVE ClockStep
<1> DEFINE due == {c \in Conns : wrapper[c].armed /\ wrapper[c].due <= 0}
<1>1. /\ fired = {} /\ fired' = due
      /\ wrapper' = [c \in Conns |-> IF c \in due THEN Ev!Reify(wrapper[c]) ELSE wrapper[c]]
    BY DEF Ev!Poll
<1>2. ASSUME NEW c \in Conns
      PROVE  Clocked(wrapper'[c], c \in fired') /\ wrapper'[c].timeout = wrapper[c].timeout
    <2> DEFINE w == wrapper[c]
    <2>1. w \in EWrapper /\ Clocked(w, FALSE)
        <3>1. Clocked(w, c \in fired) /\ (c \in fired) = FALSE
            BY <1>1 DEF Clocks
        <3>2. QED
            BY <3>1 DEF EvInv
    <2>2. CASE c \in due
        <3>1. w.armed /\ wrapper'[c] = Ev!Reify(w) /\ (c \in fired') = TRUE
            BY <1>1, <2>2
        <3> HIDE DEF w
        <3>2. Clocked(Ev!Reify(w), TRUE) /\ Ev!Reify(w).timeout = w.timeout
            BY <2>1, ReifyClocked
        <3>3. QED
            BY <3>1, <3>2 DEF w
    <2>3. CASE c \notin due
        <3>1. wrapper'[c] = w /\ (c \in fired') = FALSE
            BY <1>1, <2>3
        <3>2. QED
            BY <2>1, <3>1
    <2>4. QED
        BY <2>2, <2>3
<1>3. QED
    BY <1>2 DEF ClockStep, Clocks

LEMMA TickClocks == ASSUME EvInv, Clocks, Ev!Tick PROVE ClockStep
<1>1. /\ fired = {} /\ fired' = fired
      /\ \A c \in Conns : wrapper[c].armed => wrapper[c].due > -Late
      /\ wrapper' = [c \in Conns |-> Ev!Older(wrapper[c])]
    BY DEF Ev!Tick
<1>2. ASSUME NEW c \in Conns
      PROVE  Clocked(wrapper'[c], c \in fired') /\ wrapper'[c].timeout = wrapper[c].timeout
    <2> DEFINE w == wrapper[c]
               g == c \in fired'
    <2>1. w \in EWrapper /\ Clocked(w, FALSE) /\ (w.timeout # 0 => w.timed /\ w.armed)
        <3>1. Clocked(w, c \in fired) /\ ConnInv(w, phase[c], c \in fired) /\ (c \in fired) = FALSE
            BY <1>1 DEF Clocks, EvInv
        <3>2. QED
            BY <3>1 DEF ConnInv, Counted
    <2>2. wrapper'[c] = Ev!Older(w) /\ (w.armed => w.due > -Late)
        BY <1>1
    <2> HIDE DEF w, g
    <2>3. Clocked(Ev!Older(w), g) /\ Ev!Older(w).timeout = w.timeout
        BY <2>1, <2>2, OlderClocked, OlderOK
    <2>4. QED
        BY <2>2, <2>3 DEF w, g
<1>3. QED
    BY <1>2 DEF ClockStep, Clocks

LEMMA ClocksInit == Init => Clocks
<1> SUFFICES ASSUME Init, NEW c \in Conns PROVE Clocked(wrapper[c], c \in fired)
    BY DEF Clocks
<1>1. wrapper[c].timeout = 0
    BY NoWrapperOK DEF Init, Ev!Init
<1>2. QED
    BY <1>1, NotClocked

LEMMA ClocksNext == ASSUME EvInv, Clocks, [Next]_vars PROVE ClockStep
<1>1. CASE \E c \in Conns : Ev!Connect(c)
    BY <1>1, ConnectClocks
<1>2. CASE \E c \in Conns : Ev!UserCalls(c)
    BY <1>2, UserCallsClocks
<1>3. CASE Ev!Poll
    BY <1>3, PollClocks
<1>4. CASE Ev!Callbacks
    BY <1>4, OnActiveClocks, OnExpiredClocks DEF Ev!Callbacks
<1>5. CASE Ev!Tick
    BY <1>5, TickClocks
<1>6. CASE UNCHANGED evVars
    BY <1>6 DEF evVars, ClockStep, Clocks
<1>7. QED
    BY <1>1, <1>2, <1>3, <1>4, <1>5, <1>6 DEF Next, EvStep, PollStep, AsioStep, vars

\* Wherever the moments are moved, what is left and what is gone make up the
\* interval, and the timer comes before either.
THEOREM EvClocks == Spec => []Clocks
<1>1. EvInv /\ Clocks /\ [Next]_vars => Clocks'
    BY ClocksNext DEF ClockStep
<1>2. QED
    BY <1>1, ClocksInit, EvInvariant, PTL DEF Spec

\* While an interval is negotiated a heartbeat is sent every half of it, but for
\* how late the loop is: for every interval, lateness and number of connections.
THEOREM EvHeartbeatsInTime == Spec => []HeartbeatsInTime
<1>1. EvInv /\ Clocks => HeartbeatsInTime
    <2> SUFFICES ASSUME EvInv, Clocks, NEW c \in Conns, wrapper[c].timeout # 0
                 PROVE  wrapper[c].beat <= Ev!Beat(wrapper[c].timeout) + Late
        BY DEF HeartbeatsInTime, Ev!HeartbeatsInTime
    <2>1. /\ wrapper[c].beat + wrapper[c].next = Ev!Beat(wrapper[c].timeout)
          /\ wrapper[c].next >= -Late
        BY DEF Clocks, Clocked
    <2>2. wrapper[c].beat \in Int /\ wrapper[c].next \in Int
        BY DEF EvInv, EWrapper
    <2>3. QED
        BY <2>1, <2>2, EventLoopsAssumption
<1>2. QED
    BY <1>1, EvClocks, EvInvariant, PTL

\* A server that is silent for 1.5 times the interval is noticed.
THEOREM EvIdleNoticed == Spec => []IdleNoticed
<1>1. EvInv /\ Clocks => IdleNoticed
    <2> SUFFICES ASSUME EvInv, Clocks, NEW c \in Conns, wrapper[c].timeout # 0
                 PROVE  wrapper[c].seen <= Ev!Idle(wrapper[c].timeout) + Late
        BY DEF IdleNoticed, Ev!IdleNoticed
    <2>1. /\ wrapper[c].seen + wrapper[c].expire = Ev!Idle(wrapper[c].timeout)
          /\ wrapper[c].expire >= -Late
        BY DEF Clocks, Clocked
    <2>2. wrapper[c].seen \in Int /\ wrapper[c].expire \in Int
        BY DEF EvInv, EWrapper
    <2>3. QED
        BY <2>1, <2>2, EventLoopsAssumption
<1>2. QED
    BY <1>1, EvClocks, EvInvariant, PTL

\* And no other: the heartbeats of a connection whose server has been heard from
\* within that time go on as long as it has a wrapper.
THEOREM EvClosesIdleOnly == Spec => ClosesIdleOnly
<1>1. EvInv /\ Clocks /\ [Next]_vars =>
          [\A c \in Conns :
              (wrapper[c].timeout # 0 /\ wrapper'[c].timeout = 0 /\ wrapper'[c].live)
                  => wrapper[c].seen >= Ev!Idle(wrapper[c].timeout)]_(Ev!vars)
    BY ClocksNext DEF ClockStep
<1>2. QED
    BY <1>1, EvClocks, EvInvariant, PTL DEF Spec, ClosesIdleOnly, Ev!ClosesIdleOnly

-----------------------------------------------------------------------------
\* What AMQP-CPP sees of the handler: the interest in every descriptor of every
\* connection.
EvInterest == [k \in Conns \X EvFds |-> wrapper[k[1]].watch[k[2]]]

LEMMA EvInterestOK ==
    ASSUME EvInv' PROVE EvInterest' \in [Conns \X EvFds -> SUBSET EFlags]
<1> SUFFICES ASSUME NEW k \in Conns \X EvFds
             PROVE wrapper'[k[1]].watch[k[2]] \in SUBSET EFlags
    BY DEF EvInterest
<1>1. k[1] \in Conns /\ k[2] \in EvFds
    OBVIOUS
<1>2. wrapper'[k[1]].watch \in EWatch
    BY <1>1 DEF EvInv, EWrapper
<1> QED BY <1>1, <1>2 DEF EWatch

\* A step without a call is a change of interest.
LEMMA EvMonitors ==
    ASSUME EvInv', evCall' = evCall PROVE Ev!Watch!Monitor
<1>1. EvInterest' \in [Conns \X EvFds -> SUBSET EFlags]
    BY EvInterestOK
<1> QED BY <1>1 DEF Ev!Watch!Monitor, EvInterest, EFlags

\* A call is one for events that are wanted.
LEMMA EvProcesses ==
    ASSUME EvInv, EvInv', NEW c \in Conns, Ev!OnActive(c) PROVE Ev!Watch!Next
<1>1. PICK a \in active :
          /\ a.conn = c
          /\ evCall' = [key |-> <<c, a.fd>>, flags |-> a.flags, odd |-> ~evCall.odd]
    BY DEF Ev!OnActive
<1>2. /\ a.fd \in EvFds /\ a.flags \in SUBSET EFlags /\ a.flags # {}
      /\ a.flags \subseteq wrapper[c].watch[a.fd]
    BY <1>1 DEF EvInv, Waited
<1> DEFINE k == <<c, a.fd>>
<1>3. k \in Conns \X EvFds /\ EvInterest[k] = wrapper[c].watch[a.fd]
    BY <1>2 DEF EvInterest
<1>4. EvInterest' \in [Conns \X EvFds -> SUBSET EFlags]
    BY EvInterestOK
<1>5. Ev!Watch!Process(k)
    <2>1. EvInterest[k] # {} /\ a.flags \in (SUBSET EFlags) \ {{}} /\ a.flags \subseteq EvInterest[k]
        BY <1>2, <1>3
    <2> QED BY <1>1, <1>4, <2>1 DEF Ev!Watch!Process, EvInterest, EFlags
<1> QED BY <1>3, <1>5 DEF Ev!Watch!Next

LEMMA EvWatchStep ==
    ASSUME EvInv, EvInv', [Next]_vars PROVE [Ev!Watch!Next]_(Ev!Watch!vars)
<1>1. CASE \E c \in Conns : Ev!Connect(c) \/ Ev!UserCalls(c)
    BY <1>1, EvMonitors DEF Ev!Connect, Ev!UserCalls, Ev!Watch!Next
<1>2. CASE Ev!Poll \/ Ev!Tick
    BY <1>2, EvMonitors DEF Ev!Poll, Ev!Tick, Ev!Watch!Next
<1>3. CASE Ev!Callbacks
    BY <1>3, EvMonitors, EvProcesses DEF Ev!Callbacks, Ev!OnExpired, Ev!Watch!Next
<1>4. CASE UNCHANGED evVars
    BY <1>4, EvMonitors DEF evVars, Ev!Watch!Next
<1> QED BY <1>1, <1>2, <1>3, <1>4 DEF Next, EvStep, PollStep, AsioStep, vars

LEMMA EvWatchInit ==
    ASSUME Init PROVE Ev!Watch!Init
<1>1. EvInv /\ Ev!Init
    BY EvInitInv DEF Init
<1>2. EvInterest = [k \in Conns \X EvFds |-> {}]
    BY <1>1 DEF EvInterest, Ev!Init, Ev!NoWrapper
<1>3. EvInterest \in [Conns \X EvFds -> SUBSET EFlags] /\ evCall \in ECall
    BY <1>1, <1>2 DEF EvInv
<1> QED BY <1>2, <1>3 DEF Ev!Watch!Init, Ev!Watch!TypeOK, EvInterest, EFlags, ECall

\* libev's handler does what AMQP-CPP asks of an event loop.
THEOREM EvIsFdWatch == Spec => Ev!IsFdWatch
<1>1. EvInv /\ EvInv' /\ [Next]_vars => [Ev!Watch!Next]_(Ev!Watch!vars)
    BY EvWatchStep
<1> QED BY <1>1, EvWatchInit, EvInvariant, PTL DEF Spec, Ev!IsFdWatch, Ev!Watch!Spec

-----------------------------------------------------------------------------
(* libuv and libevent *)

PFlags == Poll!Flags

PWatcher == [conn : PollConns \cup {"none"}, flags : SUBSET PFlags]

PEvent == [fd : PollFds, flags : SUBSET PFlags, error : BOOLEAN]

PCall == [key : PollFds, flags : SUBSET PFlags, odd : BOOLEAN]

\* No watcher, or one that calls the owner for something.
Owned(w, c) ==
    /\ w \in PWatcher /\ c \in PollConns \cup {"none"}
    /\ c = "none" => w = Poll!None
    /\ c # "none" => w.conn = c /\ w.flags # {}

\* An event that the loop holds is one that its watcher waits for.
Awaited(p, w) ==
    /\ p \in PEvent
    /\ w # Poll!None
    /\ p.error \/ (p.flags # {} /\ p.flags \subseteq w.flags)

PollInv ==
    /\ watchers \in [PollFds -> PWatcher]
    /\ owner \in [PollFds -> PollConns \cup {"none"}]
    /\ pollCall \in PCall
    /\ \A fd \in PollFds : Owned(watchers[fd], owner[fd])
    /\ \A p \in pending : Awaited(p, watchers[p.fd])
    /\ \A p \in pending : p.error => handler = "uv"

-----------------------------------------------------------------------------
\* What a watcher and its owner are after monitor(), and what is left of the
\* events that the loop holds.
LEMMA MonitorOwned ==
    ASSUME PollInv, NEW c \in PollConns, NEW fd \in PollFds, NEW fl \in SUBSET PFlags,
           owner[fd] \in {"none", c},
           watchers' = Poll!Monitor(watchers, c, fd, fl),
           owner' = [owner EXCEPT ![fd] = IF fl = {} THEN "none" ELSE c],
           pending' \subseteq Poll!Keep(fd),
           pollCall' \in PCall, handler' = handler
    PROVE PollInv'
<1> DEFINE w == IF fl = {} THEN Poll!None
                ELSE [conn |-> IF watchers[fd] = Poll!None THEN c ELSE watchers[fd].conn,
                      flags |-> fl]
           o == IF fl = {} THEN "none" ELSE c
<1>1. /\ watchers \in [PollFds -> PWatcher] /\ owner \in [PollFds -> PollConns \cup {"none"}]
      /\ watchers[fd] \in PWatcher /\ Owned(watchers[fd], owner[fd])
    BY DEF PollInv
<1>2. watchers' = [watchers EXCEPT ![fd] = w] /\ owner' = [owner EXCEPT ![fd] = o]
    BY DEF Poll!Monitor
<1>3. watchers[fd] # Poll!None => watchers[fd].conn = c
    BY <1>1 DEF Owned
<1>4. Owned(w, o)
    <2>1. CASE fl = {}
        BY <2>1 DEF Owned, Poll!None, PWatcher
    <2>2. CASE fl # {}
        <3>1. w = [conn |-> c, flags |-> fl] /\ o = c
            BY <1>3, <2>2
        <3>2. c # "none"
            BY EventLoopsAssumption
        <3> QED BY <2>2, <3>1, <3>2 DEF Owned, PWatcher
    <2> QED BY <2>1, <2>2
<1> HIDE DEF w, o
<1>5. w \in PWatcher /\ o \in PollConns \cup {"none"}
    BY <1>4 DEF Owned
<1>6. /\ watchers' \in [PollFds -> PWatcher]
      /\ owner' \in [PollFds -> PollConns \cup {"none"}]
    BY <1>1, <1>2, <1>5
<1>7. ASSUME NEW g \in PollFds PROVE Owned(watchers'[g], owner'[g])
    <2>1. CASE g = fd
        BY <1>1, <1>2, <1>4, <2>1
    <2>2. CASE g # fd
        <3>1. watchers'[g] = watchers[g] /\ owner'[g] = owner[g]
            BY <1>1, <1>2, <2>2
        <3>2. Owned(watchers[g], owner[g])
            BY DEF PollInv
        <3> QED BY <3>1, <3>2
    <2> QED BY <2>1, <2>2
<1>8. ASSUME NEW p \in pending' PROVE Awaited(p, watchers'[p.fd]) /\ (p.error => handler' = "uv")
    <2>1. p \in pending /\ p.fd # fd
        BY <1>8 DEF Poll!Keep
    <2>2. Awaited(p, watchers[p.fd]) /\ (p.error => handler = "uv")
        BY <2>1 DEF PollInv
    <2>3. p.fd \in PollFds
        BY <2>2 DEF Awaited, PEvent
    <2>4. watchers'[p.fd] = watchers[p.fd]
        BY <1>1, <1>2, <2>1, <2>3
    <2> QED BY <2>2, <2>4
<1> QED BY <1>6, <1>7, <1>8 DEF PollInv, Owned, Awaited

LEMMA OpenInv ==
    ASSUME PollInv, NEW c \in PollConns, NEW fd \in PollFds, Poll!Open(c, fd),
           handler' = handler
    PROVE PollInv'
<1>1. PICK fl \in (SUBSET PFlags) \ {{}} : watchers' = Poll!Monitor(watchers, c, fd, fl)
    BY DEF Poll!Open, Poll!Monitors, PFlags
<1>2. /\ owner[fd] = "none" /\ owner' = [owner EXCEPT ![fd] = c]
      /\ pending' = Poll!Keep(fd) /\ pollCall' = pollCall
    BY DEF Poll!Open
<1>3. owner' = [owner EXCEPT ![fd] = IF fl = {} THEN "none" ELSE c]
    <2>1. (IF fl = {} THEN "none" ELSE c) = c
        BY <1>1
    <2> QED BY <1>2, <2>1
<1>4. pollCall' \in PCall
    BY <1>2 DEF PollInv
<1> QED BY <1>1, <1>2, <1>3, <1>4, MonitorOwned

\* A connection changes what it wants; nothing else is called for the descriptor.
LEMMA ChangesInv ==
    ASSUME PollInv, NEW c \in PollConns, NEW fd \in PollFds, Poll!Changes(c, fd),
           pending' \subseteq Poll!Keep(fd), pollCall' \in PCall, handler' = handler
    PROVE PollInv'
<1>1. PICK fl \in SUBSET PFlags :
          /\ watchers' = Poll!Monitor(watchers, c, fd, fl)
          /\ owner' = IF fl = {} THEN [owner EXCEPT ![fd] = "none"] ELSE owner
    BY DEF Poll!Changes, Poll!Monitors, PFlags
<1>2. owner[fd] = c
    BY DEF Poll!Changes
<1>3. owner' = [owner EXCEPT ![fd] = IF fl = {} THEN "none" ELSE c]
    <2>1. owner \in [PollFds -> PollConns \cup {"none"}]
        BY DEF PollInv
    <2>2. owner = [owner EXCEPT ![fd] = c]
        BY <1>2, <2>1
    <2>3. CASE fl = {}
        BY <1>1, <2>3
    <2>4. CASE fl # {}
        BY <1>1, <2>2, <2>4
    <2> QED BY <2>3, <2>4
<1> QED BY <1>1, <1>2, <1>3, MonitorOwned

LEMMA WithdrawsInv ==
    ASSUME PollInv, Poll!Withdraws, handler' = handler PROVE PollInv'
<1>1. PICK c \in PollConns, fd \in PollFds : Poll!Changes(c, fd) /\ pending' = Poll!Keep(fd)
    BY DEF Poll!Withdraws
<1>2. pollCall' \in PCall
    BY DEF PollInv, Poll!Withdraws
<1> QED BY <1>1, <1>2, ChangesInv

LEMMA PollInvPoll ==
    ASSUME PollInv, Poll!Poll, handler' = handler PROVE PollInv'
<1> DEFINE Watched == {g \in PollFds \ stopped : watchers[g] # Poll!None}
           E(fd, fl, error) ==
               [fd |-> fd, flags |-> fl \cap watchers[fd].flags, error |-> error]
           All == {[fd |-> g, flags |-> watchers[g].flags, error |-> FALSE] : g \in Watched}
<1>1. UNCHANGED <<watchers, owner, pollCall>>
    BY DEF Poll!Poll
<1>2. PICK fd \in PollFds, fl \in SUBSET PFlags, error \in BOOLEAN :
          /\ watchers[fd] # Poll!None
          /\ error => handler = "uv"
          /\ error \/ E(fd, fl, error).flags # {}
          /\ \E others \in SUBSET All : pending' = {E(fd, fl, error)} \cup {p \in others : p.fd # fd}
    BY DEF Poll!Poll, PFlags
<1>3. ASSUME NEW g \in PollFds
      PROVE /\ watchers[g] \in PWatcher
            /\ watchers[g] # Poll!None => watchers[g].flags # {}
    BY DEF PollInv, Owned
<1>4. ASSUME NEW p \in pending' PROVE Awaited(p, watchers[p.fd]) /\ (p.error => handler = "uv")
    <2>1. CASE p = E(fd, fl, error)
        <3>1. p.fd = fd /\ p.error = error /\ p.flags = fl \cap watchers[fd].flags /\ p \in PEvent
            BY <1>3, <2>1 DEF PEvent, PWatcher
        <3> QED BY <1>2, <3>1 DEF Awaited
    <2>2. CASE p \in All
        <3>1. PICK g \in Watched : p = [fd |-> g, flags |-> watchers[g].flags, error |-> FALSE]
            BY <2>2
        <3>2. watchers[g] \in PWatcher /\ watchers[g].flags # {} /\ watchers[g] # Poll!None
            BY <1>3, <3>1
        <3> QED BY <3>1, <3>2 DEF Awaited, PEvent, PWatcher
    <2> QED BY <1>2, <1>4, <2>1, <2>2
<1> QED BY <1>1, <1>4 DEF PollInv

\* The callback is made on the owner of the descriptor.
LEMMA CallbackConn ==
    ASSUME PollInv, NEW p \in pending
    PROVE /\ p \in PEvent /\ watchers[p.fd].conn \in PollConns
          /\ watchers[p.fd].conn = owner[p.fd]
<1>1. Awaited(p, watchers[p.fd])
    BY DEF PollInv
<1>2. p.fd \in PollFds
    BY <1>1 DEF Awaited, PEvent
<1>3. Owned(watchers[p.fd], owner[p.fd])
    BY <1>2 DEF PollInv
<1> QED BY <1>1, <1>3 DEF Awaited, Owned

LEMMA CallbackInv ==
    ASSUME PollInv, Poll!Callback, handler' = handler PROVE PollInv'
<1> DEFINE Fl(p) == IF handler = "uv" THEN Poll!UvFlags(p) ELSE Poll!EventFlags(p)
<1>1. PICK p \in pending :
          /\ pollCall' = [key |-> p.fd, flags |-> Fl(p), odd |-> ~pollCall.odd]
          /\ \/ /\ pending' = pending \ {p}
                /\ UNCHANGED <<watchers, owner>>
             \/ \E fd \in PollFds :
                   Poll!Changes(watchers[p.fd].conn, fd) /\ pending' = Poll!Keep(fd) \ {p}
    BY DEF Poll!Callback
<1>2. p \in PEvent /\ watchers[p.fd].conn \in PollConns
    BY CallbackConn
<1>3. Fl(p) \in SUBSET PFlags
    BY <1>2 DEF Poll!UvFlags, Poll!EventFlags, PEvent, PFlags
<1>4. pollCall' \in PCall
    <2>1. pollCall.odd \in BOOLEAN
        BY DEF PollInv, PCall
    <2>2. (~pollCall.odd) \in BOOLEAN
        OBVIOUS
    <2>3. p.fd \in PollFds
        BY <1>2 DEF PEvent
    <2> HIDE DEF Fl
    <2>4. [key |-> p.fd, flags |-> Fl(p), odd |-> ~pollCall.odd] \in PCall
        BY <1>3, <2>2, <2>3 DEF PCall
    <2> QED BY <1>1, <2>4
<1>5. CASE pending' = pending \ {p} /\ UNCHANGED <<watchers, owner>>
    BY <1>4, <1>5 DEF PollInv
<1>6. ASSUME NEW fd \in PollFds, Poll!Changes(watchers[p.fd].conn, fd),
             pending' = Poll!Keep(fd) \ {p}
      PROVE PollInv'
    <2>1. pending' \subseteq Poll!Keep(fd)
        BY <1>6
    <2> QED BY <1>2, <1>4, <1>6, <2>1, ChangesInv
<1> QED BY <1>1, <1>5, <1>6
-----------------------------------------------------------------------------
LEMMA PollInitInv == ASSUME Init PROVE PollInv
<1>1. /\ watchers = [fd \in PollFds |-> Poll!None] /\ owner = [fd \in PollFds |-> "none"]
      /\ pending = {}
    BY DEF Init, Poll!Start
<1>2. Poll!None \in PWatcher
    BY DEF Poll!None, PWatcher
<1>3. pollCall \in PCall
    <2>1. (CHOOSE fd \in PollFds : TRUE) \in PollFds
        BY EventLoopsAssumption
    <2> QED BY <2>1 DEF Init, Poll!Start, PCall
<1> QED BY <1>1, <1>2, <1>3 DEF PollInv, Owned

LEMMA PollInvariant == Spec => []PollInv
<1>1. PollInv /\ [Next]_vars => PollInv'
    <2> SUFFICES ASSUME PollInv, [Next]_vars PROVE PollInv'
        OBVIOUS
    <2>1. handler' = handler
        BY DEF Next, EvStep, PollStep, AsioStep, vars
    <2>2. CASE \E c \in PollConns, fd \in PollFds : Poll!Open(c, fd)
        BY <2>1, <2>2, OpenInv
    <2>3. CASE Poll!Withdraws
        BY <2>1, <2>3, WithdrawsInv
    <2>4. CASE Poll!Poll
        BY <2>1, <2>4, PollInvPoll
    <2>5. CASE Poll!Callback
        BY <2>1, <2>5, CallbackInv
    <2>6. CASE UNCHANGED pollVars
        BY <2>1, <2>6 DEF pollVars, PollInv
    <2> QED BY <2>2, <2>3, <2>4, <2>5, <2>6 DEF Next, EvStep, PollStep, AsioStep, vars
<1> QED BY <1>1, PollInitInv, PTL DEF Spec

\* A descriptor is watched for the connection that it belongs to, also when its
\* number has belonged to another one before.
THEOREM PollWatchedForOwner == Spec => []WatchedForOwner
<1>1. PollInv => WatchedForOwner
    <2> SUFFICES ASSUME PollInv, NEW fd \in PollFds
                 PROVE /\ watchers[fd] # Poll!None => watchers[fd].conn = owner[fd]
                       /\ owner[fd] # "none" => watchers[fd] # Poll!None
        BY DEF WatchedForOwner, Poll!WatchedForOwner
    <2>1. Owned(watchers[fd], owner[fd])
        BY DEF PollInv
    <2>2. owner[fd] # "none" => watchers[fd].conn # "none"
        BY <2>1 DEF Owned
    <2>3. Poll!None.conn = "none"
        BY DEF Poll!None
    <2> QED BY <2>1, <2>2, <2>3 DEF Owned
<1> QED BY <1>1, PollInvariant, PTL

\* Only the connection that owns a descriptor is called for it.
LEMMA CallbackOwner ==
    ASSUME PollInv, Poll!Callback PROVE called' = owner[pollCall'.key]
<1>1. PICK p \in pending : called' = watchers[p.fd].conn /\ pollCall'.key = p.fd
    BY DEF Poll!Callback
<1> QED BY <1>1, CallbackConn

THEOREM PollCallsOwner == Spec => CallsOwner
<1>1. PollInv /\ [Next]_vars => [pollCall' # pollCall => called' = owner[pollCall'.key]]_(Poll!vars)
    <2> SUFFICES ASSUME PollInv, [Next]_vars, pollCall' # pollCall
                 PROVE called' = owner[pollCall'.key]
        OBVIOUS
    <2>1. Poll!Callback
        BY DEF Next, EvStep, PollStep, AsioStep, vars, pollVars,
               Poll!Open, Poll!Withdraws, Poll!Poll
    <2> QED BY <2>1, CallbackOwner
<1> QED BY <1>1, PollInvariant, PTL DEF Spec, CallsOwner, Poll!CallsOwner

-----------------------------------------------------------------------------
\* What AMQP-CPP sees of the two handlers.
PollInterest == [fd \in PollFds |-> watchers[fd].flags]

LEMMA PollMonitors ==
    ASSUME PollInv', pollCall' = pollCall PROVE Poll!Watch!Monitor
<1>1. PollInterest' \in [PollFds -> SUBSET PFlags]
    BY DEF PollInv, PollInterest, PWatcher
<1> QED BY <1>1 DEF Poll!Watch!Monitor, PollInterest, PFlags

\* libuv reports an error as all events; else a call is one for events that the
\* watcher waits for.
LEMMA PollProcesses ==
    ASSUME PollInv, PollInv', Poll!Callback PROVE Poll!Watch!Next
<1> DEFINE Fl(p) == IF handler = "uv" THEN Poll!UvFlags(p) ELSE Poll!EventFlags(p)
<1>1. PICK p \in pending : pollCall' = [key |-> p.fd, flags |-> Fl(p), odd |-> ~pollCall.odd]
    BY DEF Poll!Callback
<1>2. p \in PEvent /\ Awaited(p, watchers[p.fd]) /\ (p.error => handler = "uv") /\ p.fd \in PollFds
    BY DEF PollInv, Awaited, PEvent
<1>3. PollInterest[p.fd] = watchers[p.fd].flags /\ PollInterest[p.fd] # {}
    <2>1. Owned(watchers[p.fd], owner[p.fd])
        BY <1>2 DEF PollInv
    <2> QED BY <1>2, <2>1 DEF PollInterest, Owned, Awaited
<1>4. /\ Fl(p) \in (SUBSET PFlags) \ {{}}
      /\ Fl(p) \subseteq PollInterest[p.fd] \/ Fl(p) = PFlags
    <2>1. CASE p.error
        BY <1>2, <2>1 DEF Poll!UvFlags, PFlags, Poll!Flags
    <2>2. CASE ~p.error
        BY <1>2, <1>3, <2>2 DEF Poll!UvFlags, Poll!EventFlags, PFlags, PEvent, Awaited
    <2> QED BY <2>1, <2>2
<1> HIDE DEF Fl
<1>5. PollInterest' \in [PollFds -> SUBSET PFlags]
    BY DEF PollInv, PollInterest, PWatcher
<1>6. Poll!Watch!Process(p.fd)
    BY <1>1, <1>3, <1>4, <1>5 DEF Poll!Watch!Process, PollInterest, PFlags
<1> QED BY <1>2, <1>6 DEF Poll!Watch!Next

LEMMA PollWatchStep ==
    ASSUME PollInv, PollInv', [Next]_vars PROVE [Poll!Watch!Next]_(Poll!Watch!vars)
<1>1. CASE \E c \in PollConns, fd \in PollFds : Poll!Open(c, fd)
    BY <1>1, PollMonitors DEF Poll!Open, Poll!Watch!Next
<1>2. CASE Poll!Withdraws \/ Poll!Poll
    BY <1>2, PollMonitors DEF Poll!Withdraws, Poll!Poll, Poll!Watch!Next
<1>3. CASE Poll!Callback
    BY <1>3, PollProcesses
<1>4. CASE UNCHANGED pollVars
    BY <1>4, PollMonitors DEF pollVars, Poll!Watch!Next
<1> QED BY <1>1, <1>2, <1>3, <1>4 DEF Next, EvStep, PollStep, AsioStep, vars

LEMMA PollWatchInit == ASSUME Init PROVE Poll!Watch!Init
<1>1. PollInv /\ Poll!Start
    BY PollInitInv DEF Init
<1>2. PollInterest = [fd \in PollFds |-> {}]
    BY <1>1 DEF PollInterest, Poll!Start, Poll!None
<1>3. PollInterest \in [PollFds -> SUBSET PFlags]
    BY <1>2
<1> QED BY <1>1, <1>2, <1>3
        DEF Poll!Watch!Init, Poll!Watch!TypeOK, PollInterest, PFlags, PollInv, PCall

\* libuv's and libevent's handlers do what AMQP-CPP asks of an event loop.
THEOREM PollIsFdWatch == Spec => Poll!IsFdWatch
<1>1. PollInv /\ PollInv' /\ [Next]_vars => [Poll!Watch!Next]_(Poll!Watch!vars)
    BY PollWatchStep
<1> QED BY <1>1, PollWatchInit, PollInvariant, PTL DEF Spec, Poll!IsFdWatch, Poll!Watch!Spec

-----------------------------------------------------------------------------
(* boost::asio *)

AFlags == Asio!Flags

AWatcher ==
    [live : BOOLEAN, want : SUBSET AFlags, pend : SUBSET AFlags,
     ops : [AFlags -> Nat], done : [AFlags -> Nat]]

\* A watcher whose pending flags tell the truth but for those in ds, and that
\* waits for all that is wanted but for these.
GoodBut(w, ds) ==
    /\ w \in AWatcher
    /\ w.want \subseteq w.pend \cup ds
    /\ \A d \in w.pend : w.ops[d] + w.done[d] > 0

Good(w) == GoodBut(w, {})

AsioInv ==
    /\ asioWatchers \in [AsioFds -> AWatcher]
    /\ asioCall \in [key : AsioFds, flags : SUBSET AFlags, odd : BOOLEAN]
    /\ \A fd \in AsioFds : Good(asioWatchers[fd])

-----------------------------------------------------------------------------
\* Operations that are started for what is wanted make up for what was missing.
LEMMA AsyncGood ==
    ASSUME NEW w, NEW ds \in SUBSET AFlags, GoodBut(w, ds)
    PROVE Good(Asio!Async(w, ds))
<1> DEFINE v == Asio!Async(w, ds)
<1>1. /\ w \in AWatcher /\ w.ops \in [AFlags -> Nat] /\ w.done \in [AFlags -> Nat]
      /\ w.want \in SUBSET AFlags /\ w.pend \in SUBSET AFlags
    BY DEF GoodBut, AWatcher
<1>2. /\ v.want = w.want /\ v.pend = w.pend \cup ds /\ v.done = w.done
      /\ v.ops = [d \in AFlags |-> IF d \in ds THEN w.ops[d] + 1 ELSE w.ops[d]]
    BY <1>1 DEF Asio!Async, AWatcher, AFlags
<1>3. v \in AWatcher
    <2>1. v.ops \in [AFlags -> Nat] /\ v.pend \in SUBSET AFlags
        BY <1>1, <1>2
    <2>2. v = [[w EXCEPT !.pend = v.pend] EXCEPT !.ops = v.ops]
        BY <1>1, <1>2 DEF Asio!Async, AWatcher, AFlags
    <2> QED BY <1>1, <2>1, <2>2 DEF AWatcher
<1>4. v.want \subseteq v.pend
    BY <1>2 DEF GoodBut
<1>5. ASSUME NEW d \in v.pend PROVE v.ops[d] + v.done[d] > 0
    <2>1. d \in AFlags /\ w.ops[d] \in Nat /\ w.done[d] \in Nat
        BY <1>1, <1>2, <1>5
    <2>2. CASE d \in ds
        <3>1. v.ops[d] = w.ops[d] + 1
            BY <1>2, <2>1, <2>2
        <3> QED BY <1>2, <2>1, <3>1
    <2>3. CASE d \notin ds
        <3>1. v.ops[d] = w.ops[d] /\ d \in w.pend
            BY <1>2, <1>5, <2>1, <2>3
        <3> QED BY <1>2, <3>1 DEF GoodBut
    <2> QED BY <2>2, <2>3
<1> QED BY <1>3, <1>4, <1>5 DEF Good, GoodBut

LEMMA NoWatcherGood == Good(Asio!NoWatcher)
BY DEF Good, GoodBut, Asio!NoWatcher, AWatcher, AFlags, Asio!Flags

\* Watcher::events and monitor find nothing that they need not start.
LEMMA MonitorGood ==
    ASSUME NEW w, NEW ds \in SUBSET AFlags, GoodBut(w, ds), NEW fl \in SUBSET AFlags
    PROVE Good(Asio!Monitor(w, fl))
<1>1. CASE fl = {}
    BY <1>1, NoWatcherGood DEF Asio!Monitor
<1>2. CASE fl # {}
    <2> DEFINE u == IF w.live THEN w ELSE Asio!Fresh
    <2>1. u \in AWatcher /\ \A d \in u.pend : u.ops[d] + u.done[d] > 0
        <3>1. Asio!Fresh \in AWatcher /\ Asio!Fresh.pend = {}
            BY DEF Asio!Fresh, Asio!NoWatcher, AWatcher, AFlags
        <3> QED BY <3>1 DEF GoodBut
    <2> HIDE DEF u
    <2> DEFINE x == [u EXCEPT !.want = fl]
    <2>2. /\ x \in AWatcher /\ x.want = fl /\ x.pend = u.pend /\ x.ops = u.ops /\ x.done = u.done
        BY <2>1 DEF AWatcher
    <2> HIDE DEF x
    <2>3. GoodBut(x, fl \ u.pend) /\ fl \ u.pend \in SUBSET AFlags
        BY <2>1, <2>2 DEF GoodBut
    <2>4. Asio!Monitor(w, fl) = Asio!Async(x, fl \ u.pend)
        BY <1>2 DEF Asio!Monitor, Asio!Events, u, x
    <2> QED BY <2>3, <2>4, AsyncGood
<1> QED BY <1>1, <1>2

\* A handler that has been called has cleared its flag.
LEMMA ArriveGood ==
    ASSUME NEW w, Good(w), NEW d \in AFlags, w.done[d] > 0
    PROVE GoodBut(Asio!Arrive(w, d), {d})
<1> DEFINE v == Asio!Arrive(w, d)
<1>1. /\ w \in AWatcher /\ w.ops \in [AFlags -> Nat] /\ w.done \in [AFlags -> Nat]
      /\ w.want \subseteq w.pend
    BY DEF Good, GoodBut, AWatcher
<1>2. /\ v.want = w.want /\ v.pend = w.pend \ {d} /\ v.ops = w.ops
      /\ v.done = [w.done EXCEPT ![d] = @ - 1]
    BY <1>1 DEF Asio!Arrive, AWatcher
<1>3. w.done[d] - 1 \in Nat
    <2>1. w.done[d] \in Nat
        BY <1>1
    <2> QED BY <2>1
<1>4. v \in AWatcher
    <2>1. v.done \in [AFlags -> Nat]
        BY <1>1, <1>2, <1>3
    <2>2. v = [[w EXCEPT !.pend = w.pend \ {d}] EXCEPT !.done = v.done]
        BY <1>1, <1>2 DEF Asio!Arrive, AWatcher
    <2> QED BY <1>1, <2>1, <2>2 DEF AWatcher
<1>5. ASSUME NEW e \in v.pend PROVE v.ops[e] + v.done[e] > 0
    <2>1. e # d /\ e \in w.pend
        BY <1>2
    <2>2. e \in AFlags
        BY <1>1, <2>1 DEF AWatcher
    <2>3. v.ops[e] = w.ops[e] /\ v.done[e] = w.done[e]
        BY <1>1, <1>2, <2>1, <2>2
    <2> QED BY <2>1, <2>3 DEF Good, GoodBut
<1> QED BY <1>1, <1>2, <1>4, <1>5 DEF GoodBut

\* Its last lines start what it has waited for again.
LEMMA AgainGood ==
    ASSUME NEW w, NEW d \in AFlags, GoodBut(w, {d})
    PROVE Good(Asio!Again(w, d))
<1>1. Good(Asio!Async(w, {d}))
    BY AsyncGood
<1> QED BY <1>1, NoWatcherGood DEF Asio!Again

LEMMA GoodWeakens ==
    ASSUME NEW w, Good(w), NEW ds PROVE GoodBut(w, ds)
BY DEF Good, GoodBut
-----------------------------------------------------------------------------
\* The steps.
LEMMA AsioUpdate ==
    ASSUME AsioInv, NEW fd \in AsioFds, NEW w, Good(w),
           asioWatchers' = [asioWatchers EXCEPT ![fd] = w],
           asioCall' \in [key : AsioFds, flags : SUBSET AFlags, odd : BOOLEAN]
    PROVE AsioInv'
<1>1. w \in AWatcher
    BY DEF Good, GoodBut
<1>2. asioWatchers' \in [AsioFds -> AWatcher]
    BY <1>1 DEF AsioInv
<1>3. ASSUME NEW g \in AsioFds PROVE Good(asioWatchers'[g])
    <2>1. asioWatchers'[g] = w \/ asioWatchers'[g] = asioWatchers[g]
        BY DEF AsioInv
    <2>2. Good(asioWatchers[g])
        BY DEF AsioInv
    <2> QED BY <2>1, <2>2
<1> QED BY <1>2, <1>3 DEF AsioInv, Good, GoodBut

LEMMA AsioMonitorsInv == ASSUME AsioInv, Asio!Monitors PROVE AsioInv'
<1>1. PICK fd \in AsioFds, fl \in SUBSET AFlags :
          asioWatchers' = [asioWatchers EXCEPT ![fd] = Asio!Monitor(asioWatchers[fd], fl)]
    BY DEF Asio!Monitors, AFlags
<1>2. Good(asioWatchers[fd])
    BY DEF AsioInv
<1>3. Good(Asio!Monitor(asioWatchers[fd], fl))
    BY <1>2, GoodWeakens, MonitorGood
<1>4. asioCall' \in [key : AsioFds, flags : SUBSET AFlags, odd : BOOLEAN]
    BY DEF AsioInv, Asio!Monitors
<1> QED BY <1>1, <1>3, <1>4, AsioUpdate

LEMMA AsioCompletesInv ==
    ASSUME AsioInv, NEW fd \in AsioFds, NEW d \in AFlags, Asio!Completes(fd, d)
    PROVE AsioInv'
<1> DEFINE w == asioWatchers[fd]
           v == [[w EXCEPT !.done[d] = w.done[d] + w.ops[d]] EXCEPT !.ops[d] = 0]
<1>1. Good(w)
    BY DEF AsioInv
<1>2. /\ w \in AWatcher /\ w.ops \in [AFlags -> Nat] /\ w.done \in [AFlags -> Nat]
      /\ w.want \subseteq w.pend /\ w.pend \subseteq AFlags
    BY <1>1 DEF Good, GoodBut, AWatcher
<1> DEFINE n == w.done[d] + w.ops[d]
<1>3. n \in Nat
    <2>1. w.done[d] \in Nat /\ w.ops[d] \in Nat
        BY <1>2
    <2> QED BY <2>1
<1>4. asioWatchers' = [asioWatchers EXCEPT ![fd] = v]
    BY DEF Asio!Completes, AsioInv
<1>5. /\ v.want = w.want /\ v.pend = w.pend
      /\ v.done = [w.done EXCEPT ![d] = n] /\ v.ops = [w.ops EXCEPT ![d] = 0]
      /\ v.live = w.live
    BY <1>2 DEF AWatcher
<1>6. v.done \in [AFlags -> Nat] /\ v.ops \in [AFlags -> Nat]
    BY <1>2, <1>3, <1>5
<1>7. v \in AWatcher
    <2>1. v = [[w EXCEPT !.done = v.done] EXCEPT !.ops = v.ops]
        BY <1>2, <1>5 DEF AWatcher
    <2> QED BY <1>2, <1>6, <2>1 DEF AWatcher
<1> HIDE DEF n, v
<1>8. ASSUME NEW e \in v.pend PROVE v.ops[e] + v.done[e] > 0
    <2>1. e \in AFlags /\ e \in w.pend /\ w.ops[e] \in Nat /\ w.done[e] \in Nat
        BY <1>2, <1>5
    <2>2. w.ops[e] + w.done[e] > 0
        BY <1>1, <2>1 DEF Good, GoodBut
    <2>3. CASE e = d
        <3>1. v.ops[e] = 0 /\ v.done[e] = n
            BY <1>2, <1>5, <2>1, <2>3
        <3>2. v.done[e] = w.done[e] + w.ops[e]
            BY <2>3, <3>1 DEF n
        <3> QED BY <2>1, <2>2, <3>1, <3>2
    <2>4. CASE e # d
        <3>1. v.ops[e] = w.ops[e] /\ v.done[e] = w.done[e]
            BY <1>2, <1>5, <2>1, <2>4
        <3> QED BY <2>2, <3>1
    <2> QED BY <2>3, <2>4
<1>9. Good(v)
    BY <1>2, <1>5, <1>7, <1>8 DEF Good, GoodBut
<1>10. asioCall' \in [key : AsioFds, flags : SUBSET AFlags, odd : BOOLEAN]
    BY DEF AsioInv, Asio!Completes
<1> QED BY <1>4, <1>9, <1>10, AsioUpdate

LEMMA AsioHandlerInv ==
    ASSUME AsioInv, NEW fd \in AsioFds, NEW d \in AFlags, Asio!Handler(fd, d)
    PROVE AsioInv'
<1> DEFINE w == Asio!Arrive(asioWatchers[fd], d)
<1>1. GoodBut(w, {d})
    <2>1. Good(asioWatchers[fd]) /\ asioWatchers[fd].done[d] > 0
        BY DEF AsioInv, Asio!Handler
    <2> QED BY <2>1, ArriveGood
<1>2. asioCall' \in [key : AsioFds, flags : SUBSET AFlags, odd : BOOLEAN]
    <2>1. asioCall' = asioCall \/ asioCall' = [key |-> fd, flags |-> {d}, odd |-> ~asioCall.odd]
        BY DEF Asio!Handler
    <2>2. asioCall.odd \in BOOLEAN /\ {d} \in SUBSET AFlags
        BY DEF AsioInv
    <2>3. (~asioCall.odd) \in BOOLEAN
        OBVIOUS
    <2> HIDE DEF w
    <2>4. [key |-> fd, flags |-> {d}, odd |-> ~asioCall.odd]
              \in [key : AsioFds, flags : SUBSET AFlags, odd : BOOLEAN]
        BY <2>2, <2>3
    <2> QED BY <2>1, <2>4 DEF AsioInv
<1> HIDE DEF w
<1>3. CASE d \notin w.want /\ asioWatchers' = [asioWatchers EXCEPT ![fd] = w]
    <2>1. Good(w)
        BY <1>1, <1>3 DEF Good, GoodBut
    <2> QED BY <1>2, <1>3, <2>1, AsioUpdate
<1>4. CASE asioWatchers' = [asioWatchers EXCEPT ![fd] = Asio!Again(w, d)]
    BY <1>1, <1>2, <1>4, AgainGood, AsioUpdate
<1>5. ASSUME NEW fl \in SUBSET AFlags,
             asioWatchers' = [asioWatchers EXCEPT ![fd] = Asio!Again(Asio!Monitor(w, fl), d)]
      PROVE AsioInv'
    <2>1. Good(Asio!Monitor(w, fl))
        BY <1>1, MonitorGood
    <2>2. Good(Asio!Again(Asio!Monitor(w, fl), d))
        BY <2>1, GoodWeakens, AgainGood
    <2> QED BY <1>2, <1>5, <2>2, AsioUpdate
<1>6. ASSUME NEW g \in AsioFds \ {fd}, NEW fl \in SUBSET AFlags,
             asioWatchers' = [asioWatchers EXCEPT ![g] = Asio!Monitor(asioWatchers[g], fl),
                                                  ![fd] = Asio!Again(w, d)]
      PROVE AsioInv'
    <2>1. Good(asioWatchers[g])
        BY DEF AsioInv
    <2>2. Good(Asio!Monitor(asioWatchers[g], fl)) /\ Good(Asio!Again(w, d))
        BY <1>1, <2>1, GoodWeakens, MonitorGood, AgainGood
    <2>3. ASSUME NEW h \in AsioFds PROVE Good(asioWatchers'[h]) /\ asioWatchers'[h] \in AWatcher
        <3>1. \/ asioWatchers'[h] = asioWatchers[h]
              \/ asioWatchers'[h] = Asio!Monitor(asioWatchers[g], fl)
              \/ asioWatchers'[h] = Asio!Again(w, d)
            BY <1>6 DEF AsioInv
        <3>2. Good(asioWatchers[h])
            BY DEF AsioInv
        <3> QED BY <2>2, <3>1, <3>2 DEF Good, GoodBut
    <2>4. asioWatchers' \in [AsioFds -> AWatcher]
        BY <1>6, <2>2 DEF AsioInv, Good, GoodBut
    <2> QED BY <1>2, <2>3, <2>4 DEF AsioInv, Good, GoodBut
<1> QED BY <1>3, <1>4, <1>5, <1>6 DEF Asio!Handler, w, AFlags
-----------------------------------------------------------------------------
LEMMA AsioInitInv == ASSUME Init PROVE AsioInv
<1>1. asioWatchers = [fd \in AsioFds |-> Asio!NoWatcher]
    BY DEF Init, Asio!Init
<1>2. Good(Asio!NoWatcher) /\ Asio!NoWatcher \in AWatcher
    BY NoWatcherGood DEF Good, GoodBut
<1>3. asioCall \in [key : AsioFds, flags : SUBSET AFlags, odd : BOOLEAN]
    <2>1. (CHOOSE fd \in AsioFds : TRUE) \in AsioFds
        BY EventLoopsAssumption
    <2> QED BY <2>1 DEF Init, Asio!Init
<1> QED BY <1>1, <1>2, <1>3 DEF AsioInv

LEMMA AsioInvariant == Spec => []AsioInv
<1>1. AsioInv /\ [Next]_vars => AsioInv'
    <2> SUFFICES ASSUME AsioInv, [Next]_vars PROVE AsioInv'
        OBVIOUS
    <2>1. CASE Asio!Monitors
        BY <2>1, AsioMonitorsInv
    <2>2. CASE \E fd \in AsioFds, d \in AFlags : Asio!Completes(fd, d) \/ Asio!Handler(fd, d)
        BY <2>2, AsioCompletesInv, AsioHandlerInv
    <2>3. CASE UNCHANGED asioVars
        BY <2>3 DEF asioVars, AsioInv
    <2> QED BY <2>1, <2>2, <2>3 DEF Next, EvStep, PollStep, AsioStep, vars, AFlags
<1> QED BY <1>1, AsioInitInv, PTL DEF Spec

\* Whatever a connection wants has an operation that waits for it, and a pending
\* flag is never true without one.
THEOREM AsioInterestWatched == Spec => []InterestWatched
<1>1. AsioInv => InterestWatched
    BY DEF AsioInv, Good, GoodBut, InterestWatched, Asio!InterestWatched, AFlags
<1> QED BY <1>1, AsioInvariant, PTL

-----------------------------------------------------------------------------
\* What AMQP-CPP sees of the handler.
AsioInterest == [fd \in AsioFds |-> asioWatchers[fd].want]

LEMMA AsioMonitors ==
    ASSUME AsioInv', asioCall' = asioCall PROVE Asio!Watch!Monitor
<1>1. AsioInterest' \in [AsioFds -> SUBSET AFlags]
    BY DEF AsioInv, AsioInterest, AWatcher
<1> QED BY <1>1 DEF Asio!Watch!Monitor, AsioInterest, AFlags

\* A call is one for an event that is wanted.
LEMMA AsioProcesses ==
    ASSUME AsioInv, AsioInv', NEW fd \in AsioFds, NEW d \in AFlags, Asio!Handler(fd, d)
    PROVE Asio!Watch!Next
<1>1. CASE asioCall' = asioCall
    BY <1>1, AsioMonitors DEF Asio!Watch!Next
<1>2. CASE /\ d \in Asio!Arrive(asioWatchers[fd], d).want
           /\ asioCall' = [key |-> fd, flags |-> {d}, odd |-> ~asioCall.odd]
    <2>1. d \in AsioInterest[fd]
        BY <1>2 DEF Asio!Arrive, AsioInterest, AsioInv, AWatcher
    <2>2. AsioInterest' \in [AsioFds -> SUBSET AFlags]
        BY DEF AsioInv, AsioInterest, AWatcher
    <2>3. {d} \in (SUBSET AFlags) \ {{}} /\ {d} \subseteq AsioInterest[fd] /\ AsioInterest[fd] # {}
        BY <2>1
    <2>4. Asio!Watch!Process(fd)
        BY <1>2, <2>2, <2>3 DEF Asio!Watch!Process, AsioInterest, AFlags
    <2> QED BY <2>4 DEF Asio!Watch!Next
<1> QED BY <1>1, <1>2 DEF Asio!Handler

LEMMA AsioWatchStep ==
    ASSUME AsioInv, AsioInv', [Next]_vars PROVE [Asio!Watch!Next]_(Asio!Watch!vars)
<1>1. CASE Asio!Monitors
    BY <1>1, AsioMonitors DEF Asio!Monitors, Asio!Watch!Next
<1>2. CASE \E fd \in AsioFds, d \in AFlags : Asio!Completes(fd, d) \/ Asio!Handler(fd, d)
    BY <1>2, AsioMonitors, AsioProcesses DEF Asio!Completes, Asio!Watch!Next
<1>3. CASE UNCHANGED asioVars
    BY <1>3, AsioMonitors DEF asioVars, Asio!Watch!Next
<1> QED BY <1>1, <1>2, <1>3 DEF Next, EvStep, PollStep, AsioStep, vars, AFlags

LEMMA AsioWatchInit == ASSUME Init PROVE Asio!Watch!Init
<1>1. AsioInv /\ Asio!Init
    BY AsioInitInv DEF Init
<1>2. AsioInterest = [fd \in AsioFds |-> {}]
    BY <1>1 DEF AsioInterest, Asio!Init, Asio!NoWatcher
<1>3. AsioInterest \in [AsioFds -> SUBSET AFlags]
    BY <1>2
<1> QED BY <1>1, <1>2, <1>3
        DEF Asio!Watch!Init, Asio!Watch!TypeOK, AsioInterest, AFlags, AsioInv

\* boost::asio's handler does what AMQP-CPP asks of an event loop.
THEOREM AsioIsFdWatch == Spec => Asio!IsFdWatch
<1>1. AsioInv /\ AsioInv' /\ [Next]_vars => [Asio!Watch!Next]_(Asio!Watch!vars)
    BY AsioWatchStep
<1> QED BY <1>1, AsioWatchInit, AsioInvariant, PTL DEF Spec, Asio!IsFdWatch, Asio!Watch!Spec

-----------------------------------------------------------------------------
(* All handlers *)

\* No handler calls a connection for a descriptor that it has withdrawn, nor for
\* an event that it does not want, whatever the loop holds at that moment.
THEOREM ImplementsFdWatch == Spec => IsFdWatch
BY EvIsFdWatch, PollIsFdWatch, AsioIsFdWatch, PTL DEF IsFdWatch
=============================================================================
