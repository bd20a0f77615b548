---------------------------- MODULE TcpMgrProofs ----------------------------
(***************************************************************************)
(* Theorems about TcpMgr, for every number of login rounds, links, faults  *)
(* and frames.  First who may do what and what waits for whom; then what   *)
(* TcpMgr does on each connection: an AMQP connection parses only the      *)
(* bytes that came for it, and as long as no connection is dropped TcpMgr  *)
(* receives on the one that it has made.                                   *)
(*                                                                         *)
(* An AMQP connection parses its own bytes because reads and writes end    *)
(* early: a receive or a send that fails stays at the front of its queue,  *)
(* and none is ever started again.  So a second AMQP connection, which     *)
(* needs a failure, finds one of them dead (FirstLink).  With reads dead   *)
(* nothing is parsed; with writes dead the broker is sent no header, and   *)
(* sends nothing back.                                                     *)
(*                                                                         *)
(* That TcpMgr receives needs everything that can precede the first fault: *)
(* connects that fail, the one that does not, its header on its way, and   *)
(* then frames that are not a header (Undisturbed).                        *)
(*                                                                         *)
(* And TcpMgr implements SendPipe: from SendData to the TCP connection,    *)
(* frames leave in the order they came, once, however links fail and       *)
(* reconnect.  FramesOf is recursive in the length of the strand.  What it *)
(* returns for two queues in a row is proved by induction on that length,  *)
(* with sets of numbers in the place of predicates.                        *)
(***************************************************************************)
EXTENDS TcpMgr, TLAPS, FiniteSetTheorems, SequenceTheorems, RangeInduction

-----------------------------------------------------------------------------
(* Counting the handlers of a queue *)

\* A queue holds a natural number of handlers of each name.
LEMMA CountType ==
    ASSUME NEW s \in Seq(Handler), NEW h
    PROVE  CountIn(s, h) \in Nat /\ IsFiniteSet({i \in DOMAIN s : s[i].h = h})
<1>1. IsFiniteSet(1..Len(s))
  BY FS_Interval
<1>2. {i \in DOMAIN s : s[i].h = h} \subseteq 1..Len(s)
  OBVIOUS
<1>3. QED
  BY <1>1, <1>2, FS_Subset, FS_CardinalityType DEF CountIn

\* Two queues, one behind the other, hold what each of them holds.
LEMMA CountConcat ==
    ASSUME NEW s \in Seq(Handler), NEW t \in Seq(Handler), NEW h
    PROVE  CountIn(s \o t, h) = CountIn(s, h) + CountIn(t, h)
<1> DEFINE A == {i \in DOMAIN s : s[i].h = h}
           B == {i \in DOMAIN t : t[i].h = h}
           C == {i \in DOMAIN (s \o t) : (s \o t)[i].h = h}
           D == {i + Len(s) : i \in B}
           f == [i \in B |-> i + Len(s)]
<1>1. IsFiniteSet(A) /\ IsFiniteSet(B)
  BY CountType
<1>2. f \in Bijection(B, D)
  <2>1. \A i, j \in B : f[i] = f[j] => i = j
    OBVIOUS
  <2>2. \A y \in D : \E i \in B : f[i] = y
    OBVIOUS
  <2>3. QED
    BY <2>1, <2>2 DEF Bijection, Injection, Surjection, IsInjective
<1>3. IsFiniteSet(D) /\ Cardinality(D) = Cardinality(B)
  BY <1>1, <1>2, FS_Bijection, FS_SurjCardinalityBound DEF ExistsBijection
<1>4. C = A \cup D
  <2>1. ASSUME NEW i \in 1..Len(s)
        PROVE  (s \o t)[i] = s[i]
    BY <2>1, ConcatProperties
  <2>2. ASSUME NEW i \in (Len(s) + 1)..(Len(s) + Len(t))
        PROVE  (s \o t)[i] = t[i - Len(s)]
    BY <2>2
  <2>3. DOMAIN (s \o t) = 1..(Len(s) + Len(t))
    OBVIOUS
  <2>4. ASSUME NEW i \in C PROVE i \in A \cup D
    <3>1. CASE i <= Len(s)
      BY <3>1, <2>1, <2>3, <2>4
    <3>2. CASE i > Len(s)
      <4>1. i \in (Len(s) + 1)..(Len(s) + Len(t)) /\ i - Len(s) \in 1..Len(t)
        BY <3>2, <2>3, <2>4
      <4>2. i - Len(s) \in B /\ i = (i - Len(s)) + Len(s)
        BY <4>1, <2>2, <2>4
      <4>3. QED
        BY <4>2
    <3>3. QED
      BY <3>1, <3>2, <2>3, <2>4
  <2>5. ASSUME NEW i \in A PROVE i \in C
    BY <2>1, <2>3, <2>5
  <2>6. ASSUME NEW j \in B PROVE j + Len(s) \in C
    <3>1. j + Len(s) \in (Len(s) + 1)..(Len(s) + Len(t)) /\ (j + Len(s)) - Len(s) = j
      BY <2>6
    <3>2. QED
      BY <3>1, <2>2, <2>3, <2>6
  <2>7. QED
    BY <2>4, <2>5, <2>6
<1>5. A \cap D = {}
  OBVIOUS
<1> HIDE DEF A, B, C, D, f
<1>6. Cardinality(C) = Cardinality(A) + Cardinality(D)
  <2>1. Cardinality(A \cap D) = 0 /\ Cardinality(A) \in Nat /\ Cardinality(D) \in Nat
    BY <1>1, <1>3, <1>5, FS_EmptySet, FS_CardinalityType
  <2>2. Cardinality(A \cup D) = Cardinality(A) + Cardinality(D) - Cardinality(A \cap D)
    BY <1>1, <1>3, FS_Union
  <2>3. QED
    BY <2>1, <2>2, <1>4
<1>7. QED
  BY <1>3, <1>6 DEF CountIn, A, B, C

\* A queue without handlers of a name counts none.
LEMMA CountNone ==
    ASSUME NEW s, NEW h, \A i \in DOMAIN s : s[i].h # h
    PROVE  CountIn(s, h) = 0
<1>1. {i \in DOMAIN s : s[i].h = h} = {}
  OBVIOUS
<1>2. QED
  BY <1>1, FS_EmptySet DEF CountIn

\* A queue of one handler.
LEMMA CountOne ==
    ASSUME NEW x \in Handler, NEW h
    PROVE  CountIn(<<x>>, h) = IF x.h = h THEN 1 ELSE 0
<1>1. CASE x.h = h
  <2>1. {i \in DOMAIN <<x>> : <<x>>[i].h = h} = {1}
    BY <1>1
  <2>2. QED
    BY <1>1, <2>1, FS_Singleton DEF CountIn
<1>2. CASE x.h # h
  BY <1>2, CountNone
<1>3. QED
  BY <1>1, <1>2

\* A completion joins the strand at the back.
LEMMA CountAppend ==
    ASSUME NEW s \in Seq(Handler), NEW x \in Handler, NEW h
    PROVE  CountIn(Append(s, x), h) = CountIn(s, h) + IF x.h = h THEN 1 ELSE 0
<1>1. Append(s, x) = s \o <<x>> /\ <<x>> \in Seq(Handler)
  BY AppendIsConcat
<1>2. CountIn(s \o <<x>>, h) = CountIn(s, h) + CountIn(<<x>>, h)
  BY <1>1, CountConcat
<1>3. CountIn(<<x>>, h) = IF x.h = h THEN 1 ELSE 0
  BY CountOne
<1>4. QED
  BY <1>1, <1>2, <1>3, Zenon

\* The handler in front leaves and those it posts join at the back.
LEMMA CountRun ==
    ASSUME NEW s \in Seq(Handler), s # <<>>, NEW t \in Seq(Handler), NEW h
    PROVE  /\ Tail(s) \o t \in Seq(Handler)
           /\ CountIn(Tail(s) \o t, h) =
                CountIn(s, h) - (IF Head(s).h = h THEN 1 ELSE 0) + CountIn(t, h)
<1> DEFINE x == Head(s)
           u == Tail(s)
           v == <<x>>
<1>1. x \in Handler /\ u \in Seq(Handler) /\ v \in Seq(Handler) /\ s = v \o u
  BY HeadTailProperties
<1>2. CountIn(v, h) = IF x.h = h THEN 1 ELSE 0
  BY <1>1, CountOne
<1> HIDE DEF x, u, v
<1>3. CountIn(v \o u, h) = CountIn(v, h) + CountIn(u, h)
  <2>1. u \in Seq(Handler) /\ v \in Seq(Handler)
    BY <1>1
  <2>2. QED
    BY <2>1, CountConcat
<1>5. CountIn(u \o t, h) = CountIn(u, h) + CountIn(t, h)
  BY <1>1, CountConcat
<1>6. CountIn(s, h) \in Nat /\ CountIn(u, h) \in Nat /\ CountIn(t, h) \in Nat
  BY <1>1, CountType
<1>7. CountIn(s, h) = CountIn(v, h) + CountIn(u, h)
  BY <1>1, <1>3, Zenon
<1>8. u \o t \in Seq(Handler)
  BY <1>1
<1>9. CountIn(u \o t, h) = CountIn(s, h) - (IF x.h = h THEN 1 ELSE 0) + CountIn(t, h)
  BY <1>2, <1>5, <1>6, <1>7
<1>10. QED
  BY <1>8, <1>9 DEF x, u

-----------------------------------------------------------------------------
(* The inductive invariant *)

\* Each connect under way is a reconnection chain; a connected socket keeps
\* its chain as the receive queued or outstanding on it.  A second chain only
\* comes from a failed write, and a failed write leaves m_pending_sends stuck,
\* so there is never another write to fail.
Chains ==
    LET chains == Pending("connect") + Queued("DispatchRecv") + Pending("read")
    IN /\ chains <= 2
       /\ sends = <<>> \/ Pending("write") # 0 => chains <= 1

IInv == TypeOK /\ OneTransferEach /\ Chains /\ RecvBacklog /\ StartedTracksLink

\* What is posted to the strand is a handler.
LEMMA HandlerShape ==
    /\ \A h \in {"DispatchRecv", "StartCloseSocket"} : Call(h) \in Handler /\ Call(h).h = h
    /\ \A f \in Frame : SendCall(f) \in Handler /\ SendCall(f).h = "SendMsg"
    /\ \A h \in {"OnConnect", "HandleRecv", "HandleWrite"}, ok \in BOOLEAN, c \in Nat :
          Completed(h, ok, c) \in Handler /\ Completed(h, ok, c).h = h
BY DEF Call, SendCall, Completed, Handler

\* The four counts, and the operations under way, are natural numbers.
LEMMA CountsAreNat ==
    ASSUME TypeOK
    PROVE  /\ \A h : Queued(h) \in Nat
           /\ \A k \in Kind : live[k] \in Nat /\ doomed[k] \in Nat
BY CountType DEF TypeOK, Queued

\* A handler that runs leaves the strand; what it posts is added.
LEMMA RunEffect ==
    ASSUME TypeOK, NEW g, Runs(g), NEW hs \in Seq(Handler), Post(hs)
    PROVE  /\ strand' \in Seq(Handler)
           /\ \A h : Queued(h)' = Queued(h) - (IF g = h THEN 1 ELSE 0) + CountIn(hs, h)
           /\ \A h : CountIn(hs, h) \in Nat
           /\ Queued(g) >= 1
<1>1. strand \in Seq(Handler) /\ strand # <<>> /\ Head(strand).h = g
  BY DEF TypeOK, Runs
<1>2. strand' = Tail(strand) \o hs
  BY DEF Post
<1>3. \A h : CountIn(hs, h) \in Nat /\ Queued(h) \in Nat /\ CountIn(strand', h) \in Nat
  BY <1>1, <1>2, CountType, CountRun, CountsAreNat
<1>4. ASSUME NEW h
      PROVE  CountIn(Tail(strand) \o hs, h) =
               CountIn(strand, h) - (IF Head(strand).h = h THEN 1 ELSE 0) + CountIn(hs, h)
  BY <1>1, CountRun
<1>5. strand' \in Seq(Handler)
  BY <1>1, <1>2, CountRun
<1>6. \A h : Queued(h)' = Queued(h) - (IF g = h THEN 1 ELSE 0) + CountIn(hs, h)
  <2> SUFFICES ASSUME NEW h
               PROVE  Queued(h)' = Queued(h) - (IF g = h THEN 1 ELSE 0) + CountIn(hs, h)
    OBVIOUS
  <2>1. Queued(h)' = CountIn(Tail(strand) \o hs, h) /\ Queued(h) = CountIn(strand, h)
    BY <1>2, Zenon DEF Queued
  <2>2. QED
    BY <2>1, <1>1, <1>4
<1>7. Queued(g) >= 1
  <2>1. CountIn(Tail(strand) \o <<>>, g) = CountIn(strand, g) - 1 + CountIn(<<>>, g)
    BY <1>1, CountRun, <<>> \in Seq(Handler)
  <2>2. CountIn(Tail(strand) \o <<>>, g) \in Nat
    BY <1>1, CountRun, CountType, <<>> \in Seq(Handler)
  <2>3. CountIn(<<>>, g) = 0
    BY CountNone
  <2>4. QED
    BY <2>1, <2>2, <2>3, <1>3 DEF Queued
<1>8. QED
  BY <1>3, <1>5, <1>6, <1>7

\* A handler that posts nothing.
LEMMA RunPostsNothing ==
    ASSUME TypeOK, NEW g, Runs(g), Post(<<>>)
    PROVE  /\ strand' \in Seq(Handler)
           /\ \A h : Queued(h)' = Queued(h) - (IF g = h THEN 1 ELSE 0)
           /\ Queued(g) >= 1
<1>1. <<>> \in Seq(Handler)
  OBVIOUS
<1>2. \A h : CountIn(<<>>, h) = 0
  BY CountNone
<1>3. \A h : Queued(h) \in Nat
  BY CountsAreNat
<1>4. \A h : Queued(h)' = Queued(h) - (IF g = h THEN 1 ELSE 0) + CountIn(<<>>, h)
  BY <1>1, RunEffect
<1>5. \A h : Queued(h)' = Queued(h) - (IF g = h THEN 1 ELSE 0)
  <2> SUFFICES ASSUME NEW h
               PROVE  Queued(h)' = Queued(h) - (IF g = h THEN 1 ELSE 0)
    OBVIOUS
  <2>1. /\ Queued(h)' = Queued(h) - (IF g = h THEN 1 ELSE 0) + CountIn(<<>>, h)
        /\ CountIn(<<>>, h) = 0 /\ Queued(h) \in Nat
    BY <1>2, <1>3, <1>4
  <2>2. QED
    BY <2>1
<1>6. strand' \in Seq(Handler) /\ Queued(g) >= 1
  BY <1>1, RunEffect
<1>7. QED
  BY <1>5, <1>6

\* What joins the strand from outside the worker is added to it.
LEMMA AppendEffect ==
    ASSUME TypeOK, NEW x \in Handler, strand' = Append(strand, x)
    PROVE  /\ strand' \in Seq(Handler)
           /\ \A h : Queued(h)' = Queued(h) + IF x.h = h THEN 1 ELSE 0
<1>1. strand \in Seq(Handler)
  BY DEF TypeOK
<1>2. \A h : Queued(h)' = CountIn(Append(strand, x), h) /\ Queued(h) = CountIn(strand, h)
  BY Zenon DEF Queued
<1>3. \A h : CountIn(Append(strand, x), h) = CountIn(strand, h) + IF x.h = h THEN 1 ELSE 0
  BY <1>1, CountAppend
<1>4. strand' \in Seq(Handler)
  BY <1>1, AppendProperties
<1>5. QED
  BY <1>2, <1>3, <1>4, Zenon

\* A connect adds one connect under way and nothing else.
LEMMA ConnectEffect ==
    ASSUME TypeOK, AsyncConnect
    PROVE  /\ live' \in [Kind -> Nat] /\ doomed' \in [Kind -> Nat]
           /\ sock' \in {"connecting", "up", "down"}
           /\ live'["connect"] + doomed'["connect"] = live["connect"] + doomed["connect"] + 1
           /\ \A k \in {"read", "write"} : live'[k] = live[k] /\ doomed'[k] = doomed[k]
<1>1. live \in [Kind -> Nat] /\ doomed \in [Kind -> Nat] /\ "connect" \in Kind
  BY DEF TypeOK, Kind
<1>2. CASE /\ sock' = "connecting"
           /\ live' = [live EXCEPT !["connect"] = @ + 1] /\ doomed' = doomed
  BY <1>1, <1>2 DEF Kind
<1>3. CASE /\ sock \in {"connecting", "up", "down"} /\ sock' = sock
           /\ doomed' = [doomed EXCEPT !["connect"] = @ + 1] /\ live' = live
  BY <1>1, <1>3 DEF Kind
<1>4. QED
  BY <1>2, <1>3 DEF AsyncConnect

\* A read or a write adds one operation of its kind and nothing else.
LEMMA TransferEffect ==
    ASSUME TypeOK, NEW k \in {"read", "write"}, AsyncTransfer(k)
    PROVE  /\ live' \in [Kind -> Nat] /\ doomed' \in [Kind -> Nat] /\ sock' = sock
           /\ live'[k] + doomed'[k] = live[k] + doomed[k] + 1
           /\ \A j \in Kind \ {k} : live'[j] = live[j] /\ doomed'[j] = doomed[j]
<1>1. live \in [Kind -> Nat] /\ doomed \in [Kind -> Nat] /\ k \in Kind
  BY DEF TypeOK, Kind
<1>2. CASE live' = [live EXCEPT ![k] = @ + 1] /\ doomed' = doomed /\ sock' = sock
  BY <1>1, <1>2 DEF Kind
<1>3. CASE doomed' = [doomed EXCEPT ![k] = @ + 1] /\ live' = live /\ sock' = sock
  BY <1>1, <1>3 DEF Kind
<1>4. QED
  BY <1>2, <1>3 DEF AsyncTransfer

\* The handler that runs is one of those that are queued.
LEMMA HeadIsHandler ==
    ASSUME TypeOK, NEW g, Runs(g)
    PROVE  strand # <<>> /\ Head(strand) \in Handler /\ Head(strand).h = g
BY HeadTailProperties DEF TypeOK, Runs

\* Pending, spelt out for the three kinds of operation, now and next.
LEMMA PendingIs ==
    /\ Pending("connect") = live["connect"] + doomed["connect"] + Queued("OnConnect")
    /\ Pending("read") = live["read"] + doomed["read"] + Queued("HandleRecv")
    /\ Pending("write") = live["write"] + doomed["write"] + Queued("HandleWrite")
    /\ Pending("connect")' = live'["connect"] + doomed'["connect"] + Queued("OnConnect")'
    /\ Pending("read")' = live'["read"] + doomed'["read"] + Queued("HandleRecv")'
    /\ Pending("write")' = live'["write"] + doomed'["write"] + Queued("HandleWrite")'
BY DEF Pending, HandlerOf

\* The counts of a reachable state.
LEMMA IInvNumbers ==
    ASSUME IInv
    PROVE  /\ \A k \in {"connect", "read", "write"} : live[k] \in Nat /\ doomed[k] \in Nat
           /\ Pending("connect") \in Nat /\ Pending("read") \in Nat /\ Pending("write") \in Nat
           /\ \A h : Queued(h) \in Nat
           /\ Queued("DispatchRecv") \in Nat
           /\ recvs \in Nat /\ conn \in Nat
<1>1. TypeOK
  BY DEF IInv
<1>2. \A k \in {"connect", "read", "write"} : live[k] \in Nat /\ doomed[k] \in Nat
  BY <1>1, CountsAreNat DEF Kind
<1>3. \A h : Queued(h) \in Nat
  BY <1>1, CountsAreNat
<1>4. Pending("connect") \in Nat /\ Pending("read") \in Nat /\ Pending("write") \in Nat
  BY <1>2, <1>3, PendingIs
<1>5. QED
  BY <1>1, <1>2, <1>3, <1>4 DEF TypeOK

\* The same without quantifiers.
LEMMA PlainNumbers ==
    ASSUME IInv
    PROVE  /\ Pending("connect") \in Nat /\ Pending("read") \in Nat /\ Pending("write") \in Nat
           /\ Queued("OnConnect") \in Nat /\ Queued("DispatchRecv") \in Nat
           /\ Queued("HandleRecv") \in Nat /\ Queued("HandleWrite") \in Nat
           /\ recvs \in Nat /\ conn \in Nat
BY IInvNumbers

\* The same, one by one.
Spelt ==
    /\ Pending("connect") = live["connect"] + doomed["connect"] + Queued("OnConnect")
    /\ Pending("read") = live["read"] + doomed["read"] + Queued("HandleRecv")
    /\ Pending("write") = live["write"] + doomed["write"] + Queued("HandleWrite")
    /\ live["connect"] \in Nat /\ doomed["connect"] \in Nat
    /\ live["read"] \in Nat /\ doomed["read"] \in Nat
    /\ live["write"] \in Nat /\ doomed["write"] \in Nat
    /\ Queued("OnConnect") \in Nat /\ Queued("HandleRecv") \in Nat
    /\ Queued("HandleWrite") \in Nat /\ Queued("DispatchRecv") \in Nat

\* The numbers of this state and of the next.
LEMMA Numbers ==
    ASSUME IInv, strand' \in Seq(Handler), live' \in [Kind -> Nat], doomed' \in [Kind -> Nat]
    PROVE  Spelt /\ Spelt'
<1>1. \A h : Queued(h) \in Nat /\ Queued(h)' \in Nat
  BY IInvNumbers, CountType DEF Queued
<1>2. \A k \in {"connect", "read", "write"} :
         live[k] \in Nat /\ doomed[k] \in Nat /\ live'[k] \in Nat /\ doomed'[k] \in Nat
  BY IInvNumbers DEF Kind
<1>3. QED
  BY <1>1, <1>2, PendingIs DEF Spelt

\* A step that does not add to the chains, and does not take m_pending_sends
\* out of its stuck state, keeps the bound on the chains.
LEMMA ChainsKept ==
    ASSUME IInv,
           Pending("connect")' \in Int, Queued("DispatchRecv")' \in Int, Pending("read")' \in Int,
           Pending("connect")' + Queued("DispatchRecv")' + Pending("read")'
             <= Pending("connect") + Queued("DispatchRecv") + Pending("read"),
           sends' = <<>> \/ Pending("write")' # 0 => sends = <<>> \/ Pending("write") # 0
    PROVE  Chains'
<1>1. Chains
  BY DEF IInv
<1>2. Pending("connect")' + Queued("DispatchRecv")' + Pending("read")' \in Int
  OBVIOUS
<1>3. Pending("connect") + Queued("DispatchRecv") + Pending("read") \in Int
  BY PlainNumbers
<1>4. QED
  BY <1>1, <1>2, <1>3 DEF Chains

\* A step that changes none of the counts, and connects the socket only out of
\* a pending connect.
LEMMA CountsKept ==
    ASSUME IInv, TypeOK',
           Pending("connect")' = Pending("connect"), Pending("read")' = Pending("read"),
           Pending("write")' = Pending("write"), Queued("DispatchRecv")' = Queued("DispatchRecv"),
           recvs' = recvs, sends' = sends, conn' = conn, started' = started,
           sock' = "up" => sock = "up" \/ Pending("connect") # 0
    PROVE  IInv'
<1>1. OneTransferEach'
  BY DEF IInv, OneTransferEach
<1>2. Chains'
  BY DEF IInv, Chains
<1>3. RecvBacklog'
  BY DEF IInv, RecvBacklog
<1>4. StartedTracksLink'
  BY DEF IInv, StartedTracksLink
<1>5. QED
  BY <1>1, <1>2, <1>3, <1>4 DEF IInv

-----------------------------------------------------------------------------
(* The handlers *)

\* Starting the next transfer of a kind, or none: n says how many.
LEMMA MaybeTransfer ==
    ASSUME IInv, NEW k \in {"read", "write"}, NEW go \in BOOLEAN,
           IF go THEN AsyncTransfer(k) ELSE UNCHANGED net
    PROVE  \E n \in {0, 1} :
           /\ n = 1 <=> go
           /\ live' \in [Kind -> Nat] /\ doomed' \in [Kind -> Nat] /\ sock' = sock
           /\ live'[k] + doomed'[k] = live[k] + doomed[k] + n
           /\ \A j \in Kind \ {k} : live'[j] = live[j] /\ doomed'[j] = doomed[j]
<1>1. TypeOK
  BY DEF IInv
<1>2. CASE go
  <2>1. AsyncTransfer(k)
    BY <1>2
  <2>2. QED
    BY <1>1, <1>2, <2>1, TransferEffect
<1>3. CASE ~go
  <2>1. live' = live /\ doomed' = doomed /\ sock' = sock
    BY <1>3 DEF net
  <2>2. live[k] + doomed[k] = live[k] + doomed[k] + 0
    BY IInvNumbers
  <2>3. QED
    BY <1>1, <1>3, <2>1, <2>2 DEF TypeOK
<1>4. QED
  BY <1>2, <1>3

\* A handler that posts the close of the socket.
LEMMA PostsClose ==
    ASSUME TypeOK, NEW g \in {"HandleRecv", "HandleWrite"}, Runs(g),
           Post(<<Call("StartCloseSocket")>>)
    PROVE  /\ strand' \in Seq(Handler)
           /\ Queued(g) >= 1
           /\ Queued(g)' = Queued(g) - 1
           /\ \A h \in {"OnConnect", "DispatchRecv", "HandleRecv", "HandleWrite"} \ {g} :
                 Queued(h)' = Queued(h)
<1> DEFINE hs == <<Call("StartCloseSocket")>>
<1>1. /\ hs \in Seq(Handler)
      /\ \A h \in {"OnConnect", "DispatchRecv", "HandleRecv", "HandleWrite"} : CountIn(hs, h) = 0
  BY HandlerShape, CountOne
<1> HIDE DEF hs
<1>2. Post(hs)
  BY DEF hs
<1>3. /\ strand' \in Seq(Handler) /\ Queued(g) >= 1
      /\ \A h : Queued(h)' = Queued(h) - (IF g = h THEN 1 ELSE 0) + CountIn(hs, h)
  BY <1>1, <1>2, RunEffect
<1>4. \A h : Queued(h) \in Nat
  BY CountsAreNat
<1>5. QED
  BY <1>1, <1>3, <1>4

LEMMA DispatchRecvInv == ASSUME IInv, DispatchRecv PROVE IInv'
<1>1. TypeOK /\ Runs("DispatchRecv") /\ Post(<<>>)
  BY DEF IInv, DispatchRecv
<1>2. \A h : Queued(h)' = Queued(h) - (IF "DispatchRecv" = h THEN 1 ELSE 0)
  BY <1>1, RunPostsNothing
<1>3. PICK n \in {0, 1} :
      /\ n = 1 <=> recvs = 0
      /\ live' \in [Kind -> Nat] /\ doomed' \in [Kind -> Nat] /\ sock' = sock
      /\ live'["read"] + doomed'["read"] = live["read"] + doomed["read"] + n
      /\ \A j \in Kind \ {"read"} : live'[j] = live[j] /\ doomed'[j] = doomed[j]
  <2>1. IF recvs = 0 THEN AsyncTransfer("read") ELSE UNCHANGED net
    BY DEF DispatchRecv
  <2>2. QED
    BY <2>1, MaybeTransfer
<1>4. TypeOK'
  <2>1. strand' \in Seq(Handler)
    BY <1>1, RunPostsNothing
  <2>2. live' \in [Kind -> Nat] /\ doomed' \in [Kind -> Nat] /\ sock' = sock
    BY <1>3
  <2>3. QED
    BY <1>1, <2>1, <2>2 DEF TypeOK, DispatchRecv, amqp, user, peer
<1>5. /\ recvs' = recvs + 1 /\ sends' = sends /\ conn' = conn /\ started' = started
  BY DEF DispatchRecv, amqp
<1>6. /\ Queued("DispatchRecv")' = Queued("DispatchRecv") - 1
      /\ \A h \in {"OnConnect", "HandleRecv", "HandleWrite"} : Queued(h)' = Queued(h)
  BY <1>2, IInvNumbers
<1>7. /\ Pending("connect")' = Pending("connect") /\ Pending("write")' = Pending("write")
      /\ Pending("read")' = Pending("read") + n
  BY <1>3, <1>6, PendingIs, IInvNumbers DEF Kind
<1>8. OneTransferEach'
  <2>1. /\ Pending("read") <= 1 /\ (recvs = 0 => Pending("read") = 0)
        /\ Pending("write") <= 1 /\ (sends = <<>> => Pending("write") = 0)
    BY DEF IInv, OneTransferEach
  <2>2. Pending("read") \in Nat /\ recvs \in Nat /\ n \in {0, 1} /\ (n = 1 <=> recvs = 0)
    BY <1>3, IInvNumbers
  <2>3. Pending("read")' <= 1 /\ recvs' # 0
    BY <2>1, <2>2, <1>5, <1>7
  <2>4. Pending("write")' <= 1 /\ (sends' = <<>> => Pending("write")' = 0)
    BY <2>1, <1>5, <1>7
  <2>5. QED
    BY <2>3, <2>4 DEF OneTransferEach
<1>9. Chains'
  <2>1. /\ Pending("connect")' \in Int /\ Queued("DispatchRecv")' \in Int /\ Pending("read")' \in Int
        /\ Pending("connect")' + Queued("DispatchRecv")' + Pending("read")'
             <= Pending("connect") + Queued("DispatchRecv") + Pending("read")
    BY <1>3, <1>6, <1>7, IInvNumbers
  <2>2. sends' = <<>> \/ Pending("write")' # 0 => sends = <<>> \/ Pending("write") # 0
    BY <1>5, <1>7
  <2>3. QED
    BY <2>1, <2>2, ChainsKept
<1>10. RecvBacklog'
  BY <1>5, <1>6, IInvNumbers DEF RecvBacklog, IInv
<1>11. StartedTracksLink'
  BY <1>3, <1>5, <1>7 DEF StartedTracksLink, IInv
<1>12. QED
  BY <1>4, <1>8, <1>9, <1>10, <1>11 DEF IInv

LEMMA SendMsgInv == ASSUME IInv, SendMsg PROVE IInv'
<1>1. TypeOK /\ Runs("SendMsg") /\ Post(<<>>)
  BY DEF IInv, SendMsg
<1>2. \A h : Queued(h)' = Queued(h) - (IF "SendMsg" = h THEN 1 ELSE 0)
  BY <1>1, RunPostsNothing
<1>3. PICK n \in {0, 1} :
      /\ n = 1 <=> sends = <<>>
      /\ live' \in [Kind -> Nat] /\ doomed' \in [Kind -> Nat] /\ sock' = sock
      /\ live'["write"] + doomed'["write"] = live["write"] + doomed["write"] + n
      /\ \A j \in Kind \ {"write"} : live'[j] = live[j] /\ doomed'[j] = doomed[j]
  <2>1. IF sends = <<>> THEN AsyncTransfer("write") ELSE UNCHANGED net
    BY DEF SendMsg
  <2>2. QED
    BY <2>1, MaybeTransfer
<1>4. Head(strand).frame \in Frame
  BY <1>1, HeadIsHandler DEF Handler
<1>5. /\ sends' = Append(sends, Head(strand).frame)
      /\ recvs' = recvs /\ conn' = conn /\ started' = started
  BY DEF SendMsg, amqp
<1>6. sends' \in Seq(Frame) /\ sends' # <<>>
  <2>1. sends \in Seq(Frame)
    BY <1>1 DEF TypeOK
  <2>2. QED
    BY <2>1, <1>4, <1>5, AppendProperties
<1>7. TypeOK'
  <2>1. strand' \in Seq(Handler)
    BY <1>1, RunPostsNothing
  <2>2. live' \in [Kind -> Nat] /\ doomed' \in [Kind -> Nat] /\ sock' = sock
    BY <1>3
  <2>3. QED
    BY <1>1, <1>6, <2>1, <2>2 DEF TypeOK, SendMsg, amqp, user, peer
<1>8. /\ Queued("DispatchRecv")' = Queued("DispatchRecv")
      /\ \A h \in {"OnConnect", "HandleRecv", "HandleWrite"} : Queued(h)' = Queued(h)
  BY <1>2, IInvNumbers
<1>9. /\ Pending("connect")' = Pending("connect") /\ Pending("read")' = Pending("read")
      /\ Pending("write")' = Pending("write") + n
  <2>1. /\ live'["write"] + doomed'["write"] = live["write"] + doomed["write"] + n
        /\ \A j \in {"connect", "read"} : live'[j] = live[j] /\ doomed'[j] = doomed[j]
    BY <1>3 DEF Kind
  <2>2. QED
    BY <2>1, <1>8, PendingIs, IInvNumbers
<1>10. OneTransferEach'
  <2>1. Pending("write")' <= 1
    <3>1. CASE sends = <<>>
      BY <3>1, <1>3, <1>9, IInvNumbers DEF OneTransferEach, IInv
    <3>2. CASE sends # <<>>
      <4>1. n = 0
        BY <3>2, <1>3
      <4>2. QED
        BY <4>1, <1>9, IInvNumbers DEF OneTransferEach, IInv
    <3>3. QED
      BY <3>1, <3>2
  <2>2. QED
    BY <2>1, <1>5, <1>6, <1>9 DEF OneTransferEach, IInv
<1>11. Chains'
  <2>1. sends' = <<>> \/ Pending("write")' # 0 => sends = <<>> \/ Pending("write") # 0
    BY <1>3, <1>6, <1>9, IInvNumbers
  <2>2. QED
    BY <2>1, <1>8, <1>9, ChainsKept, IInvNumbers
<1>12. RecvBacklog' /\ StartedTracksLink'
  BY <1>3, <1>5, <1>8, <1>9 DEF RecvBacklog, StartedTracksLink, IInv
<1>13. QED
  BY <1>7, <1>10, <1>11, <1>12 DEF IInv

LEMMA HandleWriteOkInv == ASSUME IInv, HandleWriteOk PROVE IInv'
<1>1. TypeOK /\ Runs("HandleWrite") /\ Post(<<>>)
  BY DEF IInv, HandleWriteOk
<1>2. /\ \A h : Queued(h)' = Queued(h) - (IF "HandleWrite" = h THEN 1 ELSE 0)
      /\ Queued("HandleWrite") >= 1
  BY <1>1, RunPostsNothing
<1>3. Pending("write") = 1 /\ sends # <<>>
  <2>1. Pending("write") >= 1
    BY <1>2, PendingIs, IInvNumbers
  <2>2. QED
    BY <2>1, IInvNumbers DEF OneTransferEach, IInv
<1>4. sends' = Tail(sends) /\ sends' \in Seq(Frame)
  BY <1>1, <1>3, HeadTailProperties DEF HandleWriteOk, TypeOK
<1>5. PICK n \in {0, 1} :
      /\ n = 1 <=> sends' # <<>>
      /\ live' \in [Kind -> Nat] /\ doomed' \in [Kind -> Nat] /\ sock' = sock
      /\ live'["write"] + doomed'["write"] = live["write"] + doomed["write"] + n
      /\ \A j \in Kind \ {"write"} : live'[j] = live[j] /\ doomed'[j] = doomed[j]
  <2>1. IF sends' # <<>> THEN AsyncTransfer("write") ELSE UNCHANGED net
    BY DEF HandleWriteOk
  <2>2. QED
    BY <2>1, MaybeTransfer
<1>6. TypeOK'
  <2>1. strand' \in Seq(Handler)
    BY <1>1, RunPostsNothing
  <2>2. live' \in [Kind -> Nat] /\ doomed' \in [Kind -> Nat] /\ sock' = sock
    BY <1>5
  <2>3. QED
    BY <1>1, <1>4, <2>1, <2>2 DEF TypeOK, HandleWriteOk, amqp, user, peer
<1>7. /\ Queued("DispatchRecv")' = Queued("DispatchRecv")
      /\ Queued("HandleWrite")' = Queued("HandleWrite") - 1
      /\ \A h \in {"OnConnect", "HandleRecv"} : Queued(h)' = Queued(h)
  BY <1>2, IInvNumbers
<1>8. /\ Pending("connect")' = Pending("connect") /\ Pending("read")' = Pending("read")
      /\ Pending("write")' = n
  <2>1. /\ live'["write"] + doomed'["write"] = live["write"] + doomed["write"] + n
        /\ \A j \in {"connect", "read"} : live'[j] = live[j] /\ doomed'[j] = doomed[j]
    BY <1>5 DEF Kind
  <2>2. Pending("write")' = Pending("write") - 1 + n
    BY <2>1, <1>7, PendingIs, IInvNumbers
  <2>3. QED
    BY <2>1, <2>2, <1>3, <1>7, PendingIs, IInvNumbers
<1>9. recvs' = recvs /\ conn' = conn /\ started' = started
  BY DEF HandleWriteOk, amqp
<1>10. OneTransferEach'
  <2>1. Pending("read") <= 1 /\ (recvs = 0 => Pending("read") = 0)
    BY DEF IInv, OneTransferEach
  <2>2. n <= 1 /\ (sends' = <<>> => n = 0)
    BY <1>5
  <2>3. QED
    BY <2>1, <2>2, <1>8, <1>9 DEF OneTransferEach
<1>11. Chains'
  <2>1. Pending("write") # 0
    BY <1>3
  <2>2. QED
    BY <2>1, <1>7, <1>8, ChainsKept, IInvNumbers
<1>12. RecvBacklog' /\ StartedTracksLink'
  BY <1>5, <1>7, <1>8, <1>9 DEF RecvBacklog, StartedTracksLink, IInv
<1>13. QED
  BY <1>6, <1>10, <1>11, <1>12 DEF IInv

LEMMA HandleRecvOkInv == ASSUME IInv, HandleRecvOk PROVE IInv'
<1> DEFINE answers == IF Advances /\ login + 1 < Rounds THEN Answer ELSE <<>>
           again   == IF recvs > 1 THEN <<>> ELSE <<Call("DispatchRecv")>>
           m       == IF recvs > 1 THEN 0 ELSE 1
<1>1. TypeOK /\ Runs("HandleRecv") /\ Post(answers \o again)
  BY DEF IInv, HandleRecvOk
<1>2. /\ answers \in Seq(Handler)
      /\ \A h \in {"OnConnect", "DispatchRecv", "HandleRecv", "HandleWrite"} : CountIn(answers, h) = 0
  <2>1. [conn |-> conn, hdr |-> FALSE, n |-> posted + 1] \in Frame
    BY <1>1 DEF TypeOK, Frame
  <2>2. CASE answers = <<>>
    <3>1. <<>> \in Seq(Handler) /\ \A h : CountIn(<<>>, h) = 0
      BY CountNone
    <3> HIDE DEF answers
    <3>2. QED
      BY <2>2, <3>1, Zenon
  <2>3. CASE answers = Answer
    <3> DEFINE x == SendCall([conn |-> conn, hdr |-> FALSE, n |-> posted + 1])
    <3>1. x \in Handler /\ x.h = "SendMsg"
      BY <2>1, HandlerShape
    <3>2. answers = <<x>>
      BY <2>3 DEF Answer
    <3> HIDE DEF x
    <3>3. <<x>> \in Seq(Handler) /\ \A h : CountIn(<<x>>, h) = IF x.h = h THEN 1 ELSE 0
      BY <3>1, CountOne
    <3>4. \A h \in {"OnConnect", "DispatchRecv", "HandleRecv", "HandleWrite"} : CountIn(<<x>>, h) = 0
      BY <3>1, <3>3
    <3> HIDE DEF answers
    <3>5. QED
      BY <3>2, <3>3, <3>4, Zenon
  <2>4. QED
    <3>1. answers = Answer \/ answers = <<>>
      OBVIOUS
    <3> HIDE DEF answers
    <3>2. QED
      BY <2>2, <2>3, <3>1, Zenon
<1>3. /\ again \in Seq(Handler)
      /\ CountIn(again, "DispatchRecv") = m
      /\ \A h \in {"OnConnect", "HandleRecv", "HandleWrite"} : CountIn(again, h) = 0
  <2>1. CASE recvs > 1
    BY <2>1, CountNone
  <2>2. CASE ~(recvs > 1)
    BY <2>2, HandlerShape, CountOne
  <2>3. QED
    BY <2>1, <2>2
<1> HIDE DEF answers, again
<1>4. /\ answers \o again \in Seq(Handler)
      /\ CountIn(answers \o again, "DispatchRecv") = m
      /\ \A h \in {"OnConnect", "HandleRecv", "HandleWrite"} : CountIn(answers \o again, h) = 0
  <2>1. answers \o again \in Seq(Handler)
    BY <1>2, <1>3
  <2>2. \A h : CountIn(answers \o again, h) = CountIn(answers, h) + CountIn(again, h)
    BY <1>2, <1>3, CountConcat
  <2>3. QED
    BY <2>1, <2>2, <1>2, <1>3
<1>5. /\ strand' \in Seq(Handler)
      /\ \A h : Queued(h)' = Queued(h) - (IF "HandleRecv" = h THEN 1 ELSE 0)
                                + CountIn(answers \o again, h)
      /\ Queued("HandleRecv") >= 1
  BY <1>1, <1>4, RunEffect
<1>6. Pending("read") = 1 /\ recvs >= 1
  <2>1. /\ live["read"] \in Nat /\ doomed["read"] \in Nat
        /\ Queued("HandleRecv") \in Nat /\ Queued("HandleRecv") >= 1
    BY <1>5, IInvNumbers
  <2>2. Pending("read") = live["read"] + doomed["read"] + Queued("HandleRecv")
    BY PendingIs
  <2>3. Pending("read") >= 1
    BY <2>1, <2>2
  <2>4. QED
    BY <2>3, PlainNumbers DEF OneTransferEach, IInv
<1>7. PICK n \in {0, 1} :
      /\ n = 1 <=> recvs > 1
      /\ live' \in [Kind -> Nat] /\ doomed' \in [Kind -> Nat] /\ sock' = sock
      /\ live'["read"] + doomed'["read"] = live["read"] + doomed["read"] + n
      /\ \A j \in Kind \ {"read"} : live'[j] = live[j] /\ doomed'[j] = doomed[j]
  <2>1. IF recvs > 1 THEN AsyncTransfer("read") ELSE UNCHANGED net
    BY DEF HandleRecvOk
  <2>2. QED
    BY <2>1, MaybeTransfer
<1>8. /\ recvs' = recvs - 1 /\ sends' = sends /\ conn' = conn /\ started' = started
  BY DEF HandleRecvOk
<1>9. TypeOK'
  <2>1. posted' \in Nat
    <3>1. posted' = posted + Len(answers)
      BY DEF HandleRecvOk, answers
    <3>2. QED
      BY <1>1, <1>2, <3>1, LenProperties DEF TypeOK
  <2>2. login' \in 0..Rounds
    BY <1>1, BoundsAssumption DEF TypeOK, HandleRecvOk, Advances
  <2>3. live' \in [Kind -> Nat] /\ doomed' \in [Kind -> Nat] /\ sock' = sock
    BY <1>7
  <2>4. recvs' \in Nat /\ strand' \in Seq(Handler) /\ isReady' \in BOOLEAN
    <3>1. recvs' \in Nat
      BY <1>6, <1>8, PlainNumbers
    <3>2. isReady' \in BOOLEAN
      BY <1>1 DEF HandleRecvOk, TypeOK
    <3>3. QED
      BY <1>5, <3>1, <3>2
  <2>5. QED
    BY <1>1, <1>8, <2>1, <2>2, <2>3, <2>4 DEF TypeOK, HandleRecvOk, user, peer
<1>10. /\ Queued("DispatchRecv")' = Queued("DispatchRecv") + m
       /\ Queued("HandleRecv")' = Queued("HandleRecv") - 1
       /\ \A h \in {"OnConnect", "HandleWrite"} : Queued(h)' = Queued(h)
  <2>1. Queued("DispatchRecv")' = Queued("DispatchRecv") - 0 + m
    BY <1>4, <1>5
  <2>2. Queued("HandleRecv")' = Queued("HandleRecv") - 1 + 0
    BY <1>4, <1>5
  <2>3. \A h \in {"OnConnect", "HandleWrite"} : Queued(h)' = Queued(h) - 0 + 0
    BY <1>4, <1>5
  <2>4. m \in Int
    OBVIOUS
  <2> HIDE DEF m
  <2>5. QED
    BY <2>1, <2>2, <2>3, <2>4, IInvNumbers
<1>11. /\ Pending("connect")' = Pending("connect") /\ Pending("write")' = Pending("write")
       /\ Pending("read")' = n /\ n + m = 1
  <2>1. /\ live'["read"] + doomed'["read"] = live["read"] + doomed["read"] + n
        /\ \A j \in {"connect", "write"} : live'[j] = live[j] /\ doomed'[j] = doomed[j]
    BY <1>7 DEF Kind
  <2>2. Pending("read")' = Pending("read") - 1 + n
    <3>1. Queued("HandleRecv")' = Queued("HandleRecv") - 1
      BY <1>10
    <3>2. /\ Pending("read") = live["read"] + doomed["read"] + Queued("HandleRecv")
          /\ Pending("read")' = live'["read"] + doomed'["read"] + Queued("HandleRecv")'
          /\ live["read"] \in Nat /\ doomed["read"] \in Nat /\ Queued("HandleRecv") \in Nat
      BY PendingIs, IInvNumbers
    <3> HIDE DEF m
    <3>3. QED
      BY <2>1, <3>1, <3>2
  <2>3. n + m = 1
    BY <1>7, IInvNumbers
  <2>4. QED
    BY <2>1, <2>2, <2>3, <1>6, <1>10, PendingIs, IInvNumbers
<1> HIDE DEF m
<1>12. OneTransferEach'
  <2>1. recvs' = 0 => n = 0
    BY <1>7, <1>8, IInvNumbers
  <2>2. QED
    BY <2>1, <1>8, <1>11 DEF OneTransferEach, IInv
<1>13. Chains'
  <2>1. m \in Int
    BY DEF m
  <2>2. /\ Pending("connect")' \in Int /\ Queued("DispatchRecv")' \in Int /\ Pending("read")' \in Int
        /\ Pending("connect")' + Queued("DispatchRecv")' + Pending("read")'
             <= Pending("connect") + Queued("DispatchRecv") + Pending("read")
    BY <2>1, <1>6, <1>10, <1>11, IInvNumbers
  <2>3. QED
    BY <2>2, <1>8, <1>11, ChainsKept
<1>14. RecvBacklog' /\ StartedTracksLink'
  <2>1. RecvBacklog'
    BY <1>8, <1>10, IInvNumbers DEF RecvBacklog, IInv, m
  <2>2. StartedTracksLink'
    BY <1>7, <1>8, <1>11 DEF StartedTracksLink, IInv
  <2>3. QED
    BY <2>1, <2>2
<1>15. QED
  BY <1>9, <1>12, <1>13, <1>14 DEF IInv

LEMMA HandleRecvErrInv == ASSUME IInv, HandleRecvErr PROVE IInv'
<1>1. /\ TypeOK /\ Runs("HandleRecv") /\ Post(<<Call("StartCloseSocket")>>)
      /\ AsyncConnect
  BY DEF IInv, HandleRecvErr, FailAndReconnect
<1>2. /\ strand' \in Seq(Handler)
      /\ Queued("HandleRecv") >= 1
      /\ Queued("HandleRecv")' = Queued("HandleRecv") - 1
      /\ \A h \in {"OnConnect", "DispatchRecv", "HandleWrite"} : Queued(h)' = Queued(h)
  BY <1>1, PostsClose
<1>3. /\ live' \in [Kind -> Nat] /\ doomed' \in [Kind -> Nat]
      /\ sock' \in {"connecting", "up", "down"}
      /\ live'["connect"] + doomed'["connect"] = live["connect"] + doomed["connect"] + 1
      /\ \A k \in {"read", "write"} : live'[k] = live[k] /\ doomed'[k] = doomed[k]
  BY <1>1, ConnectEffect
<1>counts.
      /\ Queued("HandleRecv") >= 1 /\ Queued("HandleRecv")' = Queued("HandleRecv") - 1
      /\ Queued("OnConnect")' = Queued("OnConnect")
      /\ Queued("DispatchRecv")' = Queued("DispatchRecv")
      /\ Queued("HandleWrite")' = Queued("HandleWrite")
      /\ live'["connect"] + doomed'["connect"] = live["connect"] + doomed["connect"] + 1
      /\ live'["read"] = live["read"] /\ doomed'["read"] = doomed["read"]
      /\ live'["write"] = live["write"] /\ doomed'["write"] = doomed["write"]
  BY <1>2, <1>3
<1>spelt. Spelt /\ Spelt'
  BY <1>2, <1>3, Numbers
<1>4. /\ recvs' = recvs /\ sends' = sends /\ conn' = conn /\ started' = started
  BY DEF HandleRecvErr, amqp
<1>5. TypeOK'
  BY <1>1, <1>2, <1>3 DEF TypeOK, HandleRecvErr, amqp, user, peer
<1>6. /\ Pending("connect")' = Pending("connect") + 1
      /\ Pending("read")' = Pending("read") - 1
      /\ Pending("write")' = Pending("write")
  BY <1>counts, <1>spelt DEF Spelt
<1>7. Pending("read") = 1
  <2>1. Pending("read") >= 1
    BY <1>counts, <1>spelt DEF Spelt
  <2>2. QED
    BY <2>1, IInvNumbers DEF OneTransferEach, IInv
<1>8. OneTransferEach'
  BY <1>4, <1>6, <1>7 DEF OneTransferEach, IInv
<1>9. Chains'
  <2>1. /\ Pending("connect")' \in Int /\ Queued("DispatchRecv")' \in Int /\ Pending("read")' \in Int
        /\ Pending("connect")' + Queued("DispatchRecv")' + Pending("read")'
             <= Pending("connect") + Queued("DispatchRecv") + Pending("read")
    BY <1>counts, <1>spelt, <1>6, IInvNumbers DEF Spelt
  <2>2. QED
    BY <2>1, <1>4, <1>6, ChainsKept
<1>10. RecvBacklog'
  BY <1>2, <1>4 DEF RecvBacklog, IInv
<1>11. StartedTracksLink'
  BY <1>6, IInvNumbers DEF StartedTracksLink
<1>12. QED
  BY <1>5, <1>8, <1>9, <1>10, <1>11 DEF IInv

LEMMA HandleWriteErrInv == ASSUME IInv, HandleWriteErr PROVE IInv'
<1>1. /\ TypeOK /\ Runs("HandleWrite") /\ Post(<<Call("StartCloseSocket")>>)
      /\ AsyncConnect
  BY DEF IInv, HandleWriteErr, FailAndReconnect
<1>2. /\ strand' \in Seq(Handler)
      /\ Queued("HandleWrite") >= 1
      /\ Queued("HandleWrite")' = Queued("HandleWrite") - 1
      /\ \A h \in {"OnConnect", "DispatchRecv", "HandleRecv"} : Queued(h)' = Queued(h)
  BY <1>1, PostsClose
<1>3. /\ live' \in [Kind -> Nat] /\ doomed' \in [Kind -> Nat]
      /\ sock' \in {"connecting", "up", "down"}
      /\ live'["connect"] + doomed'["connect"] = live["connect"] + doomed["connect"] + 1
      /\ \A k \in {"read", "write"} : live'[k] = live[k] /\ doomed'[k] = doomed[k]
  BY <1>1, ConnectEffect
<1>counts.
      /\ Queued("HandleWrite") >= 1 /\ Queued("HandleWrite")' = Queued("HandleWrite") - 1
      /\ Queued("OnConnect")' = Queued("OnConnect")
      /\ Queued("DispatchRecv")' = Queued("DispatchRecv")
      /\ Queued("HandleRecv")' = Queued("HandleRecv")
      /\ live'["connect"] + doomed'["connect"] = live["connect"] + doomed["connect"] + 1
      /\ live'["read"] = live["read"] /\ doomed'["read"] = doomed["read"]
      /\ live'["write"] = live["write"] /\ doomed'["write"] = doomed["write"]
  BY <1>2, <1>3
<1>spelt. Spelt /\ Spelt'
  BY <1>2, <1>3, Numbers
<1>4. /\ recvs' = recvs /\ sends' = sends /\ conn' = conn /\ started' = started
  BY DEF HandleWriteErr, amqp
<1>5. TypeOK'
  BY <1>1, <1>2, <1>3 DEF TypeOK, HandleWriteErr, amqp, user, peer
<1>6. /\ Pending("connect")' = Pending("connect") + 1
      /\ Pending("read")' = Pending("read")
      /\ Pending("write")' = Pending("write") - 1
  BY <1>counts, <1>spelt DEF Spelt
<1>7. Pending("write") = 1 /\ sends # <<>>
  <2>1. Pending("write") >= 1
    BY <1>counts, <1>spelt DEF Spelt
  <2>2. QED
    BY <2>1, IInvNumbers DEF OneTransferEach, IInv
<1>8. OneTransferEach'
  BY <1>4, <1>6, <1>7 DEF OneTransferEach, IInv
\* The failed frame stays at the front and nothing writes it again.
<1>9. Chains'
  <2>1. Pending("connect") + Queued("DispatchRecv") + Pending("read") <= 1
    BY <1>7 DEF IInv, Chains
  <2>2. Pending("connect")' + Queued("DispatchRecv")' + Pending("read")' <= 2
    BY <2>1, <1>counts, <1>6, IInvNumbers
  <2>3. sends' # <<>> /\ Pending("write")' = 0
    BY <1>4, <1>6, <1>7
  <2>4. QED
    BY <2>2, <2>3 DEF Chains
<1>10. RecvBacklog'
  BY <1>2, <1>4 DEF RecvBacklog, IInv
<1>11. StartedTracksLink'
  BY <1>6, IInvNumbers DEF StartedTracksLink
<1>12. QED
  BY <1>5, <1>8, <1>9, <1>10, <1>11 DEF IInv

LEMMA StartCloseSocketInv == ASSUME IInv, StartCloseSocket PROVE IInv'
<1>1. TypeOK /\ Runs("StartCloseSocket") /\ Post(<<>>)
  BY DEF IInv, StartCloseSocket
<1>2. /\ strand' \in Seq(Handler)
      /\ \A h \in {"OnConnect", "DispatchRecv", "HandleRecv", "HandleWrite"} : Queued(h)' = Queued(h)
  <2>1. \A h : Queued(h)' = Queued(h) - (IF "StartCloseSocket" = h THEN 1 ELSE 0)
    BY <1>1, RunPostsNothing
  <2>2. \A h : Queued(h) \in Nat
    BY IInvNumbers
  <2>3. \A h \in {"OnConnect", "DispatchRecv", "HandleRecv", "HandleWrite"} : Queued(h)' = Queued(h)
    BY <2>1, <2>2
  <2>4. QED
    BY <2>3, <1>1, RunPostsNothing
<1>3. /\ live' \in [Kind -> Nat] /\ doomed' \in [Kind -> Nat]
      /\ \A k \in {"connect", "read", "write"} : live'[k] + doomed'[k] = live[k] + doomed[k]
      /\ sock' = IF started THEN "closed" ELSE sock
  <2>0. live \in [Kind -> Nat] /\ doomed \in [Kind -> Nat]
    BY <1>1 DEF TypeOK
  <2>1. CASE started
    BY <2>1, <2>0 DEF StartCloseSocket, CloseAborts, Kind
  <2>2. CASE ~started
    BY <2>2, <2>0 DEF StartCloseSocket, net, Kind
  <2>3. QED
    BY <2>1, <2>2
<1>4. /\ recvs' = recvs /\ sends' = sends /\ conn' = conn /\ started' = FALSE
  BY DEF StartCloseSocket, amqp
<1>5. TypeOK'
  <2>1. sock' \in {"closed", "idle", "connecting", "up", "down"}
    BY <1>1, <1>3 DEF TypeOK
  <2>2. QED
    BY <1>1, <1>2, <1>3, <2>1 DEF TypeOK, StartCloseSocket, amqp, user, peer
<1>6. /\ Pending("connect")' = Pending("connect")
      /\ Pending("read")' = Pending("read")
      /\ Pending("write")' = Pending("write")
  <2>1. Spelt /\ Spelt'
    BY <1>2, <1>3, Numbers
  <2>2. QED
    BY <2>1, <1>2, <1>3 DEF Spelt
<1>7. OneTransferEach' /\ RecvBacklog'
  BY <1>2, <1>4, <1>6 DEF OneTransferEach, RecvBacklog, IInv
<1>8. Chains'
  BY <1>2, <1>4, <1>6 DEF Chains, IInv
<1>9. StartedTracksLink'
  BY <1>1, <1>3, <1>6 DEF StartedTracksLink, IInv, TypeOK
<1>10. QED
  BY <1>5, <1>7, <1>8, <1>9 DEF IInv

LEMMA OnConnectInv == ASSUME IInv, OnConnect PROVE IInv'
<1>1. TypeOK /\ Runs("OnConnect") /\ BoundsAssumption
  BY BoundsAssumption DEF IInv, OnConnect
<1>2. CASE Head(strand).ok /\ sock # "closed"
  <2> DEFINE header == [conn |-> conn + 1, hdr |-> TRUE, n |-> posted + 1]
             frames == <<header>> \o Farewell
             sent   == [i \in DOMAIN frames |-> SendCall(frames[i])]
             hs     == sent \o <<Call("DispatchRecv")>>
  <2>1. frames \in Seq(Frame)
    <3>1. header \in Frame /\ [conn |-> conn, hdr |-> FALSE, n |-> posted + 2] \in Frame
      BY <1>1 DEF TypeOK, Frame
    <3>2. Farewell \in Seq(Frame) /\ <<header>> \in Seq(Frame)
      BY <3>1 DEF Farewell
    <3>3. QED
      BY <3>2
  <2> HIDE DEF frames
  <2>2. /\ sent \in Seq(Handler)
        /\ \A i \in DOMAIN sent : sent[i].h = "SendMsg"
    <3>1. \A i \in DOMAIN frames : frames[i] \in Frame
      BY <2>1
    <3>2. DOMAIN frames = 1..Len(frames) /\ Len(frames) \in Nat
      BY <2>1, LenProperties
    <3>3. \A i \in DOMAIN frames : SendCall(frames[i]) \in Handler /\ SendCall(frames[i]).h = "SendMsg"
      BY <3>1, HandlerShape
    <3>4. QED
      BY <3>2, <3>3
  <2> HIDE DEF sent
  <2>3. \A h \in {"OnConnect", "DispatchRecv", "HandleRecv", "HandleWrite"} : CountIn(sent, h) = 0
    BY <2>2, CountNone
  <2>4. /\ <<Call("DispatchRecv")>> \in Seq(Handler)
        /\ CountIn(<<Call("DispatchRecv")>>, "DispatchRecv") = 1
        /\ \A h \in {"OnConnect", "HandleRecv", "HandleWrite"} : CountIn(<<Call("DispatchRecv")>>, h) = 0
    BY HandlerShape, CountOne
  <2>5. /\ hs \in Seq(Handler)
        /\ CountIn(hs, "DispatchRecv") = 1 /\ CountIn(hs, "OnConnect") = 0
        /\ CountIn(hs, "HandleRecv") = 0 /\ CountIn(hs, "HandleWrite") = 0
    <3>1. hs \in Seq(Handler)
      BY <2>2, <2>4
    <3>2. \A h : CountIn(hs, h) = CountIn(sent, h) + CountIn(<<Call("DispatchRecv")>>, h)
      BY <2>2, <2>4, CountConcat
    <3>3. QED
      BY <3>1, <3>2, <2>3, <2>4
  <2>6. /\ Post(hs) /\ UNCHANGED <<sock, live, doomed>>
        /\ started' = TRUE /\ conn' = conn + 1 /\ recvs' = recvs /\ sends' = sends
        /\ login' = 0 /\ posted' = posted + Len(frames)
    BY <1>2 DEF OnConnect, net, hs, sent, frames
  <2> HIDE DEF hs
  <2>7. /\ strand' \in Seq(Handler)
        /\ \A h : Queued(h)' = Queued(h) - (IF "OnConnect" = h THEN 1 ELSE 0) + CountIn(hs, h)
        /\ Queued("OnConnect") >= 1
    BY <2>5, <2>6, <1>1, RunEffect
  <2>8. /\ Queued("OnConnect")' = Queued("OnConnect") - 1
        /\ Queued("DispatchRecv")' = Queued("DispatchRecv") + 1
        /\ Queued("HandleRecv")' = Queued("HandleRecv")
        /\ Queued("HandleWrite")' = Queued("HandleWrite")
    <3>1. Queued("OnConnect")' = Queued("OnConnect") - 1 + 0
      BY <2>5, <2>7
    <3>2. Queued("DispatchRecv")' = Queued("DispatchRecv") - 0 + 1
      BY <2>5, <2>7
    <3>3. Queued("HandleRecv")' = Queued("HandleRecv") - 0 + 0
      BY <2>5, <2>7
    <3>4. Queued("HandleWrite")' = Queued("HandleWrite") - 0 + 0
      BY <2>5, <2>7
    <3>5. QED
      BY <3>1, <3>2, <3>3, <3>4, IInvNumbers
  <2>9. /\ Pending("connect")' = Pending("connect") - 1
        /\ Pending("read")' = Pending("read") /\ Pending("write")' = Pending("write")
    <3>1. live' \in [Kind -> Nat] /\ doomed' \in [Kind -> Nat] /\ live' = live /\ doomed' = doomed
      BY <1>1, <2>6 DEF TypeOK
    <3>2. QED
      <4>1. Spelt /\ Spelt'
        BY <3>1, <2>7, Numbers
      <4>2. live' = live /\ doomed' = doomed
        BY <3>1
      <4>3. QED
        BY <4>1, <4>2, <2>8 DEF Spelt
  <2>10. TypeOK'
    <3>1. posted' \in Nat
      BY <1>1, <2>1, <2>6, LenProperties DEF TypeOK
    <3>2. login' \in 0..Rounds /\ conn' \in Nat
      BY <1>1, <2>6 DEF TypeOK, BoundsAssumption
    <3>3. started' \in BOOLEAN /\ strand' \in Seq(Handler)
      BY <2>6, <2>7
    <3>4. QED
      BY <1>1, <2>6, <3>1, <3>2, <3>3 DEF TypeOK, OnConnect, user, peer
  <2>11. OneTransferEach'
    BY <2>6, <2>9 DEF OneTransferEach, IInv
  <2>12. Chains'
    <3>1. /\ Pending("connect")' \in Int /\ Queued("DispatchRecv")' \in Int /\ Pending("read")' \in Int
          /\ Pending("connect")' + Queued("DispatchRecv")' + Pending("read")'
               <= Pending("connect") + Queued("DispatchRecv") + Pending("read")
      BY <2>8, <2>9, PlainNumbers
    <3>2. QED
      BY <3>1, <2>6, <2>9, ChainsKept
  <2>13. RecvBacklog'
    <3>1. recvs + Queued("DispatchRecv") <= conn
      BY DEF RecvBacklog, IInv
    <3>2. /\ recvs \in Nat /\ conn \in Nat /\ Queued("DispatchRecv") \in Nat
      BY PlainNumbers
    <3>3. /\ recvs' = recvs /\ conn' = conn + 1
          /\ Queued("DispatchRecv")' = Queued("DispatchRecv") + 1
      BY <2>6, <2>8
    <3>4. recvs' + Queued("DispatchRecv")' <= conn'
      BY <3>1, <3>2, <3>3
    <3>5. QED
      BY <3>4 DEF RecvBacklog
  <2>14. StartedTracksLink'
    BY <2>6 DEF StartedTracksLink
  <2>15. QED
    BY <2>10, <2>11, <2>12, <2>13, <2>14 DEF IInv
<1>3. CASE ~(Head(strand).ok /\ sock # "closed")
  <2>1. /\ AsyncConnect /\ Post(<<>>)
        /\ started' = FALSE /\ conn' = conn /\ recvs' = recvs /\ sends' = sends
        /\ login' = login /\ posted' = posted
    BY <1>3 DEF OnConnect
  <2>2. /\ strand' \in Seq(Handler)
        /\ \A h : Queued(h)' = Queued(h) - (IF "OnConnect" = h THEN 1 ELSE 0)
        /\ Queued("OnConnect") >= 1
    BY <2>1, <1>1, RunPostsNothing
  <2>3. /\ Queued("OnConnect")' = Queued("OnConnect") - 1
        /\ Queued("DispatchRecv")' = Queued("DispatchRecv")
        /\ Queued("HandleRecv")' = Queued("HandleRecv")
        /\ Queued("HandleWrite")' = Queued("HandleWrite")
    <3>1. /\ Queued("OnConnect") \in Nat /\ Queued("DispatchRecv") \in Nat
          /\ Queued("HandleRecv") \in Nat /\ Queued("HandleWrite") \in Nat
      BY IInvNumbers
    <3>2. QED
      BY <3>1, <2>2
  <2>4. /\ live' \in [Kind -> Nat] /\ doomed' \in [Kind -> Nat]
        /\ sock' \in {"connecting", "up", "down"}
        /\ live'["connect"] + doomed'["connect"] = live["connect"] + doomed["connect"] + 1
        /\ live'["read"] = live["read"] /\ doomed'["read"] = doomed["read"]
        /\ live'["write"] = live["write"] /\ doomed'["write"] = doomed["write"]
    BY <2>1, <1>1, ConnectEffect
  <2>5. /\ Pending("connect")' = Pending("connect")
        /\ Pending("read")' = Pending("read") /\ Pending("write")' = Pending("write")
    <3>1. Spelt /\ Spelt'
      BY <2>2, <2>4, Numbers
    <3>2. /\ live'["connect"] + doomed'["connect"] = live["connect"] + doomed["connect"] + 1
          /\ live'["read"] = live["read"] /\ doomed'["read"] = doomed["read"]
          /\ live'["write"] = live["write"] /\ doomed'["write"] = doomed["write"]
      BY <2>4
    <3>3. QED
      BY <3>1, <3>2, <2>3 DEF Spelt
  <2>6. TypeOK'
    BY <1>1, <2>1, <2>2, <2>4 DEF TypeOK, OnConnect, user, peer
  <2>7. OneTransferEach' /\ RecvBacklog'
    BY <2>1, <2>3, <2>5 DEF OneTransferEach, RecvBacklog, IInv
  <2>8. Chains'
    BY <2>1, <2>3, <2>5 DEF Chains, IInv
  <2>9. Pending("connect")' # 0
    <3>1. Queued("OnConnect") >= 1
      BY <2>2
    <3>2. QED
      <4>1. Spelt /\ Spelt'
        BY <2>2, <2>4, Numbers
      <4>2. QED
        BY <4>1, <3>1, <2>5 DEF Spelt
  <2>10. QED
    BY <2>6, <2>7, <2>8, <2>9 DEF IInv, StartedTracksLink
<1>4. QED
  BY <1>2, <1>3

-----------------------------------------------------------------------------
(* Completions and the user *)

\* The completion of an operation moves it from the system to the strand.
LEMMA CompleteEffect ==
    ASSUME IInv, NEW k \in Kind, NEW ok \in BOOLEAN, NEW c \in Nat, Complete(k, ok, c),
           live' \in [Kind -> Nat], doomed' \in [Kind -> Nat],
           live'[k] + doomed'[k] = live[k] + doomed[k] - 1,
           \A j \in Kind \ {k} : live'[j] = live[j] /\ doomed'[j] = doomed[j]
    PROVE  /\ strand' \in Seq(Handler)
           /\ \A j \in Kind : Pending(j)' = Pending(j)
           /\ Queued("DispatchRecv")' = Queued("DispatchRecv")
           /\ Queued(HandlerOf[k])' >= 1
<1> DEFINE x == Completed(HandlerOf[k], ok, c)
<1>1. TypeOK
  BY DEF IInv
<1>2. HandlerOf[k] \in {"OnConnect", "HandleRecv", "HandleWrite"}
  BY DEF Kind, HandlerOf
<1>3. x \in Handler /\ x.h = HandlerOf[k]
  BY <1>2, HandlerShape
<1>4. strand' = Append(strand, x)
  BY DEF Complete
<1> HIDE DEF x
<1>5. /\ strand' \in Seq(Handler)
      /\ \A h : Queued(h)' = Queued(h) + IF x.h = h THEN 1 ELSE 0
  BY <1>1, <1>3, <1>4, AppendEffect
<1>6. /\ \A h : Queued(h) \in Nat
      /\ \A j \in Kind : live[j] \in Nat /\ doomed[j] \in Nat
  BY <1>1, CountsAreNat
<1>7. /\ Queued(HandlerOf[k])' = Queued(HandlerOf[k]) + 1
      /\ \A h : h # HandlerOf[k] => Queued(h)' = Queued(h)
  BY <1>3, <1>5, <1>6
<1>8. ASSUME NEW j \in Kind PROVE Pending(j)' = Pending(j)
  <2>1. /\ Pending(j)' = live'[j] + doomed'[j] + Queued(HandlerOf[j])'
        /\ Pending(j) = live[j] + doomed[j] + Queued(HandlerOf[j])
    BY DEF Pending
  <2>2. CASE j = k
    <3>1. live'[j] \in Nat /\ doomed'[j] \in Nat
      OBVIOUS
    <3>2. QED
      BY <2>1, <2>2, <3>1, <1>6, <1>7
  <2>3. CASE j # k
    <3>1. HandlerOf[j] # HandlerOf[k]
      BY <2>3 DEF Kind, HandlerOf
    <3>2. Queued(HandlerOf[j])' = Queued(HandlerOf[j])
      BY <3>1, <1>7
    <3>3. live'[j] = live[j] /\ doomed'[j] = doomed[j]
      BY <2>3
    <3>4. QED
      BY <2>1, <3>2, <3>3
  <2>4. QED
    BY <2>2, <2>3
<1>9. Queued("DispatchRecv")' = Queued("DispatchRecv")
  BY <1>2, <1>7
<1>10. QED
  BY <1>5, <1>6, <1>7, <1>8, <1>9

LEMMA ReportErrorInv == ASSUME IInv, NEW k \in Kind, ReportError(k) PROVE IInv'
<1>1. TypeOK /\ Complete(k, FALSE, 0) /\ live' = live
      /\ doomed' = [doomed EXCEPT ![k] = @ - 1] /\ doomed[k] > 0
  BY DEF IInv, ReportError
<1>2. /\ live' \in [Kind -> Nat] /\ doomed' \in [Kind -> Nat]
      /\ live'[k] + doomed'[k] = live[k] + doomed[k] - 1
      /\ \A j \in Kind \ {k} : live'[j] = live[j] /\ doomed'[j] = doomed[j]
  BY <1>1 DEF TypeOK
<1>3. /\ strand' \in Seq(Handler)
      /\ \A j \in Kind : Pending(j)' = Pending(j)
      /\ Queued("DispatchRecv")' = Queued("DispatchRecv")
  BY <1>1, <1>2, CompleteEffect
<1>4. TypeOK'
  BY <1>1, <1>2, <1>3 DEF TypeOK, ReportError, amqp, user, peer
<1>5. /\ Pending("connect")' = Pending("connect") /\ Pending("read")' = Pending("read")
      /\ Pending("write")' = Pending("write")
  BY <1>3 DEF Kind
<1>6. recvs' = recvs /\ sends' = sends /\ conn' = conn /\ started' = started /\ sock' = sock
  BY DEF ReportError, amqp
<1>7. QED
  BY <1>3, <1>4, <1>5, <1>6, CountsKept

\* Any completion of an operation that is under way.
LEMMA FinishedEffect ==
    ASSUME IInv, NEW k \in Kind, NEW ok \in BOOLEAN, NEW c \in Nat, Finished(k, ok, c)
    PROVE  /\ strand' \in Seq(Handler)
           /\ live' \in [Kind -> Nat] /\ doomed' \in [Kind -> Nat]
           /\ Pending("connect")' = Pending("connect") /\ Pending("read")' = Pending("read")
           /\ Pending("write")' = Pending("write")
           /\ Queued("DispatchRecv")' = Queued("DispatchRecv")
           /\ Queued(HandlerOf[k])' >= 1
           /\ recvs' = recvs /\ sends' = sends /\ conn' = conn /\ started' = started
<1>1. TypeOK /\ Complete(k, ok, c) /\ doomed' = doomed
      /\ live' = [live EXCEPT ![k] = @ - 1] /\ live[k] > 0
  BY DEF IInv, Finished
<1>2. /\ live' \in [Kind -> Nat] /\ doomed' \in [Kind -> Nat]
      /\ live'[k] + doomed'[k] = live[k] + doomed[k] - 1
      /\ \A j \in Kind \ {k} : live'[j] = live[j] /\ doomed'[j] = doomed[j]
  <2>1. live \in [Kind -> Nat] /\ doomed \in [Kind -> Nat]
    BY <1>1 DEF TypeOK
  <2>2. QED
    BY <1>1, <2>1
<1>3. /\ strand' \in Seq(Handler)
      /\ \A j \in Kind : Pending(j)' = Pending(j)
      /\ Queued("DispatchRecv")' = Queued("DispatchRecv")
      /\ Queued(HandlerOf[k])' >= 1
  BY <1>1, <1>2, CompleteEffect
<1>4. recvs' = recvs /\ sends' = sends /\ conn' = conn /\ started' = started
  BY DEF Finished, amqp
<1>5. QED
  BY <1>2, <1>3, <1>4 DEF Kind

\* A completion that leaves the socket connected only if it was, or if the
\* connect it completes has still to be handled.
LEMMA FinishedInv ==
    ASSUME IInv, NEW k \in Kind, NEW ok \in BOOLEAN, NEW c \in Nat, Finished(k, ok, c),
           sock' \in {"closed", "idle", "connecting", "up", "down"},
           sock' = "up" => sock = "up" \/ k = "connect",
           wire' \in Seq(Frame), told' \in 0..Rounds, links' \in 0..MaxLinks
    PROVE  IInv'
<1>1. /\ strand' \in Seq(Handler)
      /\ live' \in [Kind -> Nat] /\ doomed' \in [Kind -> Nat]
      /\ Pending("connect")' = Pending("connect") /\ Pending("read")' = Pending("read")
      /\ Pending("write")' = Pending("write")
      /\ Queued("DispatchRecv")' = Queued("DispatchRecv")
      /\ Queued(HandlerOf[k])' >= 1
      /\ recvs' = recvs /\ sends' = sends /\ conn' = conn /\ started' = started
  BY FinishedEffect
<1>2. TypeOK'
  BY <1>1 DEF TypeOK, IInv, Finished, amqp, user
<1>3. ASSUME k = "connect" PROVE Pending("connect") # 0
  <2>1. Spelt'
    BY <1>1, Numbers
  <2>2. HandlerOf[k] = "OnConnect"
    BY <1>3 DEF HandlerOf
  <2>3. Queued("OnConnect")' >= 1
    <3>1. Queued(HandlerOf[k])' >= 1
      BY <1>1
    <3>2. QED
      BY <2>2, <3>1, Zenon
  <2>4. /\ Pending("connect")' = live'["connect"] + doomed'["connect"] + Queued("OnConnect")'
        /\ live'["connect"] \in Nat /\ doomed'["connect"] \in Nat /\ Queued("OnConnect")' \in Nat
    BY <2>1 DEF Spelt
  <2>5. Pending("connect")' # 0
    BY <2>3, <2>4
  <2>6. QED
    BY <1>1, <2>5, Zenon
<1>4. QED
  BY <1>1, <1>2, <1>3, CountsKept

\* The bounds of the peer's variables, and of what a handler may be given.
LEMMA PeerTypes ==
    ASSUME IInv
    PROVE  /\ wire \in Seq(Frame) /\ sends \in Seq(Frame)
           /\ told \in 0..Rounds /\ Rounds \in Nat \ {0}
           /\ links \in 0..MaxLinks /\ MaxLinks \in Nat
           /\ wire # <<>> => wire[1].conn \in Nat
<1>1. wire \in Seq(Frame) /\ sends \in Seq(Frame) /\ told \in 0..Rounds /\ links \in 0..MaxLinks
  BY DEF IInv, TypeOK
<1>2. wire # <<>> => wire[1] \in Frame
  BY <1>1
<1>3. QED
  BY <1>1, <1>2, BoundsAssumption DEF Frame

LEMMA ReactorInv == ASSUME IInv, Reactor PROVE IInv'
<1>1. ASSUME NEW k \in Kind, ReportError(k) PROVE IInv'
  BY <1>1, ReportErrorInv
<1>2. CASE ConnectOk
  <2>1. /\ Finished("connect", TRUE, 0) /\ sock' = "up" /\ links' = links + 1
        /\ wire' = <<>> /\ told' = 0 /\ links < MaxLinks
    BY <1>2 DEF ConnectOk
  <2>2. wire' \in Seq(Frame) /\ told' \in 0..Rounds /\ links' \in 0..MaxLinks
    BY <2>1, PeerTypes
  <2>3. QED
    BY <2>1, <2>2, FinishedInv DEF Kind
<1>3. CASE ConnectErr
  <2>1. /\ Finished("connect", FALSE, 0) /\ sock' = "idle" /\ links' = links
        /\ wire' = wire /\ told' = told
    BY <1>3 DEF ConnectErr
  <2>2. wire' \in Seq(Frame) /\ told' \in 0..Rounds /\ links' \in 0..MaxLinks
    BY <2>1, PeerTypes
  <2>3. QED
    BY <2>1, <2>2, FinishedInv DEF Kind
<1>4. CASE ReadOk
  <2>1. /\ Finished("read", TRUE, wire[1].conn) /\ sock \in {"up", "down"} /\ sock' = sock /\ links' = links
        /\ wire' = wire /\ wire # <<>> /\ told' = IF told = Rounds THEN told ELSE told + 1
    BY <1>4 DEF ReadOk
  <2>2. /\ wire' \in Seq(Frame) /\ told' \in 0..Rounds /\ links' \in 0..MaxLinks
        /\ wire[1].conn \in Nat
    BY <2>1, PeerTypes
  <2>3. QED
    BY <2>1, <2>2, FinishedInv DEF Kind
<1>5. CASE WriteOk
  <2>1. /\ Finished("write", TRUE, 0) /\ sock \in {"up", "down"} /\ sock' = sock /\ links' = links
        /\ wire' = (IF sock = "up" THEN Append(wire, Head(sends)) ELSE wire) /\ told' = told
    BY <1>5 DEF WriteOk
  <2>2. sends # <<>>
    <3>1. /\ Queued("HandleWrite")' >= 1 /\ Pending("write")' = Pending("write")
          /\ strand' \in Seq(Handler) /\ live' \in [Kind -> Nat] /\ doomed' \in [Kind -> Nat]
      BY <2>1, FinishedEffect DEF Kind, HandlerOf
    <3>2. Spelt'
      BY <3>1, Numbers
    <3>3. Pending("write") # 0
      BY <3>1, <3>2 DEF Spelt
    <3>4. QED
      BY <3>3 DEF IInv, OneTransferEach
  <2>3. wire' \in Seq(Frame) /\ told' \in 0..Rounds /\ links' \in 0..MaxLinks
    <3>1. Head(sends) \in Frame
      BY <2>2, PeerTypes
    <3>2. Append(wire, Head(sends)) \in Seq(Frame)
      BY <3>1, PeerTypes
    <3>3. QED
      BY <2>1, <3>2, PeerTypes
  <2>4. QED
    BY <2>1, <2>3, FinishedInv DEF Kind
<1>6. ASSUME NEW k \in {"read", "write"}, TransferErr(k) PROVE IInv'
  <2>1. /\ Finished(k, FALSE, 0) /\ sock \in {"idle", "connecting", "down"} /\ sock' = sock
        /\ links' = links /\ wire' = wire /\ told' = told /\ k \in Kind
    BY <1>6 DEF TransferErr, Kind
  <2>2. wire' \in Seq(Frame) /\ told' \in 0..Rounds /\ links' \in 0..MaxLinks
    BY <2>1, PeerTypes
  <2>3. QED
    BY <2>1, <2>2, FinishedInv
<1>7. QED
  BY <1>1, <1>2, <1>3, <1>4, <1>5, <1>6 DEF Reactor

\* The counts depend on the strand and on the operations alone.
LEMMA SameCounts ==
    ASSUME strand' = strand, live' = live, doomed' = doomed
    PROVE  /\ \A k : Pending(k)' = Pending(k)
           /\ \A h : Queued(h)' = Queued(h)
BY DEF Pending, Queued, CountIn

LEMMA LinkDownInv == ASSUME IInv, LinkDown PROVE IInv'
<1>1. /\ strand' = strand /\ live' = live /\ doomed' = doomed /\ sock' = "down"
      /\ recvs' = recvs /\ sends' = sends /\ conn' = conn /\ started' = started
  BY DEF LinkDown, amqp
<1>2. TypeOK'
  BY <1>1, BoundsAssumption DEF LinkDown, IInv, TypeOK, amqp, user
<1>3. QED
  BY <1>1, <1>2, SameCounts, CountsKept

\* The user posts: what it appends is neither a receive nor a completion.
LEMMA UserPost ==
    ASSUME IInv, NEW x \in Handler, x.h \in {"SendMsg", "StartCloseSocket"},
           strand' = Append(strand, x), UNCHANGED <<net, recvs, sends, conn, started>>, TypeOK'
    PROVE  IInv'
<1>1. \A h : Queued(h)' = Queued(h) + IF x.h = h THEN 1 ELSE 0
  BY AppendEffect DEF IInv
<1>2. \A h : Queued(h) \in Nat
  BY IInvNumbers
<1>3. /\ Queued("OnConnect")' = Queued("OnConnect") /\ Queued("HandleRecv")' = Queued("HandleRecv")
      /\ Queued("HandleWrite")' = Queued("HandleWrite")
      /\ Queued("DispatchRecv")' = Queued("DispatchRecv")
  BY <1>1, <1>2
<1>4. /\ Pending("connect")' = Pending("connect") /\ Pending("read")' = Pending("read")
      /\ Pending("write")' = Pending("write")
  BY <1>3, PendingIs DEF net
<1>5. QED
  BY <1>3, <1>4, CountsKept DEF net

LEMMA UserInv == ASSUME IInv, User PROVE IInv'
<1>1. CASE GetConnection
  <2>1. TypeOK'
    BY <1>1 DEF GetConnection, IInv, TypeOK, net, amqp, user, peer
  <2>2. /\ strand' = strand /\ live' = live /\ doomed' = doomed /\ sock' = sock
        /\ recvs' = recvs /\ sends' = sends /\ conn' = conn /\ started' = started
    BY <1>1 DEF GetConnection, net, amqp
  <2>3. QED
    BY <2>1, <2>2, SameCounts, CountsKept
<1>2. CASE SendData
  <2> DEFINE x == SendCall([conn |-> usr, hdr |-> FALSE, n |-> posted + 1])
  <2>1. x \in Handler /\ x.h = "SendMsg"
    <3>1. [conn |-> usr, hdr |-> FALSE, n |-> posted + 1] \in Frame
      BY DEF IInv, TypeOK, Frame
    <3>2. QED
      BY <3>1, HandlerShape
  <2>2. strand' = Append(strand, x) /\ UNCHANGED <<net, recvs, sends, conn, started>>
    BY <1>2 DEF SendData, amqp
  <2> HIDE DEF x
  <2>3. TypeOK'
    BY <1>2, <2>1, <2>2 DEF SendData, IInv, TypeOK, net, amqp, user, peer
  <2>4. QED
    BY <2>1, <2>2, <2>3, UserPost
<1>3. CASE FinitClose
  <2> DEFINE x == Call("StartCloseSocket")
  <2>1. x \in Handler /\ x.h = "StartCloseSocket"
    BY HandlerShape
  <2>2. strand' = Append(strand, x) /\ UNCHANGED <<net, recvs, sends, conn, started>>
    BY <1>3 DEF FinitClose, amqp
  <2> HIDE DEF x
  <2>3. TypeOK'
    BY <1>3, <2>1, <2>2 DEF FinitClose, IInv, TypeOK, net, amqp, user, peer
  <2>4. QED
    BY <2>1, <2>2, <2>3, UserPost
<1>4. CASE FinitStop
  <2>1. TypeOK'
    BY <1>4 DEF FinitStop, IInv, TypeOK, net, amqp, user, peer
  <2>2. /\ strand' = strand /\ live' = live /\ doomed' = doomed /\ sock' = sock
        /\ recvs' = recvs /\ sends' = sends /\ conn' = conn /\ started' = started
    BY <1>4 DEF FinitStop, net, amqp
  <2>3. QED
    BY <2>1, <2>2, SameCounts, CountsKept
<1>5. QED
  BY <1>1, <1>2, <1>3, <1>4 DEF User

-----------------------------------------------------------------------------
(* The theorems *)

LEMMA InitIInv == Init => IInv
<1> SUFFICES ASSUME Init PROVE IInv
  OBVIOUS
<1>1. \A h : Queued(h) = 0
  BY CountNone DEF Init, Queued
<1>2. TypeOK
  <2>1. strand \in Seq(Handler) /\ sends \in Seq(Frame) /\ wire \in Seq(Frame)
    BY DEF Init
  <2>2. live \in [Kind -> Nat] /\ doomed \in [Kind -> Nat]
    BY DEF Init
  <2>3. login \in 0..Rounds /\ told \in 0..Rounds /\ links \in 0..MaxLinks /\ faults \in 0..MaxFaults
    BY BoundsAssumption DEF Init
  <2>4. QED
    BY <2>1, <2>2, <2>3 DEF Init, TypeOK
<1>3. Pending("connect") = 1 /\ Pending("read") = 0 /\ Pending("write") = 0
  BY <1>1, PendingIs DEF Init, Kind
<1>4. QED
  BY <1>1, <1>2, <1>3 DEF Init, IInv, OneTransferEach, Chains, RecvBacklog, StartedTracksLink

LEMMA StepIInv == IInv /\ [Next]_vars => IInv'
<1> SUFFICES ASSUME IInv, [Next]_vars PROVE IInv'
  OBVIOUS
<1>1. CASE Worker
  BY <1>1, OnConnectInv, DispatchRecvInv, HandleRecvOkInv, HandleRecvErrInv,
     SendMsgInv, HandleWriteOkInv, HandleWriteErrInv, StartCloseSocketInv DEF Worker
<1>2. CASE Reactor
  BY <1>2, ReactorInv
<1>3. CASE LinkDown
  BY <1>3, LinkDownInv
<1>4. CASE User
  BY <1>4, UserInv
<1>5. CASE UNCHANGED vars
  <2>1. TypeOK'
    BY <1>5 DEF vars, IInv, TypeOK, net, amqp, user, peer
  <2>2. /\ strand' = strand /\ live' = live /\ doomed' = doomed /\ sock' = sock
        /\ recvs' = recvs /\ sends' = sends /\ conn' = conn /\ started' = started
    BY <1>5 DEF vars, net, amqp
  <2>3. QED
    BY <2>1, <2>2, SameCounts, CountsKept
<1>6. QED
  BY <1>1, <1>2, <1>3, <1>4, <1>5 DEF Next, Stopped

\* The inductive invariant holds in every reachable state.
THEOREM Invariance == Spec => []IInv
BY InitIInv, StepIInv, PTL DEF Spec

\* Every variable keeps its type.
THEOREM TypeCorrect == Spec => []TypeOK
<1>1. IInv => TypeOK
  BY DEF IInv
<1>2. QED
  BY <1>1, Invariance, PTL

\* m_recv_buffer and the front of m_pending_sends never serve two operations
\* at once, and none when their queue is empty.
THEOREM BuffersExclusive == Spec => []OneTransferEach
<1>1. IInv => OneTransferEach
  BY DEF IInv
<1>2. QED
  BY <1>1, Invariance, PTL

\* However many links fail there are never more than two chains of connects.
THEOREM AtMostTwoChains == Spec => []ReconnectChains
<1>1. IInv => ReconnectChains
  BY IInvNumbers DEF IInv, Chains, ReconnectChains
<1>2. QED
  BY <1>1, Invariance, PTL

\* A socket that is connected with no connect outstanding is known to be.
THEOREM CloseKnowsLink == Spec => []StartedTracksLink
<1>1. IInv => StartedTracksLink
  BY DEF IInv
<1>2. QED
  BY <1>1, Invariance, PTL

\* The receives left in m_pending_recvs are bounded by the connections made.
THEOREM BacklogBounded == Spec => []RecvBacklog
<1>1. IInv => RecvBacklog
  BY DEF IInv
<1>2. QED
  BY <1>1, Invariance, PTL

-----------------------------------------------------------------------------
(* What every step does to the counts *)

\* What a handler of the worker posts: frames of the AMQP connections up to c,
\* the next receive, the close of the socket.
Posted(c) ==
    {x \in Handler : /\ x.h \in {"SendMsg", "DispatchRecv", "StartCloseSocket"}
                     /\ x.h = "SendMsg" => x.frame.conn \in 1..c}

Completions == {"OnConnect", "HandleRecv", "HandleWrite"}

One(g, h) == IF g = h THEN 1 ELSE 0

\* Nothing that is posted is the completion of an operation.
LEMMA PostedCounts ==
    ASSUME NEW c, NEW hs \in Seq(Posted(c))
    PROVE  hs \in Seq(Handler) /\ \A h \in Completions : CountIn(hs, h) = 0
<1>1. Posted(c) \subseteq Handler
  BY DEF Posted
<1>2. hs \in Seq(Handler)
  BY <1>1
<1>3. \A i \in DOMAIN hs : hs[i].h \notin Completions
  <2>1. \A i \in DOMAIN hs : hs[i] \in Posted(c)
    OBVIOUS
  <2>2. QED
    BY <2>1 DEF Posted, Completions
<1>4. ASSUME NEW h \in Completions PROVE CountIn(hs, h) = 0
  BY <1>3, CountNone
<1>5. QED
  BY <1>2, <1>4

\* What the counts of the strand and the operations started come to.
LEMMA RunSums ==
    ASSUME Spelt, Spelt', NEW g, NEW c \in Nat, NEW r \in Nat, NEW w \in Nat,
           live'["connect"] + doomed'["connect"] = live["connect"] + doomed["connect"] + c,
           live'["read"] + doomed'["read"] = live["read"] + doomed["read"] + r,
           live'["write"] + doomed'["write"] = live["write"] + doomed["write"] + w,
           Queued("OnConnect")' = Queued("OnConnect") - One(g, "OnConnect"),
           Queued("HandleRecv")' = Queued("HandleRecv") - One(g, "HandleRecv"),
           Queued("HandleWrite")' = Queued("HandleWrite") - One(g, "HandleWrite")
    PROVE  /\ Pending("connect")' = Pending("connect") + c - One(g, "OnConnect")
           /\ Pending("read")' = Pending("read") + r - One(g, "HandleRecv")
           /\ Pending("write")' = Pending("write") + w - One(g, "HandleWrite")
BY DEF Spelt, One

\* The handler that runs was pending, and its queue was not empty.
LEMMA RunPending ==
    ASSUME IInv, Spelt, NEW g, Queued(g) >= 1
    PROVE  /\ g = "OnConnect" => Pending("connect") >= 1
           /\ g = "HandleRecv" => Pending("read") = 1 /\ recvs >= 1
           /\ g = "HandleWrite" => Pending("write") = 1 /\ sends # <<>>
           /\ g = "DispatchRecv" => Queued("DispatchRecv") >= 1
<1>1. OneTransferEach
  BY DEF IInv
<1>2. recvs \in Nat
  BY PlainNumbers
<1>3. g = "OnConnect" => Pending("connect") >= 1
  BY DEF Spelt
<1>4. g = "HandleRecv" => Pending("read") >= 1
  BY DEF Spelt
<1>5. g = "HandleWrite" => Pending("write") >= 1
  BY DEF Spelt
<1>6. Pending("read") \in Nat /\ Pending("write") \in Nat
  BY PlainNumbers
<1>7. QED
  BY <1>1, <1>2, <1>3, <1>4, <1>5, <1>6 DEF OneTransferEach

\* The counts after a handler that starts c connects, r reads and w writes.
RunsCount(g, c, r, w, d) ==
    /\ Pending("connect")' = Pending("connect") + c - One(g, "OnConnect")
    /\ Pending("read")' = Pending("read") + r - One(g, "HandleRecv")
    /\ Pending("write")' = Pending("write") + w - One(g, "HandleWrite")
    /\ Queued("DispatchRecv")' = Queued("DispatchRecv") + d - One(g, "DispatchRecv")
    /\ Queued("HandleWrite")' = Queued("HandleWrite") - One(g, "HandleWrite")
    /\ g = "OnConnect" => Pending("connect") >= 1
    /\ g = "HandleRecv" => Pending("read") = 1 /\ recvs >= 1
    /\ g = "HandleWrite" => Pending("write") = 1 /\ sends # <<>>
    /\ g = "DispatchRecv" => Queued("DispatchRecv") >= 1

\* A handler runs and starts c connects, r reads and w writes.
LEMMA RunCounts ==
    ASSUME IInv, NEW g, Runs(g), NEW p, NEW hs \in Seq(Posted(p)), Post(hs),
           live' \in [Kind -> Nat], doomed' \in [Kind -> Nat],
           NEW c \in Nat, NEW r \in Nat, NEW w \in Nat,
           live'["connect"] + doomed'["connect"] = live["connect"] + doomed["connect"] + c,
           live'["read"] + doomed'["read"] = live["read"] + doomed["read"] + r,
           live'["write"] + doomed'["write"] = live["write"] + doomed["write"] + w
    PROVE  RunsCount(g, c, r, w, CountIn(hs, "DispatchRecv"))
<1>1. TypeOK /\ hs \in Seq(Handler) /\ \A h \in Completions : CountIn(hs, h) = 0
  BY PostedCounts DEF IInv
<1>2. /\ strand' \in Seq(Handler)
      /\ \A h : Queued(h)' = Queued(h) - (IF g = h THEN 1 ELSE 0) + CountIn(hs, h)
      /\ CountIn(hs, "DispatchRecv") \in Nat
      /\ Queued(g) >= 1
  BY <1>1, RunEffect
<1>3. Spelt /\ Spelt'
  BY <1>2, Numbers
<1>4. ASSUME NEW h \in Completions
      PROVE  Queued(h)' = Queued(h) - One(g, h)
  <2>1. Queued(h)' = Queued(h) - (IF g = h THEN 1 ELSE 0) + 0
    BY <1>1, <1>2, <1>4
  <2>2. Queued(h) \in Nat
    BY IInvNumbers
  <2>3. Queued(h)' = Queued(h) - (IF g = h THEN 1 ELSE 0)
    BY <2>1, <2>2
  <2>4. QED
    BY <2>3 DEF One
<1>5. /\ Queued("OnConnect")' = Queued("OnConnect") - One(g, "OnConnect")
      /\ Queued("HandleRecv")' = Queued("HandleRecv") - One(g, "HandleRecv")
      /\ Queued("HandleWrite")' = Queued("HandleWrite") - One(g, "HandleWrite")
  BY <1>4 DEF Completions
<1>6. Queued("DispatchRecv")'
        = Queued("DispatchRecv") + CountIn(hs, "DispatchRecv") - One(g, "DispatchRecv")
  <2> DEFINE d == CountIn(hs, "DispatchRecv")
  <2>1. Queued("DispatchRecv")' = Queued("DispatchRecv") - (IF g = "DispatchRecv" THEN 1 ELSE 0) + d
    BY <1>2
  <2>2. Queued("DispatchRecv") \in Nat /\ d \in Nat
    BY <1>2, IInvNumbers
  <2> HIDE DEF d
  <2>3. Queued("DispatchRecv")' = Queued("DispatchRecv") + d - One(g, "DispatchRecv")
    BY <2>1, <2>2 DEF One
  <2>4. QED
    BY <2>3 DEF d
<1>7. /\ Pending("connect")' = Pending("connect") + c - One(g, "OnConnect")
      /\ Pending("read")' = Pending("read") + r - One(g, "HandleRecv")
      /\ Pending("write")' = Pending("write") + w - One(g, "HandleWrite")
  BY <1>3, <1>5, RunSums
<1>8. /\ g = "OnConnect" => Pending("connect") >= 1
      /\ g = "HandleRecv" => Pending("read") = 1 /\ recvs >= 1
      /\ g = "HandleWrite" => Pending("write") = 1 /\ sends # <<>>
      /\ g = "DispatchRecv" => Queued("DispatchRecv") >= 1
  BY <1>2, <1>3, RunPending
<1>9. QED
  BY <1>5, <1>6, <1>7, <1>8 DEF RunsCount

\* Asio's operations are counted in numbers.
LEMMA AsioNumbers ==
    ASSUME IInv, NEW j \in {"connect", "read", "write"}
    PROVE  live[j] \in Nat /\ doomed[j] \in Nat
BY IInvNumbers, Zenon

\* A handler that starts a read or a write, or nothing: n says how many.
LEMMA RunTransfers ==
    ASSUME IInv, NEW g, Runs(g), NEW p, NEW hs \in Seq(Posted(p)), Post(hs),
           NEW k \in {"read", "write"}, NEW go \in BOOLEAN,
           IF go THEN AsyncTransfer(k) ELSE UNCHANGED net
    PROVE  \E n \in {0, 1} :
             /\ n = 1 <=> go
             /\ k = "read" => RunsCount(g, 0, n, 0, CountIn(hs, "DispatchRecv"))
             /\ k = "write" => RunsCount(g, 0, 0, n, CountIn(hs, "DispatchRecv"))
             /\ sock' = sock
<1>1. PICK n \in {0, 1} :
           /\ n = 1 <=> go
           /\ live' \in [Kind -> Nat] /\ doomed' \in [Kind -> Nat] /\ sock' = sock
           /\ live'[k] + doomed'[k] = live[k] + doomed[k] + n
           /\ \A j \in Kind \ {k} : live'[j] = live[j] /\ doomed'[j] = doomed[j]
  BY MaybeTransfer
<1>2. n \in Nat /\ 0 \in Nat
  OBVIOUS
<1>3. \A j \in {"connect", "read", "write"} :
         live[j] + doomed[j] = live[j] + doomed[j] + 0 /\ j \in Kind
  <2> TAKE j \in {"connect", "read", "write"}
  <2>1. live[j] \in Nat /\ doomed[j] \in Nat
    BY AsioNumbers, Zenon
  <2>2. live[j] + doomed[j] = live[j] + doomed[j] + 0
    BY <2>1
  <2>3. j \in Kind
    BY DEF Kind
  <2>4. QED
    BY <2>2, <2>3, Zenon
<1>4. \A j \in {"connect", "read", "write"} \ {k} :
         live'[j] + doomed'[j] = live[j] + doomed[j] + 0
  BY <1>1, <1>3
<1>5. CASE k = "read"
  <2>1. RunsCount(g, 0, n, 0, CountIn(hs, "DispatchRecv"))
    BY <1>1, <1>2, <1>4, <1>5, RunCounts
  <2>2. QED
    BY <1>1, <1>5, <2>1
<1>6. CASE k = "write"
  <2>1. RunsCount(g, 0, 0, n, CountIn(hs, "DispatchRecv"))
    BY <1>1, <1>2, <1>4, <1>6, RunCounts
  <2>2. QED
    BY <1>1, <1>6, <2>1
<1>7. QED
  BY <1>5, <1>6

\* A handler that starts a connect.
LEMMA RunConnects ==
    ASSUME IInv, NEW g, Runs(g), NEW p, NEW hs \in Seq(Posted(p)), Post(hs), AsyncConnect
    PROVE  RunsCount(g, 1, 0, 0, CountIn(hs, "DispatchRecv"))
<1>1. /\ live' \in [Kind -> Nat] /\ doomed' \in [Kind -> Nat]
      /\ live'["connect"] + doomed'["connect"] = live["connect"] + doomed["connect"] + 1
      /\ \A k \in {"read", "write"} : live'[k] = live[k] /\ doomed'[k] = doomed[k]
  BY ConnectEffect DEF IInv
<1>2. \A j \in {"read", "write"} : live'[j] + doomed'[j] = live[j] + doomed[j] + 0
  <2> TAKE j \in {"read", "write"}
  <2>1. live[j] \in Nat /\ doomed[j] \in Nat
    BY AsioNumbers
  <2>2. live'[j] = live[j] /\ doomed'[j] = doomed[j]
    BY <1>1, Zenon
  <2>3. QED
    BY <2>1, <2>2
<1>3. 0 \in Nat /\ 1 \in Nat
  OBVIOUS
<1>4. QED
  BY <1>1, <1>2, <1>3, RunCounts

\* A handler that starts nothing.
LEMMA RunStarts ==
    ASSUME IInv, NEW g, Runs(g), NEW p, NEW hs \in Seq(Posted(p)), Post(hs),
           live' \in [Kind -> Nat], doomed' \in [Kind -> Nat],
           \A k \in Kind : live'[k] + doomed'[k] = live[k] + doomed[k]
    PROVE  RunsCount(g, 0, 0, 0, CountIn(hs, "DispatchRecv"))
<1>1. ASSUME NEW j \in {"connect", "read", "write"}
      PROVE  live'[j] + doomed'[j] = live[j] + doomed[j] + 0
  <2>1. live[j] \in Nat /\ doomed[j] \in Nat
    BY IInvNumbers
  <2>2. live'[j] + doomed'[j] = live[j] + doomed[j]
    BY DEF Kind
  <2>3. QED
    BY <2>1, <2>2
<1>2. 0 \in Nat
  OBVIOUS
<1>3. QED
  BY <1>1, <1>2, RunCounts

-----------------------------------------------------------------------------
(* What the handlers post *)

\* What the receive handler posts: answers of connections up to c, and the
\* next receive.
Said(c) ==
    {x \in Handler : /\ x.h \in {"SendMsg", "DispatchRecv"}
                     /\ x.h = "SendMsg" => x.frame.conn \in 1..c /\ ~x.frame.hdr}

\* Nothing posted is of every sort.
LEMMA NothingPosted ==
    ASSUME NEW c
    PROVE  /\ <<>> \in Seq(Posted(c)) /\ <<>> \in Seq(Said(c))
           /\ CountIn(<<>>, "DispatchRecv") = 0
BY CountNone

\* The close of the socket.
LEMMA ClosePosted ==
    ASSUME NEW c
    PROVE  /\ <<Call("StartCloseSocket")>> \in Seq(Posted(c))
           /\ CountIn(<<Call("StartCloseSocket")>>, "DispatchRecv") = 0
<1>1. Call("StartCloseSocket") \in Handler /\ Call("StartCloseSocket").h = "StartCloseSocket"
  BY HandlerShape
<1>2. Call("StartCloseSocket") \in Posted(c)
  BY <1>1 DEF Posted
<1>3. QED
  BY <1>1, <1>2, CountOne

\* A new connection posts its header, a farewell of the one it replaces if
\* that one was logged in, and the first receive.
LEMMA ConnectSays ==
    ASSUME IInv, OnConnect, Head(strand).ok /\ sock # "closed"
    PROVE  \E hs \in Seq(Posted(conn + 1)) : CountIn(hs, "DispatchRecv") = 1 /\ Post(hs)
<1> DEFINE header == [conn |-> conn + 1, hdr |-> TRUE, n |-> posted + 1]
           frames == <<header>> \o Farewell
           sent   == [i \in DOMAIN frames |-> SendCall(frames[i])]
           last   == <<Call("DispatchRecv")>>
           F      == {f \in Frame : f.conn \in 1..(conn + 1)}
<1>1. Post(sent \o last)
  BY DEF OnConnect
<1>2. conn \in Nat /\ posted \in Nat
  BY DEF IInv, TypeOK
<1>3. frames \in Seq(F)
  <2>1. header \in F
    BY <1>2 DEF Frame
  <2>2. CASE Farewell = <<>>
    <3> HIDE DEF F, header
    <3>1. QED
      BY <2>1, <2>2
  <2>3. CASE conn # 0 /\ Farewell = <<[conn |-> conn, hdr |-> FALSE, n |-> posted + 2]>>
    <3>1. [conn |-> conn, hdr |-> FALSE, n |-> posted + 2] \in F
      BY <1>2, <2>3 DEF Frame
    <3> HIDE DEF F, header
    <3>2. QED
      BY <2>1, <2>3, <3>1
  <2>4. QED
    BY <2>2, <2>3 DEF Farewell
<1> HIDE DEF frames
<1>4. sent \in Seq(Posted(conn + 1)) /\ \A i \in DOMAIN sent : sent[i].h # "DispatchRecv"
  <2>1. \A i \in DOMAIN frames : frames[i] \in F
    BY <1>3
  <2>2. DOMAIN frames = 1..Len(frames) /\ Len(frames) \in Nat
    BY <1>3, LenProperties
  <2>3. ASSUME NEW i \in DOMAIN frames
        PROVE  SendCall(frames[i]) \in Posted(conn + 1) /\ SendCall(frames[i]).h = "SendMsg"
    <3>1. frames[i] \in Frame /\ frames[i].conn \in 1..(conn + 1)
      BY <2>1
    <3>2. SendCall(frames[i]) \in Handler /\ SendCall(frames[i]).h = "SendMsg"
      BY <3>1, HandlerShape
    <3>3. SendCall(frames[i]).frame = frames[i]
      BY DEF SendCall
    <3>4. QED
      BY <3>1, <3>2, <3>3 DEF Posted
  <2>4. QED
    BY <2>2, <2>3
<1>5. last \in Seq(Posted(conn + 1)) /\ CountIn(last, "DispatchRecv") = 1
  <2>1. Call("DispatchRecv") \in Handler /\ Call("DispatchRecv").h = "DispatchRecv"
    BY HandlerShape
  <2>2. Call("DispatchRecv") \in Posted(conn + 1)
    BY <2>1 DEF Posted
  <2>3. QED
    BY <2>1, <2>2, CountOne
<1> HIDE DEF sent, last
<1>6. CountIn(sent, "DispatchRecv") = 0
  BY <1>4, CountNone
<1>7. sent \in Seq(Handler) /\ last \in Seq(Handler)
  BY <1>4, <1>5 DEF Posted
<1>8. CountIn(sent \o last, "DispatchRecv") = 1
  <2>1. CountIn(sent \o last, "DispatchRecv") = 0 + 1
    BY <1>5, <1>6, <1>7, CountConcat
  <2>2. QED
    BY <2>1
<1>9. sent \o last \in Seq(Posted(conn + 1))
  BY <1>4, <1>5
<1>10. QED
  BY <1>1, <1>8, <1>9

\* The first connection only has its header to post, and the receive.
LEMMA FirstSays ==
    ASSUME IInv, OnConnect, Head(strand).ok /\ sock # "closed", conn = 0
    PROVE  \E x \in Posted(1), t \in Seq(Said(1)) :
              Post(<<x>> \o t) /\ x.h = "SendMsg" /\ x.frame.hdr
<1> DEFINE header == [conn |-> 1, hdr |-> TRUE, n |-> posted + 1]
           x      == SendCall(header)
           t      == <<Call("DispatchRecv")>>
           frames == <<header>> \o <<>>
           sent   == [i \in DOMAIN frames |-> SendCall(frames[i])]
<1>1. Farewell = <<>> /\ conn + 1 = 1
  BY DEF Farewell
<1>2. Post(sent \o t)
  BY <1>1, Zenon DEF OnConnect
<1>3. header \in Frame /\ header.conn \in 1..1 /\ header.hdr
  BY DEF IInv, TypeOK, Frame
<1>4. x \in Posted(1) /\ x.h = "SendMsg" /\ x.frame.hdr
  <2>1. x \in Handler /\ x.h = "SendMsg" /\ x.frame = header
    BY <1>3, HandlerShape DEF SendCall
  <2> HIDE DEF x, header
  <2>2. QED
    BY <1>3, <2>1 DEF Posted
<1>5. t \in Seq(Said(1))
  <2>1. Call("DispatchRecv") \in Handler /\ Call("DispatchRecv").h = "DispatchRecv"
    BY HandlerShape
  <2>2. Call("DispatchRecv") \in Said(1)
    BY <2>1 DEF Said
  <2>3. QED
    BY <2>2
<1>6. sent = <<x>>
  <2>1. Len(frames) = 1 /\ DOMAIN frames = 1..1 /\ frames[1] = header
    OBVIOUS
  <2> HIDE DEF frames, header
  <2>2. sent \in Seq({x}) /\ Len(sent) = 1 /\ sent[1] = x
    BY <2>1
  <2> HIDE DEF sent, x
  <2>3. QED
    BY <2>2
<1> HIDE DEF x, t, sent
<1>7. QED
  BY <1>2, <1>4, <1>5, <1>6

\* A message of the broker is answered, perhaps, and the next receive posted,
\* unless one is still to come.
LEMMA ReceiveSays ==
    ASSUME IInv, HandleRecvOk, conn >= 1
    PROVE  \E hs \in Seq(Said(conn)) :
              Post(hs) /\ CountIn(hs, "DispatchRecv") = IF recvs > 1 THEN 0 ELSE 1
<1> DEFINE answers == IF Advances /\ login + 1 < Rounds THEN Answer ELSE <<>>
           again   == IF recvs > 1 THEN <<>> ELSE <<Call("DispatchRecv")>>
           m       == IF recvs > 1 THEN 0 ELSE 1
<1>1. Post(answers \o again)
  BY DEF HandleRecvOk
<1>2. conn \in Nat /\ posted \in Nat
  BY DEF IInv, TypeOK
<1>3. answers \in Seq(Said(conn)) /\ CountIn(answers, "DispatchRecv") = 0
  <2> DEFINE f == [conn |-> conn, hdr |-> FALSE, n |-> posted + 1]
             x == SendCall(f)
  <2>1. f \in Frame /\ f.conn \in 1..conn /\ ~f.hdr
    BY <1>2 DEF Frame
  <2>2. x \in Handler /\ x.h = "SendMsg" /\ x.frame = f
    BY <2>1, HandlerShape DEF SendCall
  <2>3. x \in Said(conn)
    BY <2>1, <2>2 DEF Said
  <2>4. Answer = <<x>>
    BY DEF Answer
  <2> HIDE DEF x, f
  <2>5. Answer \in Seq(Said(conn)) /\ CountIn(Answer, "DispatchRecv") = 0
    BY <2>2, <2>3, <2>4, CountOne
  <2>6. answers = Answer \/ answers = <<>>
    OBVIOUS
  <2> HIDE DEF answers
  <2>7. QED
    BY <2>5, <2>6, NothingPosted, Zenon
<1>4. again \in Seq(Said(conn)) /\ CountIn(again, "DispatchRecv") = m
  <2>1. Call("DispatchRecv") \in Handler /\ Call("DispatchRecv").h = "DispatchRecv"
    BY HandlerShape
  <2>2. Call("DispatchRecv") \in Said(conn)
    BY <2>1 DEF Said
  <2>3. <<Call("DispatchRecv")>> \in Seq(Said(conn)) /\ CountIn(<<Call("DispatchRecv")>>, "DispatchRecv") = 1
    BY <2>1, <2>2, CountOne
  <2>4. (recvs > 1 /\ again = <<>> /\ m = 0) \/ (again = <<Call("DispatchRecv")>> /\ m = 1)
    OBVIOUS
  <2> HIDE DEF again, m
  <2>5. QED
    BY <2>3, <2>4, NothingPosted, Zenon
<1>5. m \in Nat
  OBVIOUS
<1> HIDE DEF answers, again, m
<1>6. answers \in Seq(Handler) /\ again \in Seq(Handler)
  BY <1>3, <1>4 DEF Said
<1>7. CountIn(answers \o again, "DispatchRecv") = 0 + m
  BY <1>3, <1>4, <1>6, CountConcat
<1>8. CountIn(answers \o again, "DispatchRecv") = m
  BY <1>5, <1>7
<1>9. answers \o again \in Seq(Said(conn))
  BY <1>3, <1>4
<1>10. QED
  BY <1>1, <1>8, <1>9 DEF m

-----------------------------------------------------------------------------
(* The links: reads and writes that are dead, and the first connection *)

\* A receive that has failed leaves its entry in m_pending_recvs, and no
\* receive is ever started again; a frame that could not be written stays at
\* the front of m_pending_sends, and nothing is ever written again.
ReadDead == recvs > 0 /\ Pending("read") = 0
WriteDead == sends # <<>> /\ Pending("write") = 0

\* While both work there is one connection: the one made, or the one being
\* made.
FirstLink == ReadDead \/ WriteDead \/ conn + Pending("connect") = 1

LinkStep ==
    /\ ReadDead => ReadDead'
    /\ WriteDead => WriteDead'
    /\ FirstLink'

\* Nothing but the worker changes the counts.
LEMMA ElsewhereCounts ==
    ASSUME IInv, Reactor \/ LinkDown \/ User \/ UNCHANGED vars
    PROVE  /\ Pending("connect")' = Pending("connect") /\ Pending("read")' = Pending("read")
           /\ Pending("write")' = Pending("write")
           /\ Queued("DispatchRecv")' = Queued("DispatchRecv")
           /\ recvs' = recvs /\ sends' = sends /\ conn' = conn /\ started' = started
<1> DEFINE Same == /\ Pending("connect")' = Pending("connect") /\ Pending("read")' = Pending("read")
                   /\ Pending("write")' = Pending("write")
                   /\ Queued("DispatchRecv")' = Queued("DispatchRecv")
                   /\ recvs' = recvs /\ sends' = sends /\ conn' = conn /\ started' = started
<1> SUFFICES Same
  OBVIOUS
<1>1. ASSUME NEW k \in Kind, ReportError(k) PROVE Same
  <2>1. /\ Complete(k, FALSE, 0) /\ live' = live /\ doomed' = [doomed EXCEPT ![k] = @ - 1]
        /\ doomed[k] > 0 /\ live \in [Kind -> Nat] /\ doomed \in [Kind -> Nat]
    BY <1>1 DEF IInv, TypeOK, ReportError
  <2>2. /\ live' \in [Kind -> Nat] /\ doomed' \in [Kind -> Nat]
        /\ live'[k] + doomed'[k] = live[k] + doomed[k] - 1
        /\ \A j \in Kind \ {k} : live'[j] = live[j] /\ doomed'[j] = doomed[j]
    BY <2>1
  <2>3. /\ \A j \in Kind : Pending(j)' = Pending(j)
        /\ Queued("DispatchRecv")' = Queued("DispatchRecv")
    BY <2>1, <2>2, CompleteEffect
  <2>4. recvs' = recvs /\ sends' = sends /\ conn' = conn /\ started' = started
    BY <1>1 DEF ReportError, amqp
  <2>5. QED
    BY <2>3, <2>4 DEF Kind
<1>2. ASSUME NEW k \in Kind, NEW ok \in BOOLEAN, NEW c \in Nat, Finished(k, ok, c) PROVE Same
  BY <1>2, FinishedEffect
<1>3. CASE Reactor
  <2>1. ASSUME ReadOk PROVE wire[1].conn \in Nat
    BY <2>1, PeerTypes DEF ReadOk
  <2>2. \/ \E k \in Kind : ReportError(k)
        \/ \E k \in Kind, ok \in BOOLEAN, c \in Nat : Finished(k, ok, c)
    BY <1>3, <2>1 DEF Reactor, ConnectOk, ConnectErr, ReadOk, WriteOk, TransferErr, Kind
  <2> HIDE DEF Same
  <2>3. QED
    BY <1>1, <1>2, <2>2
<1>4. CASE LinkDown \/ UNCHANGED vars \/ GetConnection \/ FinitStop
  <2>1. strand' = strand /\ live' = live /\ doomed' = doomed
    BY <1>4 DEF LinkDown, vars, GetConnection, FinitStop, net
  <2>2. recvs' = recvs /\ sends' = sends /\ conn' = conn /\ started' = started
    BY <1>4 DEF LinkDown, vars, GetConnection, FinitStop, amqp
  <2>3. QED
    BY <2>1, <2>2, SameCounts
<1>5. ASSUME NEW x \in Handler, x.h \in {"SendMsg", "StartCloseSocket"}, strand' = Append(strand, x),
             UNCHANGED <<net, recvs, sends, conn, started>>
      PROVE  Same
  <2>1. \A h : Queued(h)' = Queued(h) + IF x.h = h THEN 1 ELSE 0
    BY <1>5, AppendEffect DEF IInv
  <2>2. \A h : Queued(h) \in Nat
    BY IInvNumbers
  <2>3. /\ Queued("OnConnect")' = Queued("OnConnect") /\ Queued("HandleRecv")' = Queued("HandleRecv")
        /\ Queued("HandleWrite")' = Queued("HandleWrite")
        /\ Queued("DispatchRecv")' = Queued("DispatchRecv")
    BY <1>5, <2>1, <2>2
  <2>4. QED
    BY <1>5, <2>3, PendingIs DEF net
<1>6. CASE SendData
  <2> DEFINE x == SendCall([conn |-> usr, hdr |-> FALSE, n |-> posted + 1])
  <2>1. x \in Handler /\ x.h = "SendMsg"
    <3>1. [conn |-> usr, hdr |-> FALSE, n |-> posted + 1] \in Frame
      BY DEF IInv, TypeOK, Frame
    <3>2. QED
      BY <3>1, HandlerShape
  <2>2. strand' = Append(strand, x) /\ UNCHANGED <<net, recvs, sends, conn, started>>
    BY <1>6 DEF SendData, amqp
  <2> HIDE DEF x, Same
  <2>3. QED
    BY <2>1, <2>2, <1>5
<1>7. CASE FinitClose
  <2> DEFINE x == Call("StartCloseSocket")
  <2>1. x \in Handler /\ x.h = "StartCloseSocket"
    BY HandlerShape
  <2>2. strand' = Append(strand, x) /\ UNCHANGED <<net, recvs, sends, conn, started>>
    BY <1>7 DEF FinitClose, amqp
  <2> HIDE DEF x, Same
  <2>3. QED
    BY <2>1, <2>2, <1>5
<1> HIDE DEF Same
<1>8. QED
  BY <1>3, <1>4, <1>6, <1>7 DEF User

\* The handler that runs was queued.
LEMMA RunQueued == ASSUME IInv, NEW g, Runs(g) PROVE Queued(g) >= 1 /\ Spelt
<1>1. Queued(g) >= 1
  <2>1. strand \in Seq(Handler) /\ strand # <<>> /\ Head(strand).h = g
    BY DEF IInv, TypeOK, Runs
  <2>2. IsFiniteSet({i \in DOMAIN strand : strand[i].h = g}) /\ Queued(g) \in Nat
    BY <2>1, CountType DEF Queued
  <2>3. 1 \in {i \in DOMAIN strand : strand[i].h = g}
    BY <2>1
  <2>4. Queued(g) # 0
    BY <2>2, <2>3, FS_EmptySet DEF Queued, CountIn
  <2>5. QED
    BY <2>2, <2>4
<1>2. Spelt
  BY IInvNumbers, PendingIs DEF Spelt
<1>3. QED
  BY <1>1, <1>2

\* A step that changes none of the counts.
LEMMA QuietLinks ==
    ASSUME FirstLink, Pending("connect")' = Pending("connect"), Pending("read")' = Pending("read"),
           Pending("write")' = Pending("write"), recvs' = recvs, sends' = sends, conn' = conn
    PROVE  LinkStep
BY DEF LinkStep, FirstLink, ReadDead, WriteDead

LEMMA OnConnectLinks == ASSUME IInv, FirstLink, OnConnect PROVE LinkStep
<1>1. recvs' = recvs /\ sends' = sends /\ Runs("OnConnect")
  BY DEF OnConnect
<1>2. CASE Head(strand).ok /\ sock # "closed"
  <2>1. conn' = conn + 1 /\ live' = live /\ doomed' = doomed
    BY <1>2 DEF OnConnect, net
  <2>2. PICK hs \in Seq(Posted(conn + 1)) : Post(hs)
    BY <1>2, ConnectSays
  <2>3. live' \in [Kind -> Nat] /\ doomed' \in [Kind -> Nat]
    BY <2>1 DEF IInv, TypeOK
  <2>4. \A k \in Kind : live'[k] + doomed'[k] = live[k] + doomed[k]
    BY <2>1
  <2>5. RunsCount("OnConnect", 0, 0, 0, CountIn(hs, "DispatchRecv"))
    BY <1>1, <2>2, <2>3, <2>4, RunStarts
  <2>6. /\ Pending("connect")' = Pending("connect") - 1
        /\ Pending("read")' = Pending("read") /\ Pending("write")' = Pending("write")
    BY <2>5, PlainNumbers DEF RunsCount, One
  <2>7. QED
    BY <1>1, <2>1, <2>6, PlainNumbers DEF LinkStep, FirstLink, ReadDead, WriteDead
<1>3. CASE ~(Head(strand).ok /\ sock # "closed")
  <2>1. conn' = conn /\ AsyncConnect /\ Post(<<>>)
    BY <1>3 DEF OnConnect
  <2>2. RunsCount("OnConnect", 1, 0, 0, CountIn(<<>>, "DispatchRecv"))
    BY <1>1, <2>1, NothingPosted, RunConnects
  <2>3. /\ Pending("connect")' = Pending("connect")
        /\ Pending("read")' = Pending("read") /\ Pending("write")' = Pending("write")
    BY <2>2, PlainNumbers DEF RunsCount, One
  <2>4. QED
    BY <1>1, <2>1, <2>3, QuietLinks
<1>4. QED
  BY <1>2, <1>3

LEMMA DispatchRecvLinks == ASSUME IInv, FirstLink, DispatchRecv PROVE LinkStep
<1>1. /\ recvs' = recvs + 1 /\ sends' = sends /\ conn' = conn
      /\ Runs("DispatchRecv") /\ Post(<<>>)
      /\ IF recvs = 0 THEN AsyncTransfer("read") ELSE UNCHANGED net
  BY DEF DispatchRecv, amqp
<1>2. PICK n \in {0, 1} :
        /\ n = 1 <=> recvs = 0
        /\ RunsCount("DispatchRecv", 0, n, 0, CountIn(<<>>, "DispatchRecv"))
  BY <1>1, NothingPosted, RunTransfers
<1>3. /\ Pending("connect")' = Pending("connect")
      /\ Pending("read")' = Pending("read") + n /\ Pending("write")' = Pending("write")
  BY <1>2, PlainNumbers DEF RunsCount, One
<1>4. QED
  BY <1>1, <1>2, <1>3, PlainNumbers DEF LinkStep, FirstLink, ReadDead, WriteDead

LEMMA HandleRecvOkLinks == ASSUME IInv, FirstLink, HandleRecvOk PROVE LinkStep
<1>1. /\ recvs' = recvs - 1 /\ sends' = sends /\ conn' = conn
      /\ Runs("HandleRecv")
      /\ IF recvs > 1 THEN AsyncTransfer("read") ELSE UNCHANGED net
  BY DEF HandleRecvOk
<1>2. conn >= 1 /\ recvs >= 1 /\ Pending("read") = 1
  <2>1. Queued("HandleRecv") >= 1 /\ Spelt
    BY <1>1, RunQueued
  <2>2. Pending("read") = 1 /\ recvs >= 1
    BY <2>1, RunPending
  <2>3. QED
    BY <2>2, PlainNumbers DEF IInv, RecvBacklog
<1>3. PICK hs \in Seq(Said(conn)) : Post(hs)
  BY <1>2, ReceiveSays
<1>4. hs \in Seq(Posted(conn))
  BY DEF Said, Posted
<1>5. PICK n \in {0, 1} :
        /\ n = 1 <=> recvs > 1
        /\ RunsCount("HandleRecv", 0, n, 0, CountIn(hs, "DispatchRecv"))
  BY <1>1, <1>3, <1>4, RunTransfers
<1>6. /\ Pending("connect")' = Pending("connect")
      /\ Pending("read")' = n /\ Pending("write")' = Pending("write")
  BY <1>2, <1>5, PlainNumbers DEF RunsCount, One
<1>7. recvs' > 0 => Pending("read")' # 0
  BY <1>1, <1>2, <1>5, <1>6, PlainNumbers
<1>8. QED
  BY <1>1, <1>2, <1>6, <1>7 DEF LinkStep, FirstLink, ReadDead, WriteDead

\* A failed receive: reads are dead.
LEMMA HandleRecvErrLinks == ASSUME IInv, HandleRecvErr PROVE LinkStep /\ ReadDead'
<1>1. /\ recvs' = recvs /\ sends' = sends /\ conn' = conn
      /\ Runs("HandleRecv") /\ Post(<<Call("StartCloseSocket")>>) /\ AsyncConnect
  BY DEF HandleRecvErr, FailAndReconnect, amqp
<1>2. RunsCount("HandleRecv", 1, 0, 0, CountIn(<<Call("StartCloseSocket")>>, "DispatchRecv"))
  BY <1>1, ClosePosted, RunConnects
<1>3. /\ Pending("read")' = 0 /\ recvs >= 1 /\ Pending("write")' = Pending("write")
  BY <1>2, PlainNumbers DEF RunsCount, One
<1>4. QED
  BY <1>1, <1>3, PlainNumbers DEF LinkStep, FirstLink, ReadDead, WriteDead

\* A failed write: writes are dead.
LEMMA HandleWriteErrLinks == ASSUME IInv, HandleWriteErr PROVE LinkStep
<1>1. /\ recvs' = recvs /\ sends' = sends /\ conn' = conn
      /\ Runs("HandleWrite") /\ Post(<<Call("StartCloseSocket")>>) /\ AsyncConnect
  BY DEF HandleWriteErr, FailAndReconnect, amqp
<1>2. RunsCount("HandleWrite", 1, 0, 0, CountIn(<<Call("StartCloseSocket")>>, "DispatchRecv"))
  BY <1>1, ClosePosted, RunConnects
<1>3. Pending("write")' = 0 /\ sends # <<>> /\ Pending("read")' = Pending("read")
  BY <1>2, PlainNumbers DEF RunsCount, One
<1>4. QED
  BY <1>1, <1>3, PlainNumbers DEF LinkStep, FirstLink, ReadDead, WriteDead

LEMMA SendMsgLinks == ASSUME IInv, FirstLink, SendMsg PROVE LinkStep
<1>1. /\ recvs' = recvs /\ sends' = Append(sends, Head(strand).frame) /\ conn' = conn
      /\ Runs("SendMsg") /\ Post(<<>>)
      /\ IF sends = <<>> THEN AsyncTransfer("write") ELSE UNCHANGED net
  BY DEF SendMsg, amqp
<1>2. PICK n \in {0, 1} :
        /\ n = 1 <=> sends = <<>>
        /\ RunsCount("SendMsg", 0, 0, n, CountIn(<<>>, "DispatchRecv"))
  BY <1>1, NothingPosted, RunTransfers
<1>3. /\ Pending("connect")' = Pending("connect")
      /\ Pending("read")' = Pending("read") /\ Pending("write")' = Pending("write") + n
  BY <1>2, PlainNumbers DEF RunsCount, One
<1>4. sends' # <<>>
  <2>1. Head(strand).frame \in Frame
    BY <1>1, HeadIsHandler DEF Handler, IInv
  <2>2. QED
    BY <1>1, <2>1, AppendProperties DEF IInv, TypeOK
<1>5. WriteDead => WriteDead'
  BY <1>2, <1>3, <1>4, PlainNumbers DEF WriteDead
<1>6. QED
  BY <1>1, <1>3, <1>5 DEF LinkStep, FirstLink, ReadDead

LEMMA HandleWriteOkLinks == ASSUME IInv, FirstLink, HandleWriteOk PROVE LinkStep
<1>1. /\ recvs' = recvs /\ conn' = conn /\ Runs("HandleWrite") /\ Post(<<>>)
      /\ IF Tail(sends) # <<>> THEN AsyncTransfer("write") ELSE UNCHANGED net
  BY DEF HandleWriteOk, amqp
<1>2. PICK n \in {0, 1} :
        RunsCount("HandleWrite", 0, 0, n, CountIn(<<>>, "DispatchRecv"))
  BY <1>1, NothingPosted, RunTransfers
<1>3. /\ Pending("connect")' = Pending("connect")
      /\ Pending("read")' = Pending("read") /\ Pending("write") = 1
  BY <1>2, PlainNumbers DEF RunsCount, One
<1>4. QED
  BY <1>1, <1>3 DEF LinkStep, FirstLink, ReadDead, WriteDead

LEMMA StartCloseSocketLinks == ASSUME IInv, FirstLink, StartCloseSocket PROVE LinkStep
<1>1. /\ recvs' = recvs /\ sends' = sends /\ conn' = conn
      /\ Runs("StartCloseSocket") /\ Post(<<>>)
  BY DEF StartCloseSocket, amqp
<1>2. /\ live' \in [Kind -> Nat] /\ doomed' \in [Kind -> Nat]
      /\ \A k \in Kind : live'[k] + doomed'[k] = live[k] + doomed[k]
  <2>0. live \in [Kind -> Nat] /\ doomed \in [Kind -> Nat]
    BY DEF TypeOK, IInv
  <2>1. CASE started
    BY <2>1, <2>0 DEF StartCloseSocket, CloseAborts
  <2>2. CASE ~started
    BY <2>2, <2>0 DEF StartCloseSocket, net
  <2>3. QED
    BY <2>1, <2>2
<1>3. RunsCount("StartCloseSocket", 0, 0, 0, CountIn(<<>>, "DispatchRecv"))
  BY <1>1, <1>2, NothingPosted, RunStarts
<1>4. /\ Pending("connect")' = Pending("connect")
      /\ Pending("read")' = Pending("read") /\ Pending("write")' = Pending("write")
  BY <1>3, PlainNumbers DEF RunsCount, One
<1>5. QED
  BY <1>1, <1>4, QuietLinks

\* The dead stay dead, and until then there is one connection.
LEMMA LinkSteps == IInv /\ FirstLink /\ [Next]_vars => LinkStep
<1> SUFFICES ASSUME IInv, FirstLink, [Next]_vars PROVE LinkStep
  OBVIOUS
<1>1. CASE Worker
  BY <1>1, OnConnectLinks, DispatchRecvLinks, HandleRecvOkLinks, HandleRecvErrLinks,
     SendMsgLinks, HandleWriteOkLinks, HandleWriteErrLinks, StartCloseSocketLinks DEF Worker
<1>2. CASE Reactor \/ LinkDown \/ User \/ UNCHANGED vars
  BY <1>2, ElsewhereCounts, QuietLinks
<1>3. QED
  BY <1>1, <1>2 DEF Next, Stopped

-----------------------------------------------------------------------------
(* What joins the strand, and whose frames it holds *)

\* Handlers whose frame, if they have one, is of a connection up to c.
Owned(c) == {x \in Handler : x.h = "SendMsg" => x.frame.conn \in 1..c}
OwnFrame(c) == {f \in Frame : f.conn \in 1..c}

\* Every frame is of an AMQP connection that has been made.
FramesOwned ==
    /\ usr \in 0..conn
    /\ strand \in Seq(Owned(conn))
    /\ sends \in Seq(OwnFrame(conn)) /\ wire \in Seq(OwnFrame(conn))

\* The strand of a worker's step, and what it leaves alone.
LEMMA WorkerStrand ==
    ASSUME IInv, Worker
    PROVE  /\ strand # <<>> /\ wire' = wire /\ usr' = usr
           /\ conn \in Nat /\ conn' \in Nat /\ conn <= conn'
           /\ ~(Runs("OnConnect") /\ Head(strand).ok) => conn' = conn
           /\ \E hs \in Seq(Posted(conn')) : strand' = Tail(strand) \o hs
<1>0. conn \in Nat
  BY PlainNumbers
<1>1. CASE OnConnect /\ Head(strand).ok /\ sock # "closed"
  <2>1. PICK hs \in Seq(Posted(conn + 1)) : Post(hs)
    BY <1>1, ConnectSays
  <2>2. conn' = conn + 1 /\ wire' = wire /\ usr' = usr /\ Runs("OnConnect")
    BY <1>1 DEF OnConnect, peer, user
  <2>3. strand # <<>> /\ strand' = Tail(strand) \o hs
    BY <2>1, <2>2, Zenon DEF Runs, Post
  <2>4. conn' \in Nat /\ conn <= conn'
    BY <1>0, <2>2
  <2>5. \E s \in Seq(Posted(conn')) : strand' = Tail(strand) \o s
    BY <2>1, <2>2, <2>3, Zenon
  <2>6. QED
    BY <1>0, <1>1, <2>2, <2>3, <2>4, <2>5, Zenon
<1>2. CASE OnConnect /\ ~(Head(strand).ok /\ sock # "closed")
  <2>1. /\ conn' = conn /\ wire' = wire /\ usr' = usr /\ Runs("OnConnect") /\ Post(<<>>)
    BY <1>2 DEF OnConnect, peer, user
  <2>2. <<>> \in Seq(Posted(conn))
    BY NothingPosted
  <2>3. strand # <<>> /\ strand' = Tail(strand) \o <<>>
    BY <2>1 DEF Runs, Post
  <2>4. \E hs \in Seq(Posted(conn')) : strand' = Tail(strand) \o hs
    <3>1. conn' = conn
      BY <2>1
    <3>2. QED
      BY <2>2, <2>3, <3>1, Zenon
  <2>5. QED
    BY <1>0, <2>1, <2>3, <2>4
<1>3. CASE HandleRecvOk
  <2>1. conn' = conn /\ wire' = wire /\ usr' = usr /\ Runs("HandleRecv")
    BY <1>3 DEF HandleRecvOk, peer, user
  <2>2. conn >= 1
    <3>1. Queued("HandleRecv") >= 1 /\ Spelt
      BY <2>1, RunQueued
    <3>2. recvs >= 1
      BY <3>1, RunPending
    <3>3. QED
      BY <3>2, PlainNumbers DEF IInv, RecvBacklog
  <2>3. PICK hs \in Seq(Said(conn)) : Post(hs)
    BY <1>3, <2>2, ReceiveSays
  <2>4. hs \in Seq(Posted(conn))
    BY DEF Said, Posted
  <2>5. QED
    BY <1>0, <2>1, <2>3, <2>4 DEF Runs, Post
<1>4. CASE HandleRecvErr \/ HandleWriteErr
  <2>1. /\ conn' = conn /\ wire' = wire /\ usr' = usr /\ Post(<<Call("StartCloseSocket")>>)
        /\ Runs("HandleRecv") \/ Runs("HandleWrite")
    BY <1>4 DEF HandleRecvErr, HandleWriteErr, FailAndReconnect, peer, user, amqp
  <2>2. <<Call("StartCloseSocket")>> \in Seq(Posted(conn))
    BY ClosePosted
  <2>3. strand # <<>> /\ strand' = Tail(strand) \o <<Call("StartCloseSocket")>>
    BY <2>1 DEF Runs, Post
  <2>4. \E hs \in Seq(Posted(conn')) : strand' = Tail(strand) \o hs
    <3>1. conn' = conn
      BY <2>1
    <3>2. QED
      BY <2>2, <2>3, <3>1, Zenon
  <2>5. QED
    BY <1>0, <2>1, <2>3, <2>4
<1>5. CASE DispatchRecv \/ SendMsg \/ HandleWriteOk \/ StartCloseSocket
  <2>1. /\ conn' = conn /\ wire' = wire /\ usr' = usr /\ Post(<<>>) /\ strand # <<>>
    BY <1>5 DEF DispatchRecv, SendMsg, HandleWriteOk, StartCloseSocket, peer, user, amqp, Runs
  <2>2. <<>> \in Seq(Posted(conn))
    BY NothingPosted
  <2>3. strand' = Tail(strand) \o <<>>
    BY <2>1 DEF Post
  <2>4. \E hs \in Seq(Posted(conn')) : strand' = Tail(strand) \o hs
    <3>1. conn' = conn
      BY <2>1
    <3>2. QED
      BY <2>2, <2>3, <3>1, Zenon
  <2>5. QED
    BY <1>0, <2>1, <2>3, <2>4
<1>6. QED
  BY <1>1, <1>2, <1>3, <1>4, <1>5 DEF Worker

\* A handler that brings no news of a connection.
Quiet(x) == x.h \in {"SendMsg", "StartCloseSocket"} \/ ~x.ok

\* What joins the strand from outside the worker, and what the wire becomes.
Joins(x) ==
    /\ strand' = Append(strand, x)
    /\ \/ ConnectOk /\ x.h = "OnConnect" /\ wire' = <<>>
       \/ ReadOk /\ x = Completed("HandleRecv", TRUE, wire[1].conn) /\ wire' = wire /\ wire # <<>>
       \/ WriteOk /\ x.h = "HandleWrite" /\ wire' \in {wire, Append(wire, Head(sends))}
       \/ Quiet(x) /\ wire' = wire

LEMMA ElsewhereStrand ==
    ASSUME IInv, usr \in 0..conn, Reactor \/ LinkDown \/ User \/ UNCHANGED vars
    PROVE  (strand' = strand /\ wire' = wire) \/ \E x \in Owned(conn) : Joins(x)
<1>1. ASSUME NEW k \in Kind, NEW ok \in BOOLEAN, NEW c \in Nat
      PROVE  /\ Completed(HandlerOf[k], ok, c) \in Owned(conn)
             /\ Completed(HandlerOf[k], ok, c).h = HandlerOf[k]
             /\ Completed(HandlerOf[k], ok, c).ok = ok
  <2>1. HandlerOf[k] \in {"OnConnect", "HandleRecv", "HandleWrite"}
    BY DEF Kind, HandlerOf
  <2>2. /\ Completed(HandlerOf[k], ok, c) \in Handler
        /\ Completed(HandlerOf[k], ok, c).h = HandlerOf[k]
    BY <2>1, HandlerShape
  <2>3. Completed(HandlerOf[k], ok, c).ok = ok
    BY DEF Completed
  <2>4. QED
    BY <2>1, <2>2, <2>3 DEF Owned
<1>2. ASSUME NEW k \in Kind, Complete(k, FALSE, 0), wire' = wire
      PROVE  \E x \in Owned(conn) : Joins(x)
  <2> DEFINE x == Completed(HandlerOf[k], FALSE, 0)
  <2>1. x \in Owned(conn) /\ ~x.ok
    BY <1>1
  <2>2. strand' = Append(strand, x)
    BY <1>2 DEF Complete
  <2> HIDE DEF x
  <2>3. Joins(x)
    BY <1>2, <2>1, <2>2 DEF Joins, Quiet
  <2>4. QED
    BY <2>1, <2>3
<1>3. CASE (\E k \in Kind : ReportError(k)) \/ ConnectErr \/ (\E k \in {"read", "write"} : TransferErr(k))
  <2>1. \E k \in Kind : Complete(k, FALSE, 0) /\ wire' = wire
    BY <1>3 DEF ReportError, ConnectErr, TransferErr, Finished, peer, Kind
  <2>2. QED
    BY <1>2, <2>1
<1>4. CASE ConnectOk
  <2> DEFINE x == Completed("OnConnect", TRUE, 0)
  <2>1. x \in Owned(conn) /\ x.h = "OnConnect"
    BY <1>1 DEF Kind, HandlerOf
  <2>2. strand' = Append(strand, x) /\ wire' = <<>>
    BY <1>4 DEF ConnectOk, Finished, Complete, HandlerOf
  <2> HIDE DEF x
  <2>3. Joins(x)
    BY <1>4, <2>1, <2>2 DEF Joins
  <2>4. QED
    BY <2>1, <2>3
<1>5. CASE ReadOk
  <2> DEFINE x == Completed("HandleRecv", TRUE, wire[1].conn)
  <2>1. wire # <<>> /\ wire' = wire /\ strand' = Append(strand, x)
    BY <1>5 DEF ReadOk, Finished, Complete, HandlerOf
  <2>2. x \in Owned(conn)
    BY <1>1, <2>1, PeerTypes DEF Kind, HandlerOf
  <2>3. Joins(x)
    BY <1>5, <2>1 DEF Joins
  <2>4. QED
    BY <2>2, <2>3
<1>6. CASE WriteOk
  <2> DEFINE x == Completed("HandleWrite", TRUE, 0)
  <2>1. x \in Owned(conn) /\ x.h = "HandleWrite"
    BY <1>1 DEF Kind, HandlerOf
  <2>2. strand' = Append(strand, x) /\ wire' \in {wire, Append(wire, Head(sends))}
    BY <1>6 DEF WriteOk, Finished, Complete, HandlerOf
  <2> HIDE DEF x
  <2>3. Joins(x)
    BY <1>6, <2>1, <2>2 DEF Joins
  <2>4. QED
    BY <2>1, <2>3
<1>7. CASE SendData
  <2> DEFINE f == [conn |-> usr, hdr |-> FALSE, n |-> posted + 1]
             x == SendCall(f)
  <2>1. f \in Frame /\ f.conn \in 1..conn
    BY <1>7 DEF IInv, TypeOK, Frame, SendData
  <2>2. x \in Handler /\ x.h = "SendMsg" /\ x.frame = f
    BY <2>1, HandlerShape DEF SendCall
  <2>3. strand' = Append(strand, x) /\ wire' = wire
    BY <1>7 DEF SendData, peer
  <2> HIDE DEF x, f
  <2>4. x \in Owned(conn) /\ Joins(x)
    BY <2>1, <2>2, <2>3 DEF Owned, Joins, Quiet
  <2>5. QED
    BY <2>4
<1>8. CASE FinitClose
  <2> DEFINE x == Call("StartCloseSocket")
  <2>1. x \in Handler /\ x.h = "StartCloseSocket"
    BY HandlerShape
  <2>2. strand' = Append(strand, x) /\ wire' = wire
    BY <1>8 DEF FinitClose, peer
  <2> HIDE DEF x
  <2>3. x \in Owned(conn) /\ Joins(x)
    BY <2>1, <2>2 DEF Owned, Joins, Quiet
  <2>4. QED
    BY <2>3
<1>9. CASE LinkDown \/ UNCHANGED vars \/ GetConnection \/ FinitStop
  BY <1>9 DEF LinkDown, vars, GetConnection, FinitStop, peer
<1>10. QED
  BY <1>3, <1>4, <1>5, <1>6, <1>7, <1>8, <1>9 DEF Reactor, User

\* An operation that completes was pending; a write has a frame to write.
LEMMA FinishedPending ==
    ASSUME IInv, NEW k \in Kind, NEW ok \in BOOLEAN, NEW c \in Nat, Finished(k, ok, c)
    PROVE  /\ k = "connect" => Pending("connect") >= 1
           /\ k = "read" => Pending("read") = 1 /\ Queued("HandleRecv") = 0 /\ recvs >= 1
           /\ k = "write" => Pending("write") = 1 /\ Queued("HandleWrite") = 0 /\ sends # <<>>
<1>1. live[k] \in Nat /\ live[k] >= 1
  BY IInvNumbers DEF Finished, Kind
<1>2. Spelt
  BY IInvNumbers, PendingIs DEF Spelt
<1>3. OneTransferEach /\ recvs \in Nat
  BY PlainNumbers DEF IInv
<1>4. k = "connect" => Pending("connect") >= 1
  BY <1>1, <1>2 DEF Spelt
<1>5. k = "read" => Pending("read") = 1 /\ Queued("HandleRecv") = 0 /\ recvs >= 1
  BY <1>1, <1>2, <1>3 DEF Spelt, OneTransferEach
<1>6. k = "write" => Pending("write") = 1 /\ Queued("HandleWrite") = 0 /\ sends # <<>>
  BY <1>1, <1>2, <1>3 DEF Spelt, OneTransferEach
<1>7. QED
  BY <1>4, <1>5, <1>6

\* What the connections up to c own, those up to d own.
LEMMA OwnedGrows ==
    ASSUME NEW c \in Nat, NEW d \in Nat, c <= d
    PROVE  /\ Seq(Owned(c)) \subseteq Seq(Owned(d)) /\ Seq(OwnFrame(c)) \subseteq Seq(OwnFrame(d))
           /\ Posted(c) \subseteq Owned(c)
<1>1. Owned(c) \subseteq Owned(d)
  BY DEF Owned
<1>2. OwnFrame(c) \subseteq OwnFrame(d)
  BY DEF OwnFrame
<1>3. Posted(c) \subseteq Owned(c)
  BY DEF Owned, Posted
<1>4. QED
  BY <1>1, <1>2, <1>3

LEMMA FramesOwnedStep == IInv /\ FramesOwned /\ [Next]_vars => FramesOwned'
<1> SUFFICES ASSUME IInv, FramesOwned, [Next]_vars PROVE FramesOwned'
  OBVIOUS
<1>0. /\ usr \in 0..conn /\ conn \in Nat /\ strand \in Seq(Owned(conn))
      /\ sends \in Seq(OwnFrame(conn)) /\ wire \in Seq(OwnFrame(conn))
  BY PlainNumbers DEF FramesOwned
<1>1. CASE Worker
  <2>1. /\ strand # <<>> /\ wire' = wire /\ usr' = usr
        /\ conn' \in Nat /\ conn <= conn'
    BY <1>1, WorkerStrand
  <2>2. PICK hs \in Seq(Posted(conn')) : strand' = Tail(strand) \o hs
    BY <1>1, WorkerStrand
  <2>3. strand' \in Seq(Owned(conn'))
    <3>1. Tail(strand) \in Seq(Owned(conn)) /\ Seq(Owned(conn)) \subseteq Seq(Owned(conn'))
      BY <1>0, <2>1, OwnedGrows
    <3>2. hs \in Seq(Owned(conn'))
      BY <2>1, OwnedGrows
    <3>3. QED
      BY <2>2, <3>1, <3>2
  <2>4. sends' \in Seq(OwnFrame(conn))
    <3>1. CASE SendMsg
      <4>1. Head(strand) \in Owned(conn) /\ Head(strand).h = "SendMsg"
        BY <1>0, <2>1, <3>1 DEF SendMsg, Runs
      <4>2. Head(strand).frame \in OwnFrame(conn)
        BY <4>1 DEF Owned, OwnFrame, Handler
      <4>3. QED
        BY <1>0, <3>1, <4>2 DEF SendMsg
    <3>2. CASE HandleWriteOk
      <4>1. Queued("HandleWrite") >= 1 /\ Spelt
        BY <3>2, RunQueued DEF HandleWriteOk
      <4>2. sends # <<>> /\ sends' = Tail(sends)
        BY <3>2, <4>1, RunPending DEF HandleWriteOk
      <4>3. QED
        BY <1>0, <4>2
    <3>3. CASE ~SendMsg /\ ~HandleWriteOk
      BY <1>0, <1>1, <3>3 DEF Worker, OnConnect, DispatchRecv, HandleRecvOk, HandleRecvErr,
            HandleWriteErr, StartCloseSocket
    <3>4. QED
      BY <3>1, <3>2, <3>3
  <2>5. sends' \in Seq(OwnFrame(conn')) /\ wire' \in Seq(OwnFrame(conn'))
    BY <1>0, <2>1, <2>4, OwnedGrows
  <2>6. usr' \in 0..conn'
    BY <1>0, <2>1
  <2>7. QED
    BY <2>3, <2>5, <2>6 DEF FramesOwned
<1>2. CASE Reactor \/ LinkDown \/ User \/ UNCHANGED vars
  <2>1. conn' = conn /\ sends' = sends
    BY <1>2, ElsewhereCounts
  <2>2. usr' \in 0..conn
    <3>1. usr' \in {usr, conn}
      BY <1>2 DEF Reactor, ReportError, ConnectOk, ConnectErr, ReadOk, WriteOk, TransferErr, Finished,
         LinkDown, User, GetConnection, SendData, FinitClose, FinitStop, vars, user
    <3>2. QED
      BY <1>0, <3>1
  <2>3. CASE strand' = strand /\ wire' = wire
    BY <1>0, <2>1, <2>2, <2>3 DEF FramesOwned
  <2>4. CASE \E x \in Owned(conn) : Joins(x)
    <3>1. PICK x \in Owned(conn) : Joins(x)
      BY <2>4
    <3>2. strand' \in Seq(Owned(conn))
      BY <1>0, <3>1 DEF Joins
    <3>3. wire' \in Seq(OwnFrame(conn))
      <4>0. CASE wire' = wire
        BY <1>0, <4>0
      <4>1. CASE wire' = <<>>
        <5>1. <<>> \in Seq(OwnFrame(conn))
          OBVIOUS
        <5>2. QED
          BY <4>1, <5>1
      <4>2. CASE WriteOk /\ wire' = Append(wire, Head(sends))
        <5>1. sends # <<>>
          BY <4>2, FinishedPending DEF WriteOk, Kind
        <5>2. Head(sends) \in OwnFrame(conn)
          BY <1>0, <5>1
        <5>3. QED
          BY <1>0, <4>2, <5>2
      <4>3. QED
        BY <3>1, <4>0, <4>1, <4>2 DEF Joins
    <3>4. QED
      BY <2>1, <2>2, <3>2, <3>3, <1>0 DEF FramesOwned
  <2>5. QED
    BY <1>0, <1>2, <2>3, <2>4, ElsewhereStrand
<1>3. QED
  BY <1>1, <1>2 DEF Next, Stopped

-----------------------------------------------------------------------------
(* Whose bytes are read *)

\* OnConnect, about to make a new AMQP connection.
Connected(x) == x.h = "OnConnect" /\ x.ok
NoneConnected(s) == \A i \in DOMAIN s : ~Connected(s[i])

\* Until reads are dead, nothing but the first connection is ever written to,
\* and no new one is about to be made.
WireOfFirst == ReadDead \/ wire = <<>> \/ (conn = 1 /\ NoneConnected(strand))

\* Bytes that have been read are for the connection c, and are handed to it
\* before a new one is made.
Fresh(s, c) ==
    \A i \in DOMAIN s : s[i].h = "HandleRecv" /\ s[i].ok =>
        s[i].conn = c /\ \A j \in 1..(i - 1) : ~Connected(s[j])

ReadOfFirst == ReadDead \/ Fresh(strand, conn)

\* No OnConnect is queued while no connect is pending.
LEMMA NoConnectPending ==
    ASSUME IInv, Pending("connect") = 0
    PROVE  NoneConnected(strand)
<1>1. strand \in Seq(Handler)
  BY DEF IInv, TypeOK
<1>2. Queued("OnConnect") = 0
  BY IInvNumbers, PendingIs
<1>3. IsFiniteSet({i \in DOMAIN strand : strand[i].h = "OnConnect"})
  BY <1>1, CountType
<1>4. {i \in DOMAIN strand : strand[i].h = "OnConnect"} = {}
  BY <1>2, <1>3, FS_EmptySet DEF Queued, CountIn
<1>5. QED
  BY <1>4 DEF NoneConnected, Connected

\* A handler leaves, others join that bring no news.
LEMMA NoneConnectedRun ==
    ASSUME NEW s \in Seq(Handler), s # <<>>, NoneConnected(s), NEW c, NEW hs \in Seq(Posted(c))
    PROVE  NoneConnected(Tail(s) \o hs)
<1>1. \A i \in DOMAIN hs : hs[i] \in Posted(c)
  OBVIOUS
<1>2. \A i \in DOMAIN hs : ~Connected(hs[i])
  BY <1>1 DEF Posted, Connected
<1>3. \A i \in DOMAIN Tail(s) : Tail(s)[i] = s[i + 1] /\ i + 1 \in DOMAIN s
  OBVIOUS
<1>4. \A i \in DOMAIN Tail(s) : ~Connected(Tail(s)[i])
  BY <1>3 DEF NoneConnected
<1> DEFINE t == Tail(s)
<1>5. t \in Seq(Handler) /\ hs \in Seq(Handler)
  BY DEF Posted
<1> HIDE DEF t
<1>6. ASSUME NEW i \in DOMAIN (t \o hs)
      PROVE  \/ i \in DOMAIN t /\ (t \o hs)[i] = t[i]
             \/ i - Len(t) \in DOMAIN hs /\ (t \o hs)[i] = hs[i - Len(t)]
  BY <1>5
<1>7. QED
  BY <1>2, <1>4, <1>6 DEF NoneConnected, t

LEMMA NoneConnectedAppend ==
    ASSUME NEW s \in Seq(Handler), NoneConnected(s), NEW x \in Handler, ~Connected(x)
    PROVE  NoneConnected(Append(s, x))
<1>1. \A i \in DOMAIN Append(s, x) : (i \in DOMAIN s /\ Append(s, x)[i] = s[i]) \/ Append(s, x)[i] = x
  OBVIOUS
<1>2. QED
  BY <1>1 DEF NoneConnected

LEMMA FreshRun ==
    ASSUME NEW s \in Seq(Handler), s # <<>>, NEW c, NEW d, Fresh(s, c),
           c = d \/ Connected(Head(s)), NEW p, NEW hs \in Seq(Posted(p))
    PROVE  Fresh(Tail(s) \o hs, d)
<1> DEFINE t == Tail(s)
           u == t \o hs
<1>1. \A i \in DOMAIN hs : hs[i] \in Posted(p)
  OBVIOUS
<1>2. \A i \in DOMAIN hs : hs[i].h # "HandleRecv"
  BY <1>1 DEF Posted
<1>3. t \in Seq(Handler) /\ hs \in Seq(Handler) /\ Len(t) = Len(s) - 1 /\ Len(s) \in Nat
  BY DEF Posted
<1>4. \A i \in 1..Len(t) : t[i] = s[i + 1] /\ i + 1 \in DOMAIN s
  OBVIOUS
<1>5. Head(s) = s[1]
  OBVIOUS
<1> HIDE DEF t
<1>6. ASSUME NEW i \in DOMAIN u
      PROVE  \/ i \in 1..Len(t) /\ u[i] = t[i]
             \/ i - Len(t) \in DOMAIN hs /\ u[i] = hs[i - Len(t)]
  BY <1>3
<1>7. \A i \in 1..Len(t) : u[i] = t[i]
  BY <1>3
<1> HIDE DEF u
<1> SUFFICES ASSUME NEW i \in DOMAIN u, u[i].h = "HandleRecv", u[i].ok
             PROVE  u[i].conn = d /\ \A j \in 1..(i - 1) : ~Connected(u[j])
  BY DEF Fresh, u, t
<1>8. i \in 1..Len(t) /\ u[i] = s[i + 1] /\ i + 1 \in DOMAIN s
  BY <1>2, <1>4, <1>6
<1>9. s[i + 1].conn = c /\ \A j \in 1..(i + 1 - 1) : ~Connected(s[j])
  BY <1>8 DEF Fresh
<1>10. ~Connected(s[1])
  BY <1>8, <1>9
<1>11. c = d
  BY <1>5, <1>10
<1>12. ASSUME NEW j \in 1..(i - 1) PROVE ~Connected(u[j])
  <2>1. j \in 1..Len(t) /\ j + 1 \in 1..(i + 1 - 1)
    BY <1>3, <1>8
  <2>2. u[j] = s[j + 1]
    BY <1>4, <1>7, <2>1
  <2>3. QED
    BY <1>9, <2>1, <2>2
<1>13. QED
  BY <1>8, <1>9, <1>11, <1>12

LEMMA FreshAppend ==
    ASSUME NEW s \in Seq(Handler), NEW c, Fresh(s, c), NEW x \in Handler,
           x.h = "HandleRecv" /\ x.ok => x.conn = c /\ NoneConnected(s)
    PROVE  Fresh(Append(s, x), c)
<1> DEFINE u == Append(s, x)
<1>1. /\ Len(s) \in Nat /\ DOMAIN s = 1..Len(s) /\ DOMAIN u = 1..(Len(s) + 1)
      /\ \A i \in 1..Len(s) : u[i] = s[i]
      /\ u[Len(s) + 1] = x
  OBVIOUS
<1> HIDE DEF u
<1> SUFFICES ASSUME NEW i \in DOMAIN u, u[i].h = "HandleRecv", u[i].ok
             PROVE  u[i].conn = c /\ \A j \in 1..(i - 1) : ~Connected(u[j])
  BY DEF Fresh, u
<1>2. CASE i \in 1..Len(s)
  <2>1. s[i].conn = c /\ \A j \in 1..(i - 1) : ~Connected(s[j])
    BY <1>1, <1>2 DEF Fresh
  <2>2. \A j \in 1..(i - 1) : u[j] = s[j]
    BY <1>1, <1>2
  <2>3. QED
    BY <1>1, <1>2, <2>1, <2>2
<1>3. CASE i = Len(s) + 1
  <2>1. u[i] = x /\ x.conn = c /\ NoneConnected(s)
    BY <1>1, <1>3
  <2>2. \A j \in 1..(i - 1) : u[j] = s[j] /\ j \in DOMAIN s
    BY <1>1, <1>3
  <2>3. QED
    BY <2>1, <2>2 DEF NoneConnected
<1>4. QED
  BY <1>1, <1>2, <1>3

\* What the reads rest on.
Links == FramesOwned /\ FirstLink /\ WireOfFirst /\ ReadOfFirst

LEMMA WireOfFirstStep == IInv /\ Links /\ [Next]_vars => WireOfFirst'
<1> SUFFICES ASSUME IInv, Links, [Next]_vars PROVE WireOfFirst'
  OBVIOUS
<1>0. FramesOwned /\ FirstLink /\ WireOfFirst /\ strand \in Seq(Handler)
  BY DEF Links, IInv, TypeOK
<1>1. CASE ReadDead
  BY <1>0, <1>1, LinkSteps DEF LinkStep, WireOfFirst
<1>2. CASE ~ReadDead /\ wire' # wire /\ wire' # <<>>
  <2>1. WriteOk /\ strand' = Append(strand, Completed("HandleWrite", TRUE, 0))
    <3>1. ~Worker
      BY <1>2, WorkerStrand
    <3>2. PICK x \in Owned(conn) : Joins(x)
      BY <1>0, <1>2, <3>1, ElsewhereStrand DEF Next, Stopped, FramesOwned
    <3>3. WriteOk
      BY <1>2, <3>2 DEF Joins
    <3>4. QED
      BY <3>3 DEF WriteOk, Finished, Complete, HandlerOf
  <2>2. sends # <<>> /\ Pending("write") = 1
    BY <2>1, FinishedPending DEF WriteOk, Kind
  <2>3. Head(sends).conn \in 1..conn
    BY <1>0, <2>2 DEF FramesOwned, OwnFrame
  <2>4. conn = 1 /\ Pending("connect") = 0
    BY <1>0, <1>2, <2>2, <2>3, PlainNumbers DEF FirstLink, WriteDead
  <2>5. NoneConnected(strand)
    BY <2>4, NoConnectPending
  <2>6. Completed("HandleWrite", TRUE, 0) \in Handler /\ ~Connected(Completed("HandleWrite", TRUE, 0))
    BY HandlerShape DEF Connected
  <2>7. NoneConnected(strand')
    BY <1>0, <2>1, <2>5, <2>6, NoneConnectedAppend
  <2>8. conn' = conn
    BY <2>1 DEF WriteOk, Finished, amqp
  <2>9. QED
    BY <2>4, <2>7, <2>8 DEF WireOfFirst
<1>3. CASE ~ReadDead /\ wire' = wire /\ wire # <<>>
  <2>1. conn = 1 /\ NoneConnected(strand)
    BY <1>0, <1>3 DEF WireOfFirst
  <2>2. CASE Worker
    <3>1. ~Connected(Head(strand)) /\ strand # <<>>
      BY <1>0, <2>1, <2>2, WorkerStrand DEF NoneConnected
    <3>2. conn' = conn
      BY <2>2, <3>1, WorkerStrand DEF Runs, Connected
    <3>3. PICK hs \in Seq(Posted(conn')) : strand' = Tail(strand) \o hs
      BY <2>2, WorkerStrand
    <3>4. NoneConnected(Tail(strand) \o hs)
      BY <1>0, <2>1, <3>1, NoneConnectedRun
    <3>5. QED
      BY <2>1, <3>2, <3>3, <3>4 DEF WireOfFirst
  <2>3. CASE Reactor \/ LinkDown \/ User \/ UNCHANGED vars
    <3>1. conn' = conn
      BY <2>3, ElsewhereCounts
    <3>2. CASE strand' = strand
      BY <2>1, <3>1, <3>2 DEF WireOfFirst
    <3>3. CASE \E x \in Owned(conn) : Joins(x)
      <4>1. PICK x \in Owned(conn) : Joins(x)
        BY <3>3
      <4>2. x \in Handler /\ strand' = Append(strand, x)
        BY <4>1 DEF Joins, Owned
      <4>3. ~Connected(x)
        <5>1. Completed("HandleRecv", TRUE, wire[1].conn).h = "HandleRecv"
          BY DEF Completed
        <5>2. QED
          BY <1>3, <4>1, <5>1 DEF Joins, Connected, Quiet
      <4>4. QED
        BY <1>0, <2>1, <3>1, <4>2, <4>3, NoneConnectedAppend DEF WireOfFirst
    <3>4. QED
      BY <1>0, <2>3, <3>2, <3>3, ElsewhereStrand DEF FramesOwned
  <2>4. QED
    BY <2>2, <2>3 DEF Next, Stopped
<1>4. CASE wire' = <<>>
  BY <1>4 DEF WireOfFirst
<1>5. QED
  BY <1>1, <1>2, <1>3, <1>4

LEMMA ReadOfFirstStep == IInv /\ Links /\ [Next]_vars => ReadOfFirst'
<1> SUFFICES ASSUME IInv, Links, [Next]_vars PROVE ReadOfFirst'
  OBVIOUS
<1>0. /\ FramesOwned /\ FirstLink /\ WireOfFirst /\ ReadOfFirst
      /\ strand \in Seq(Handler) /\ wire \in Seq(OwnFrame(conn))
  BY DEF Links, IInv, TypeOK, FramesOwned
<1>1. CASE ReadDead
  BY <1>0, <1>1, LinkSteps DEF LinkStep, ReadOfFirst
<1>2. CASE ~ReadDead /\ Worker
  <2>1. Fresh(strand, conn) /\ strand # <<>>
    BY <1>0, <1>2, WorkerStrand DEF ReadOfFirst
  <2>2. conn = conn' \/ Connected(Head(strand))
    BY <1>2, WorkerStrand DEF Runs, Connected
  <2>3. PICK hs \in Seq(Posted(conn')) : strand' = Tail(strand) \o hs
    BY <1>2, WorkerStrand
  <2>4. Fresh(Tail(strand) \o hs, conn')
    BY <1>0, <2>1, <2>2, FreshRun
  <2>5. QED
    BY <2>3, <2>4 DEF ReadOfFirst
<1>3. CASE ~ReadDead /\ (Reactor \/ LinkDown \/ User \/ UNCHANGED vars)
  <2>1. conn' = conn /\ Fresh(strand, conn)
    BY <1>0, <1>3, ElsewhereCounts DEF ReadOfFirst
  <2>2. CASE strand' = strand
    BY <2>1, <2>2 DEF ReadOfFirst
  <2>3. CASE \E x \in Owned(conn) : Joins(x)
    <3>1. PICK x \in Owned(conn) : Joins(x)
      BY <2>3
    <3>2. x \in Handler /\ strand' = Append(strand, x)
      BY <3>1 DEF Joins, Owned
    <3>3. ASSUME x.h = "HandleRecv" /\ x.ok
          PROVE  x.conn = conn /\ NoneConnected(strand)
      <4>1. wire # <<>> /\ x = Completed("HandleRecv", TRUE, wire[1].conn)
        BY <3>1, <3>3 DEF Joins, Quiet
      <4>2. conn = 1 /\ NoneConnected(strand)
        BY <1>0, <1>3, <4>1 DEF WireOfFirst
      <4>3. wire[1].conn \in 1..1
        BY <1>0, <4>1, <4>2 DEF OwnFrame
      <4>4. QED
        BY <4>1, <4>2, <4>3 DEF Completed
    <3>4. Fresh(Append(strand, x), conn)
      BY <1>0, <2>1, <3>2, <3>3, FreshAppend
    <3>5. QED
      BY <2>1, <3>2, <3>4 DEF ReadOfFirst
  <2>4. QED
    BY <1>0, <1>3, <2>2, <2>3, ElsewhereStrand DEF FramesOwned
<1>4. QED
  BY <1>1, <1>2, <1>3 DEF Next, Stopped

LEMMA LinksInit == Init => Links
<1> SUFFICES ASSUME Init PROVE Links
  OBVIOUS
<1>1. IInv
  BY InitIInv
<1>2. /\ conn = 0 /\ usr = 0 /\ strand = <<>> /\ sends = <<>> /\ wire = <<>>
      /\ live["connect"] = 1 /\ doomed["connect"] = 0
  BY DEF Init, Kind
<1>3. FramesOwned
  BY <1>2 DEF FramesOwned
<1>4. Pending("connect") = 1
  <2>1. Queued("OnConnect") = 0
    BY <1>2, CountNone DEF Queued
  <2>2. QED
    BY <1>2, <2>1, PendingIs
<1>5. FirstLink /\ WireOfFirst /\ ReadOfFirst
  BY <1>2, <1>4 DEF FirstLink, WireOfFirst, ReadOfFirst, Fresh
<1>6. QED
  BY <1>3, <1>5 DEF Links

LEMMA LinksStep == IInv /\ Links /\ [Next]_vars => Links'
BY FramesOwnedStep, LinkSteps, WireOfFirstStep, ReadOfFirstStep DEF Links, LinkStep

\* Every frame is of a connection that was made, and until reads are dead all
\* that has been read is for m_pConnect.
THEOREM LinksHold == Spec => []Links
BY LinksInit, LinksStep, Invariance, PTL DEF Spec

\* ParseAmqpData never gives m_pConnect bytes meant for the connection it
\* replaced.
THEOREM OwnBytesOnly == Spec => ParsesOwnBytes
<1>1. IInv /\ Links /\ [Next]_vars => [HandleRecvOk => Head(strand).conn = conn]_vars
  <2> SUFFICES ASSUME IInv, Links, HandleRecvOk PROVE Head(strand).conn = conn
    OBVIOUS
  <2>1. Runs("HandleRecv") /\ Head(strand).ok
    BY DEF HandleRecvOk
  <2>2. Queued("HandleRecv") >= 1 /\ Spelt
    BY <2>1, RunQueued
  <2>3. ~ReadDead
    BY <2>2, RunPending DEF ReadDead
  <2>4. Fresh(strand, conn)
    BY <2>3 DEF Links, ReadOfFirst
  <2>5. strand \in Seq(Handler) /\ strand # <<>> /\ Head(strand).h = "HandleRecv"
    BY <2>1 DEF IInv, TypeOK, Runs
  <2>6. 1 \in DOMAIN strand /\ Head(strand) = strand[1]
    BY <2>5
  <2>7. QED
    BY <2>1, <2>4, <2>5, <2>6 DEF Fresh
<1>2. QED
  BY <1>1, LinksHold, Invariance, PTL DEF Spec, ParsesOwnBytes

-----------------------------------------------------------------------------
(* Before the first fault *)

\* Handlers and frames of the first connection, but for its header and for
\* anything that went wrong.
PlainFrame == {f \in OwnFrame(1) : ~f.hdr}
Plain ==
    {x \in Owned(1) : /\ x.h \notin {"OnConnect", "StartCloseSocket"}
                      /\ x.h = "SendMsg" => ~x.frame.hdr
                      /\ x.h \in {"HandleRecv", "HandleWrite"} => x.ok}

\* The frames behind the one that is being written.
Rest == IF Queued("HandleWrite") = 0 THEN sends ELSE Tail(sends)

\* The protocol header goes first: queued, next to be written, or sent.
HeaderQueued ==
    /\ wire = <<>> /\ sends = <<>>
    /\ strand # <<>> /\ Head(strand).h = "SendMsg" /\ Head(strand).frame.hdr
    /\ Tail(strand) \in Seq(Plain)
HeaderNext ==
    /\ wire = <<>> /\ sends # <<>> /\ Head(sends).hdr /\ Tail(sends) \in Seq(PlainFrame)
    /\ strand \in Seq(Plain) /\ Queued("HandleWrite") = 0
HeaderSent ==
    /\ wire # <<>> /\ Head(wire).hdr /\ Tail(wire) \in Seq(PlainFrame)
    /\ strand \in Seq(Plain) /\ Rest \in Seq(PlainFrame)

\* The first connect is under way; it has completed; its connection is up.
Dialling == conn = 0 /\ ~started /\ sock = "connecting" /\ live["connect"] = 1 /\ strand = <<>>
Dialled ==
    /\ conn = 0 /\ ~started /\ live["connect"] = 0
    /\ \E ok \in BOOLEAN : strand = <<Completed("OnConnect", ok, 0)>> /\ sock = IF ok THEN "up" ELSE "idle"
Up ==
    /\ conn = 1 /\ started /\ sock = "up"
    /\ Pending("connect") = 0 /\ Pending("read") + Queued("DispatchRecv") = 1
    /\ HeaderQueued \/ HeaderNext \/ HeaderSent

Calm == \A k \in Kind : doomed[k] = 0

\* Until the network drops a connection, or Finit is called, nothing fails but
\* connects.
Undisturbed == faults = 0 /\ phase = "running" => Calm /\ (Dialling \/ Dialled \/ Up)

\* A handler of the first connection that runs is no failure.
LEMMA PlainHead ==
    ASSUME IInv, Up
    PROVE  /\ strand # <<>> => /\ Head(strand).h \notin {"OnConnect", "StartCloseSocket"}
                               /\ Head(strand).h \in {"HandleRecv", "HandleWrite"} => Head(strand).ok
           /\ strand # <<>> => Tail(strand) \in Seq(Plain)
<1>1. CASE HeaderQueued
  BY <1>1 DEF HeaderQueued
<1>2. CASE strand \in Seq(Plain) /\ strand # <<>>
  <2>1. Head(strand) \in Plain /\ Tail(strand) \in Seq(Plain)
    BY <1>2
  <2>2. QED
    BY <2>1 DEF Plain
<1>3. QED
  BY <1>1, <1>2 DEF Up, HeaderNext, HeaderSent

\* A transfer on a socket that is up is under way.
LEMMA UpTransfers ==
    ASSUME sock = "up", NEW k, NEW go \in BOOLEAN, IF go THEN AsyncTransfer(k) ELSE UNCHANGED net
    PROVE  sock' = "up" /\ doomed' = doomed
<1>1. CASE go
  BY <1>1 DEF AsyncTransfer
<1>2. CASE ~go
  BY <1>2 DEF net
<1>3. QED
  BY <1>1, <1>2

\* What the handlers leave of the header's order, when they pop no frame: the
\* strand loses its front, and m_pending_sends may gain it.
LEMMA UpRuns ==
    ASSUME IInv, Up, strand # <<>>, NEW hs \in Seq(Said(1)), strand' = Tail(strand) \o hs,
           wire' = wire, Queued("HandleWrite")' = Queued("HandleWrite"),
           IF Head(strand).h = "SendMsg" THEN sends' = Append(sends, Head(strand).frame) ELSE sends' = sends
    PROVE  (HeaderQueued \/ HeaderNext \/ HeaderSent)'
<1>1. strand' \in Seq(Plain)
  <2>1. Said(1) \subseteq Plain
    BY DEF Said, Plain, Owned
  <2>2. hs \in Seq(Plain) /\ Tail(strand) \in Seq(Plain)
    BY <2>1, PlainHead
  <2>3. QED
    BY <2>2
<1>2. CASE HeaderQueued
  <2>1. wire' = <<>> /\ sends' = Append(<<>>, Head(strand).frame) /\ Head(strand).frame.hdr
    BY <1>2 DEF HeaderQueued
  <2>2. sends' # <<>> /\ Head(sends') = Head(strand).frame /\ Tail(sends') = <<>>
    BY <2>1
  <2>3. Queued("HandleWrite")' = 0
    <3>1. Queued("HandleWrite") = 0
      <4>1. Pending("write") = 0
        BY <1>2 DEF HeaderQueued, IInv, OneTransferEach
      <4>2. live["write"] \in Nat /\ doomed["write"] \in Nat
        BY AsioNumbers
      <4>3. Queued("HandleWrite") \in Nat
        BY IInvNumbers, Zenon
      <4>4. Pending("write") = live["write"] + doomed["write"] + Queued("HandleWrite")
        BY PendingIs, Zenon
      <4>5. QED
        BY <4>1, <4>2, <4>3, <4>4
    <3>2. QED
      BY <3>1
  <2>4. HeaderNext'
    BY <1>1, <2>1, <2>2, <2>3 DEF HeaderNext
  <2>5. QED
    BY <2>4
<1>3. ASSUME strand \in Seq(Plain), Head(strand).h = "SendMsg"
      PROVE  Head(strand).frame \in PlainFrame
  <2>1. Head(strand) \in Plain
    BY <1>3
  <2>2. QED
    BY <1>3, <2>1 DEF Plain, PlainFrame, Owned, OwnFrame, Handler
<1>4. CASE HeaderNext
  <2>1. sends # <<>> /\ Head(sends).hdr /\ Tail(sends) \in Seq(PlainFrame) /\ strand \in Seq(Plain)
    BY <1>4 DEF HeaderNext
  <2>2. sends \in Seq(Frame)
    BY DEF IInv, TypeOK
  <2>3. sends' # <<>> /\ Head(sends').hdr /\ Tail(sends') \in Seq(PlainFrame)
    <3>1. CASE Head(strand).h = "SendMsg"
      <4> DEFINE f == Head(strand).frame
      <4>1. f \in PlainFrame /\ f \in Frame /\ sends' = Append(sends, f)
        BY <1>3, <2>1, <3>1 DEF PlainFrame, OwnFrame
      <4> HIDE DEF f
      <4>2. sends' # <<>> /\ Head(sends') = Head(sends) /\ Tail(sends') = Append(Tail(sends), f)
        BY <2>1, <2>2, <4>1
      <4>3. QED
        BY <2>1, <4>1, <4>2
    <3>2. CASE Head(strand).h # "SendMsg"
      BY <2>1, <3>2
    <3>3. QED
      BY <3>1, <3>2
  <2>4. QED
    BY <1>1, <1>4, <2>3 DEF HeaderNext
<1>5. CASE HeaderSent
  <2>1. Rest \in Seq(PlainFrame) /\ strand \in Seq(Plain) /\ sends \in Seq(Frame)
    BY <1>5 DEF HeaderSent, IInv, TypeOK
  <2>2. Queued("HandleWrite") # 0 => sends # <<>>
    <3>1. Queued("HandleWrite") # 0 => Pending("write") # 0
      <4>1. live["write"] \in Nat /\ doomed["write"] \in Nat
        BY AsioNumbers
      <4>2. Queued("HandleWrite") \in Nat
        BY IInvNumbers, Zenon
      <4>3. Pending("write") = live["write"] + doomed["write"] + Queued("HandleWrite")
        BY PendingIs, Zenon
      <4>4. QED
        BY <4>1, <4>2, <4>3
    <3>2. QED
      BY <3>1 DEF IInv, OneTransferEach
  <2>3. Rest' \in Seq(PlainFrame)
    <3>1. CASE Head(strand).h = "SendMsg"
      <4> DEFINE f == Head(strand).frame
      <4>1. f \in PlainFrame /\ f \in Frame /\ sends' = Append(sends, f)
        BY <1>3, <2>1, <3>1 DEF PlainFrame, OwnFrame
      <4> HIDE DEF f
      <4>2. CASE Queued("HandleWrite") = 0
        <5>1. Rest' = Append(sends, f) /\ Rest = sends
          BY <4>1, <4>2 DEF Rest
        <5>2. QED
          BY <2>1, <4>1, <5>1
      <4>3. CASE Queued("HandleWrite") # 0
        <5>1. Rest' = Tail(Append(sends, f)) /\ Rest = Tail(sends)
          BY <4>1, <4>3 DEF Rest
        <5>2. Tail(Append(sends, f)) = Append(Tail(sends), f)
          BY <2>1, <2>2, <4>1, <4>3
        <5>3. Append(Rest, f) \in Seq(PlainFrame)
          BY <2>1, <4>1
        <5>4. QED
          BY <5>1, <5>2, <5>3, Zenon
      <4>4. QED
        BY <4>2, <4>3
    <3>2. CASE Head(strand).h # "SendMsg"
      BY <2>1, <3>2 DEF Rest
    <3>3. QED
      BY <3>1, <3>2
  <2>4. QED
    BY <1>1, <1>5, <2>3 DEF HeaderSent
<1>6. QED
  BY <1>2, <1>4, <1>5 DEF Up

\* The worker on the first connection.
LEMMA UpWorker == ASSUME IInv, Calm, Up, Worker PROVE Calm' /\ Up'
<1>0. /\ conn = 1 /\ started /\ sock = "up" /\ Pending("connect") = 0
      /\ Pending("read") + Queued("DispatchRecv") = 1 /\ recvs + Queued("DispatchRecv") <= 1
  BY DEF Up, IInv, RecvBacklog
<1>nothing. <<>> \in Seq(Said(1)) /\ <<>> \in Seq(Posted(1)) /\ CountIn(<<>>, "DispatchRecv") = 0
  BY NothingPosted
<1>1. CASE DispatchRecv
  <2>1. /\ recvs' = recvs + 1 /\ sends' = sends /\ conn' = conn /\ started' = started /\ wire' = wire
        /\ Runs("DispatchRecv") /\ Post(<<>>)
        /\ IF recvs = 0 THEN AsyncTransfer("read") ELSE UNCHANGED net
    BY <1>1 DEF DispatchRecv, amqp, peer
  <2>counts. PICK n \in {0, 1} :
          /\ n = 1 <=> recvs = 0
          /\ RunsCount("DispatchRecv", 0, n, 0, CountIn(<<>>, "DispatchRecv"))
    BY <2>1, NothingPosted, RunTransfers
  <2>more. Queued("DispatchRecv") = 1 /\ recvs = 0 /\ n = 1 /\ Pending("read") = 0
    BY <1>0, <2>counts, PlainNumbers DEF RunsCount
  <2>2. RunsCount("DispatchRecv", 0, 1, 0, 0)
    BY <1>nothing, <2>counts, <2>more, Zenon
  <2>3. /\ Pending("connect")' = 0 /\ Queued("HandleWrite")' = Queued("HandleWrite")
        /\ Pending("read")' + Queued("DispatchRecv")' = 1
    BY <1>0, <2>more, <2>2, PlainNumbers DEF RunsCount, One
  <2>4. sock' = "up" /\ doomed' = doomed
    BY <1>0, <2>1, UpTransfers
  <2>5. (HeaderQueued \/ HeaderNext \/ HeaderSent)'
    BY <1>nothing, <2>1, <2>3, UpRuns DEF Runs, Post
  <2>6. QED
    BY <1>0, <2>1, <2>3, <2>4, <2>5 DEF Up, Calm
<1>2. CASE HandleRecvOk
  <2>1. /\ recvs' = recvs - 1 /\ sends' = sends /\ conn' = conn /\ started' = started /\ wire' = wire
        /\ Runs("HandleRecv")
        /\ IF recvs > 1 THEN AsyncTransfer("read") ELSE UNCHANGED net
    BY <1>2 DEF HandleRecvOk, peer
  <2>2. PICK hs \in Seq(Said(1)) :
           Post(hs) /\ CountIn(hs, "DispatchRecv") = IF recvs > 1 THEN 0 ELSE 1
    BY <1>0, <1>2, ReceiveSays
  <2>3. hs \in Seq(Posted(1))
    BY DEF Said, Posted
  <2>4. PICK n \in {0, 1} :
          /\ n = 1 <=> recvs > 1
          /\ RunsCount("HandleRecv", 0, n, 0, CountIn(hs, "DispatchRecv"))
    BY <2>1, <2>2, <2>3, RunTransfers
  <2>5. CountIn(hs, "DispatchRecv") = 1 /\ n = 0 /\ Pending("read") = 1 /\ Queued("DispatchRecv") = 0
    BY <1>0, <2>2, <2>4, PlainNumbers DEF RunsCount
  <2>6. RunsCount("HandleRecv", 0, 0, 0, 1)
    BY <2>4, <2>5
  <2>7. /\ Pending("connect")' = 0 /\ Queued("HandleWrite")' = Queued("HandleWrite")
        /\ Pending("read")' + Queued("DispatchRecv")' = 1
    BY <1>0, <2>5, <2>6, PlainNumbers DEF RunsCount, One
  <2>8. sock' = "up" /\ doomed' = doomed
    BY <1>0, <2>1, UpTransfers
  <2>9. (HeaderQueued \/ HeaderNext \/ HeaderSent)'
    BY <2>1, <2>2, <2>7, UpRuns DEF Runs, Post
  <2>10. QED
    BY <1>0, <2>1, <2>7, <2>8, <2>9 DEF Up, Calm
<1>3. CASE SendMsg
  <2>1. /\ sends' = Append(sends, Head(strand).frame)
        /\ conn' = conn /\ started' = started /\ wire' = wire
        /\ Runs("SendMsg") /\ Post(<<>>)
        /\ IF sends = <<>> THEN AsyncTransfer("write") ELSE UNCHANGED net
    BY <1>3 DEF SendMsg, amqp, peer
  <2>counts. PICK n \in {0, 1} : RunsCount("SendMsg", 0, 0, n, CountIn(<<>>, "DispatchRecv"))
    BY <2>1, NothingPosted, RunTransfers
  <2>2. RunsCount("SendMsg", 0, 0, n, 0)
    BY <1>nothing, <2>counts, Zenon
  <2>3. /\ Pending("connect")' = 0 /\ Queued("HandleWrite")' = Queued("HandleWrite")
        /\ Pending("read")' + Queued("DispatchRecv")' = 1
    BY <1>0, <2>2, PlainNumbers DEF RunsCount, One
  <2>4. sock' = "up" /\ doomed' = doomed
    BY <1>0, <2>1, UpTransfers
  <2>5. (HeaderQueued \/ HeaderNext \/ HeaderSent)'
    BY <1>nothing, <2>1, <2>3, UpRuns DEF Runs, Post
  <2>6. QED
    BY <1>0, <2>1, <2>3, <2>4, <2>5 DEF Up, Calm
<1>4. CASE HandleWriteOk
  <2>1. /\ sends' = Tail(sends)
        /\ conn' = conn /\ started' = started /\ wire' = wire
        /\ Runs("HandleWrite") /\ Post(<<>>) /\ strand # <<>>
        /\ IF Tail(sends) # <<>> THEN AsyncTransfer("write") ELSE UNCHANGED net
    BY <1>4 DEF HandleWriteOk, amqp, peer, Runs
  <2>counts. PICK n \in {0, 1} : RunsCount("HandleWrite", 0, 0, n, CountIn(<<>>, "DispatchRecv"))
    BY <2>1, NothingPosted, RunTransfers
  <2>2. RunsCount("HandleWrite", 0, 0, n, 0)
    BY <1>nothing, <2>counts, Zenon
  <2>3. /\ Pending("connect")' = 0 /\ Queued("HandleWrite")' = Queued("HandleWrite") - 1
        /\ Pending("read")' + Queued("DispatchRecv")' = 1 /\ Pending("write") = 1
    BY <1>0, <2>2, PlainNumbers DEF RunsCount, One
  <2>4. sock' = "up" /\ doomed' = doomed
    BY <1>0, <2>1, UpTransfers
  <2>5. Queued("HandleWrite") = 1
    <3>1. Queued("HandleWrite") >= 1 /\ Spelt
      BY <2>1, RunQueued
    <3>2. /\ Pending("write") = live["write"] + doomed["write"] + Queued("HandleWrite")
          /\ live["write"] \in Nat /\ doomed["write"] \in Nat /\ Queued("HandleWrite") \in Nat
      BY <3>1 DEF Spelt
    <3>3. Pending("write") = 1
      BY <2>3
    <3>4. QED
      BY <3>1, <3>2, <3>3
  <2>6. HeaderSent
    <3>1. Head(strand).h = "HandleWrite"
      BY <2>1 DEF Runs
    <3>2. QED
      BY <2>5, <3>1 DEF Up, HeaderQueued, HeaderNext
  <2>7. strand' \in Seq(Plain)
    <3>1. strand' = Tail(strand) \o <<>> /\ Tail(strand) \in Seq(Plain)
      BY <2>1, PlainHead DEF Post
    <3>2. QED
      BY <3>1
  <2>8. Rest' = Rest
    <3>1. Queued("HandleWrite")' = 0
      BY <2>3, <2>5
    <3>2. QED
      BY <2>1, <2>5, <3>1 DEF Rest
  <2>9. HeaderSent'
    BY <2>1, <2>6, <2>7, <2>8 DEF HeaderSent
  <2>10. QED
    BY <1>0, <2>1, <2>3, <2>4, <2>9 DEF Up, Calm
<1>5. ~OnConnect /\ ~HandleRecvErr /\ ~HandleWriteErr /\ ~StartCloseSocket
  BY PlainHead DEF OnConnect, HandleRecvErr, HandleWriteErr, StartCloseSocket, Runs
<1>6. QED
  BY <1>1, <1>2, <1>3, <1>4, <1>5 DEF Worker

\* What a connection has been sent begins with its header and holds no other.
LEMMA UpCleanWire == ASSUME IInv, FramesOwned, Up PROVE CleanWire
<1>1. wire \in Seq(OwnFrame(1))
  BY DEF FramesOwned, Up
<1>2. CASE wire = <<>>
  BY <1>2 DEF CleanWire
<1>3. CASE HeaderSent
  <2>1. wire # <<>> /\ wire[1].hdr /\ Tail(wire) \in Seq(PlainFrame)
    BY <1>1, <1>3 DEF HeaderSent
  <2>2. ASSUME NEW i \in DOMAIN wire PROVE wire[i].conn = 1
    <3>1. wire[i] \in OwnFrame(1)
      BY <1>1
    <3>2. wire[i].conn \in 1..1
      BY <3>1 DEF OwnFrame
    <3>3. QED
      BY <3>2
  <2>3. 1 \in DOMAIN wire
    BY <1>1, <2>1
  <2>4. ASSUME NEW i \in DOMAIN wire, i # 1 PROVE ~wire[i].hdr
    <3>1. i - 1 \in DOMAIN Tail(wire) /\ Tail(wire)[i - 1] = wire[i]
      BY <1>1, <2>1, <2>4
    <3>2. wire[i] \in PlainFrame
      BY <2>1, <3>1
    <3>3. QED
      BY <3>2 DEF PlainFrame
  <2>5. QED
    BY <2>1, <2>2, <2>3, <2>4 DEF CleanWire
<1>4. QED
  BY <1>2, <1>3 DEF Up, HeaderQueued, HeaderNext

\* A handler that joins the strand keeps the header's order.
LEMMA UpJoins ==
    ASSUME IInv, Up, NEW x \in Plain, x.h # "HandleWrite", strand' = Append(strand, x),
           wire' = wire, sends' = sends
    PROVE  (HeaderQueued \/ HeaderNext \/ HeaderSent)'
<1>1. x \in Handler /\ strand \in Seq(Handler)
  BY DEF Plain, Owned, IInv, TypeOK
<1>2. Queued("HandleWrite")' = Queued("HandleWrite")
  <2>1. Queued("HandleWrite")' = Queued("HandleWrite") + IF x.h = "HandleWrite" THEN 1 ELSE 0
    BY <1>1, AppendEffect DEF IInv
  <2>2. QED
    BY <2>1, IInvNumbers
<1>3. CASE HeaderQueued
  <2>1. strand # <<>> /\ Tail(strand) \in Seq(Plain)
    BY <1>3 DEF HeaderQueued
  <2>2. /\ strand' # <<>> /\ Head(strand') = Head(strand)
        /\ Tail(strand') = Append(Tail(strand), x)
    BY <1>1, <2>1
  <2>3. Tail(strand') \in Seq(Plain)
    BY <2>1, <2>2
  <2>4. HeaderQueued'
    BY <1>3, <2>2, <2>3 DEF HeaderQueued
  <2>5. QED
    BY <2>4
<1>4. CASE strand \in Seq(Plain) /\ (HeaderNext \/ HeaderSent)
  <2>1. strand' \in Seq(Plain)
    BY <1>4
  <2>2. Rest' = Rest
    BY <1>2 DEF Rest
  <2>3. QED
    BY <1>2, <1>4, <2>1, <2>2 DEF HeaderNext, HeaderSent
<1>5. QED
  BY <1>3, <1>4 DEF Up, HeaderNext, HeaderSent

\* A frame of the first connection is written.
LEMMA UpWrites ==
    ASSUME IInv, FramesOwned, Up, WriteOk
    PROVE  (HeaderQueued \/ HeaderNext \/ HeaderSent)'
<1> DEFINE x == Completed("HandleWrite", TRUE, 0)
<1>1. /\ Finished("write", TRUE, 0) /\ sock = "up" /\ wire' = Append(wire, Head(sends))
      /\ strand' = Append(strand, x) /\ sends' = sends
  BY DEF WriteOk, Up, Finished, Complete, HandlerOf
<1>2. Queued("HandleWrite") = 0 /\ sends # <<>>
  BY <1>1, FinishedPending DEF Kind
<1>3. x \in Handler /\ x.h = "HandleWrite" /\ x.ok
  BY HandlerShape DEF Completed
<1> HIDE DEF x
<1>4. x \in Plain
  BY <1>3 DEF Plain, Owned
<1>5. Queued("HandleWrite")' = 1
  <2>1. Queued("HandleWrite")' = Queued("HandleWrite") + IF x.h = "HandleWrite" THEN 1 ELSE 0
    BY <1>1, <1>3, AppendEffect DEF IInv
  <2>2. QED
    BY <1>2, <1>3, <2>1
<1>6. Rest' = Tail(sends)
  BY <1>1, <1>5 DEF Rest
<1>7. CASE HeaderNext
  <2>1. /\ wire = <<>> /\ Head(sends).hdr /\ Tail(sends) \in Seq(PlainFrame) /\ strand \in Seq(Plain)
    BY <1>7 DEF HeaderNext
  <2>2. wire' # <<>> /\ Head(wire') = Head(sends) /\ Tail(wire') \in Seq(PlainFrame)
    BY <1>1, <2>1
  <2>3. strand' \in Seq(Plain)
    BY <1>1, <1>4, <2>1
  <2>4. HeaderSent'
    BY <1>6, <2>1, <2>2, <2>3 DEF HeaderSent
  <2>5. QED
    BY <2>4
<1>8. CASE HeaderSent
  <2>1. /\ wire # <<>> /\ Head(wire).hdr /\ Tail(wire) \in Seq(PlainFrame)
        /\ strand \in Seq(Plain) /\ sends \in Seq(PlainFrame) /\ wire \in Seq(Frame)
    BY <1>2, <1>8 DEF HeaderSent, Rest, IInv, TypeOK
  <2>2. Head(sends) \in PlainFrame /\ Tail(sends) \in Seq(PlainFrame) /\ Head(sends) \in Frame
    <3>1. Head(sends) \in PlainFrame /\ Tail(sends) \in Seq(PlainFrame)
      BY <1>2, <2>1
    <3>2. QED
      BY <3>1 DEF PlainFrame, OwnFrame
  <2>3. /\ wire' # <<>> /\ Head(wire') = Head(wire)
        /\ Tail(wire') = Append(Tail(wire), Head(sends))
    BY <1>1, <2>1, <2>2
  <2>4. Tail(wire') \in Seq(PlainFrame)
    <3>1. Append(Tail(wire), Head(sends)) \in Seq(PlainFrame)
      BY <2>1, <2>2
    <3>2. QED
      BY <2>3, <3>1, Zenon
  <2>5. strand' \in Seq(Plain)
    BY <1>1, <1>4, <2>1
  <2>6. HeaderSent'
    BY <1>6, <2>1, <2>2, <2>3, <2>4, <2>5 DEF HeaderSent
  <2>7. QED
    BY <2>6
<1>9. ~HeaderQueued
  BY <1>2 DEF HeaderQueued
<1>10. QED
  BY <1>7, <1>8, <1>9 DEF Up

\* The system, the network and the user on the first connection.
LEMMA UpElsewhere ==
    ASSUME IInv, FramesOwned, Calm, Up, Reactor \/ LinkDown \/ User \/ UNCHANGED vars,
           faults' = 0, faults = 0, phase' = "running"
    PROVE  Calm' /\ Up'
<1>0. /\ conn = 1 /\ started /\ sock = "up" /\ Pending("connect") = 0
      /\ Pending("read") + Queued("DispatchRecv") = 1
  BY DEF Up
<1>1. /\ conn' = 1 /\ started' /\ Pending("connect")' = 0 /\ sends' = sends
      /\ Pending("read")' + Queued("DispatchRecv")' = 1
  BY <1>0, ElsewhereCounts
<1>2. ~LinkDown
  <2>1. CleanWire
    BY UpCleanWire
  <2>2. faults + 1 # 0
    OBVIOUS
  <2>3. QED
    BY <2>1, <2>2 DEF LinkDown
<1>3. ~FinitClose /\ ~FinitStop
  BY DEF FinitClose, FinitStop
<1>4. /\ ~(\E k \in Kind : ReportError(k)) /\ ~ConnectOk /\ ~ConnectErr
      /\ ~(\E k \in {"read", "write"} : TransferErr(k))
  <2>1. ASSUME NEW k \in Kind, ReportError(k) PROVE FALSE
    <3>1. doomed[k] > 0 /\ doomed[k] = 0
      BY <2>1 DEF Calm, ReportError
    <3>2. QED
      BY <3>1
  <2>2. ~ConnectOk /\ ~ConnectErr
    BY <1>0 DEF ConnectOk, ConnectErr
  <2>3. ASSUME NEW k \in {"read", "write"}, TransferErr(k) PROVE FALSE
    BY <1>0, <2>3 DEF TransferErr
  <2>4. QED
    BY <2>1, <2>2, <2>3
<1>5. CASE ReadOk
  <2> DEFINE x == Completed("HandleRecv", TRUE, wire[1].conn)
  <2>1. /\ strand' = Append(strand, x) /\ wire' = wire /\ sock' = sock /\ doomed' = doomed /\ wire # <<>>
    BY <1>5 DEF ReadOk, Finished, Complete, HandlerOf
  <2>2. x \in Handler /\ x.h = "HandleRecv" /\ x.ok
    BY <2>1, PeerTypes, HandlerShape DEF Completed
  <2> HIDE DEF x
  <2>3. x \in Plain
    BY <2>2 DEF Plain, Owned
  <2>4. (HeaderQueued \/ HeaderNext \/ HeaderSent)'
    BY <1>1, <2>1, <2>2, <2>3, UpJoins
  <2>5. QED
    BY <1>0, <1>1, <2>1, <2>4 DEF Up, Calm
<1>6. CASE WriteOk
  <2>1. sock' = sock /\ doomed' = doomed
    BY <1>6 DEF WriteOk, Finished
  <2>2. QED
    BY <1>0, <1>1, <1>6, <2>1, UpWrites DEF Up, Calm
<1>7. CASE SendData
  <2> DEFINE f == [conn |-> usr, hdr |-> FALSE, n |-> posted + 1]
             x == SendCall(f)
  <2>1. f \in Frame /\ f.conn \in 1..1 /\ ~f.hdr
    BY <1>0, <1>7 DEF IInv, TypeOK, Frame, SendData, FramesOwned
  <2>2. x \in Handler /\ x.h = "SendMsg" /\ x.frame = f
    BY <2>1, HandlerShape DEF SendCall
  <2>3. strand' = Append(strand, x) /\ wire' = wire /\ sock' = sock /\ doomed' = doomed
    BY <1>7 DEF SendData, peer, net
  <2> HIDE DEF x, f
  <2>4. x \in Plain
    BY <2>1, <2>2 DEF Plain, Owned
  <2>5. (HeaderQueued \/ HeaderNext \/ HeaderSent)'
    BY <1>1, <2>2, <2>3, <2>4, UpJoins
  <2>6. QED
    BY <1>0, <1>1, <2>3, <2>5 DEF Up, Calm
<1>8. CASE GetConnection \/ UNCHANGED vars
  <2>1. strand' = strand /\ wire' = wire /\ sock' = sock /\ doomed' = doomed /\ live' = live
    BY <1>8 DEF GetConnection, vars, peer, net
  <2>2. Queued("HandleWrite")' = Queued("HandleWrite")
    BY <2>1, SameCounts
  <2>3. (HeaderQueued \/ HeaderNext \/ HeaderSent)'
    BY <1>1, <2>1, <2>2 DEF Up, HeaderQueued, HeaderNext, HeaderSent, Rest
  <2>4. QED
    BY <1>0, <1>1, <2>1, <2>3 DEF Up, Calm
<1>9. QED
  BY <1>2, <1>3, <1>4, <1>5, <1>6, <1>7, <1>8 DEF Reactor, User

\* No AMQP connection yet: nothing to read or to write.
LEMMA NoTransfers ==
    ASSUME IInv, FramesOwned, conn = 0
    PROVE  /\ sends = <<>> /\ wire = <<>> /\ usr = 0 /\ recvs = 0 /\ Queued("DispatchRecv") = 0
           /\ Pending("read") = 0 /\ live["read"] = 0 /\ live["write"] = 0
           /\ Queued("HandleWrite") = 0
<1>1. OwnFrame(conn) = {}
  BY DEF OwnFrame
<1>2. sends \in Seq({}) /\ wire \in Seq({}) /\ usr = 0
  BY <1>1 DEF FramesOwned
<1>3. sends = <<>> /\ wire = <<>>
  BY <1>2
<1>4. recvs = 0 /\ Queued("DispatchRecv") = 0
  BY PlainNumbers DEF IInv, RecvBacklog
<1>5. Pending("read") = 0 /\ Pending("write") = 0
  BY <1>3, <1>4 DEF IInv, OneTransferEach
<1>6. Spelt
  BY IInvNumbers, PendingIs DEF Spelt
<1>7. live["read"] = 0 /\ live["write"] = 0 /\ Queued("HandleWrite") = 0
  <2>1. /\ Pending("read") = live["read"] + doomed["read"] + Queued("HandleRecv")
        /\ live["read"] \in Nat /\ doomed["read"] \in Nat /\ Queued("HandleRecv") \in Nat
    BY <1>6 DEF Spelt
  <2>2. /\ Pending("write") = live["write"] + doomed["write"] + Queued("HandleWrite")
        /\ live["write"] \in Nat /\ doomed["write"] \in Nat /\ Queued("HandleWrite") \in Nat
    BY <1>6 DEF Spelt
  <2>3. live["read"] = 0
    BY <1>5, <2>1
  <2>4. live["write"] = 0 /\ Queued("HandleWrite") = 0
    BY <1>5, <2>2
  <2>5. QED
    BY <2>3, <2>4
<1>8. QED
  BY <1>2, <1>3, <1>4, <1>5, <1>7

\* The system, the network and the user while there is no AMQP connection: a
\* connect completes, or nothing happens.
LEMMA FirstConnects ==
    ASSUME IInv, FramesOwned, Calm, Dialling \/ Dialled, faults = 0, faults' = 0, phase' = "running",
           Reactor \/ LinkDown \/ User \/ UNCHANGED vars
    PROVE  Calm' /\ (Dialling' \/ Dialled')
<1>0. conn = 0 /\ ~started
  BY DEF Dialling, Dialled
<1>1. /\ wire = <<>> /\ usr = 0 /\ live["read"] = 0 /\ live["write"] = 0
  BY <1>0, NoTransfers
<1>2. conn' = 0 /\ ~started'
  BY <1>0, ElsewhereCounts
<1>3. ~LinkDown
  <2>1. CleanWire
    BY <1>1 DEF CleanWire
  <2>2. faults + 1 # 0
    OBVIOUS
  <2>3. QED
    BY <2>1, <2>2 DEF LinkDown
<1>4. /\ ~(\E k \in Kind : ReportError(k)) /\ ~ReadOk /\ ~WriteOk
      /\ ~(\E k \in {"read", "write"} : TransferErr(k))
      /\ ~SendData /\ ~FinitClose /\ ~FinitStop
  <2>1. ASSUME NEW k \in Kind, ReportError(k) PROVE FALSE
    <3>1. doomed[k] > 0 /\ doomed[k] = 0
      BY <2>1 DEF Calm, ReportError
    <3>2. QED
      BY <3>1
  <2>2. ASSUME NEW k \in {"read", "write"}, NEW ok \in BOOLEAN, NEW c, Finished(k, ok, c) PROVE FALSE
    <3>1. live[k] > 0 /\ live[k] = 0
      BY <1>1, <2>2 DEF Finished
    <3>2. QED
      BY <3>1
  <2>3. ~ReadOk
    BY <1>1 DEF ReadOk
  <2>4. ~WriteOk
    BY <2>2 DEF WriteOk
  <2>5. ASSUME NEW k \in {"read", "write"}, TransferErr(k) PROVE FALSE
    BY <2>2, <2>5 DEF TransferErr
  <2>6. ~SendData
    BY <1>1 DEF SendData
  <2>7. ~FinitClose
    BY DEF FinitClose
  <2>8. ~FinitStop
    BY DEF FinitStop
  <2>9. QED
    BY <2>1, <2>3, <2>4, <2>5, <2>6, <2>7, <2>8
<1>5. CASE GetConnection \/ UNCHANGED vars
  BY <1>2, <1>5 DEF GetConnection, vars, net, Calm, Dialling, Dialled
<1>6. CASE ConnectOk \/ ConnectErr
  <2>1. PICK ok \in BOOLEAN : Finished("connect", ok, 0) /\ sock' = IF ok THEN "up" ELSE "idle"
    BY <1>6 DEF ConnectOk, ConnectErr
  <2>2. Dialling
    BY <1>6 DEF ConnectOk, ConnectErr, Dialled
  <2>3. strand' = Append(<<>>, Completed("OnConnect", ok, 0)) /\ doomed' = doomed
    BY <2>1, <2>2 DEF Finished, Complete, HandlerOf, Dialling
  <2>4. live'["connect"] = 0
    <3>1. live \in [Kind -> Nat] /\ "connect" \in Kind /\ live["connect"] = 1
      BY <2>2 DEF IInv, TypeOK, Kind, Dialling
    <3>2. QED
      BY <2>1, <3>1 DEF Finished
  <2>5. strand' = <<Completed("OnConnect", ok, 0)>>
    BY <2>3
  <2>6. Dialled'
    BY <1>2, <2>1, <2>4, <2>5 DEF Dialled
  <2>7. QED
    BY <2>3, <2>6 DEF Calm
<1>7. QED
  BY <1>3, <1>4, <1>5, <1>6 DEF Reactor, User

\* OnConnect makes the first AMQP connection, or dials again.
LEMMA FirstConnected ==
    ASSUME IInv, FramesOwned, Calm, Dialling \/ Dialled, Worker
    PROVE  Calm' /\ (Dialling' \/ Up')
<1>0. conn = 0 /\ ~started
  BY DEF Dialling, Dialled
<1>1. PICK ok \in BOOLEAN : strand = <<Completed("OnConnect", ok, 0)>> /\ sock = IF ok THEN "up" ELSE "idle"
  BY WorkerStrand DEF Dialling, Dialled
<1>2. Head(strand) = Completed("OnConnect", ok, 0) /\ Tail(strand) = <<>> /\ live["connect"] = 0
  BY <1>1 DEF Dialling, Dialled
<1>3. Head(strand).h = "OnConnect" /\ Head(strand).ok = ok
  BY <1>2 DEF Completed
<1>4. OnConnect
  BY <1>3 DEF Worker, DispatchRecv, HandleRecvOk, HandleRecvErr, SendMsg, HandleWriteOk, HandleWriteErr,
        StartCloseSocket, Runs
<1>5. /\ sends = <<>> /\ wire = <<>> /\ recvs = 0 /\ Queued("DispatchRecv") = 0
      /\ Pending("read") = 0 /\ Queued("HandleWrite") = 0
  BY <1>0, NoTransfers
<1>6. Runs("OnConnect") /\ sends' = sends /\ wire' = wire
  BY <1>4 DEF OnConnect, peer
<1>7. CASE ok
  <2>1. sock = "up" /\ Head(strand).ok
    BY <1>1, <1>3, <1>7
  <2>2. started' /\ conn' = 1 /\ sock' = "up" /\ doomed' = doomed /\ live' = live
    BY <1>0, <1>4, <2>1 DEF OnConnect, net
  <2>3. PICK x \in Posted(1), t \in Seq(Said(1)) :
              Post(<<x>> \o t) /\ x.h = "SendMsg" /\ x.frame.hdr
    BY <1>0, <1>4, <2>1, FirstSays
  <2>4. strand' = <<x>> \o t
    <3>1. strand' = <<>> \o (<<x>> \o t)
      BY <1>2, <2>3 DEF Post
    <3>2. <<x>> \o t \in Seq(Handler)
      BY DEF Posted, Said
    <3> DEFINE u == <<x>> \o t
    <3> HIDE DEF u
    <3>3. u \in Seq(Handler) => <<>> \o u = u
      BY ConcatEmptySeq
    <3>4. QED
      BY <3>1, <3>2, <3>3 DEF u
  <2>5. strand' # <<>> /\ Head(strand') = x /\ Tail(strand') = t
    BY <2>4
  <2>6. t \in Seq(Plain)
    <3>1. Said(1) \subseteq Plain
      BY DEF Said, Plain, Owned
    <3>2. QED
      BY <3>1
  <2>7. HeaderQueued'
    BY <1>5, <1>6, <2>3, <2>5, <2>6 DEF HeaderQueued
  <2>8. PICK hs \in Seq(Posted(conn + 1)) : CountIn(hs, "DispatchRecv") = 1 /\ Post(hs)
    BY <1>4, <2>1, ConnectSays
  <2>9. live' \in [Kind -> Nat] /\ doomed' \in [Kind -> Nat]
        /\ \A k \in Kind : live'[k] + doomed'[k] = live[k] + doomed[k]
    BY <2>2 DEF IInv, TypeOK
  <2>10. RunsCount("OnConnect", 0, 0, 0, CountIn(hs, "DispatchRecv"))
    BY <1>6, <2>8, <2>9, RunStarts
  <2>11. RunsCount("OnConnect", 0, 0, 0, 1)
    BY <2>8, <2>10, Zenon
  <2>12. Pending("read")' + Queued("DispatchRecv")' = 1
    BY <1>5, <2>11 DEF RunsCount, One
  <2>13. Pending("connect")' = 0
    <3>1. Pending("connect")' = Pending("connect") - 1 /\ Pending("connect") \in Nat
      BY <2>11, PlainNumbers DEF RunsCount, One
    <3>2. Queued("OnConnect") = 1
      <4>1. Completed("OnConnect", ok, 0) \in Handler /\ Completed("OnConnect", ok, 0).h = "OnConnect"
        BY HandlerShape
      <4>2. QED
        BY <1>1, <4>1, CountOne DEF Queued
    <3>3. doomed["connect"] = 0
      BY DEF Calm, Kind
    <3>4. Pending("connect") = 1
      BY <1>2, <3>2, <3>3, PendingIs
    <3>5. QED
      BY <3>1, <3>4
  <2>14. QED
    BY <2>2, <2>7, <2>12, <2>13 DEF Up, Calm
<1>8. CASE ~ok
  <2>1. sock = "idle" /\ ~Head(strand).ok
    BY <1>1, <1>3, <1>8
  <2>2. started' = FALSE /\ conn' = 0 /\ AsyncConnect /\ Post(<<>>)
    BY <1>0, <1>4, <2>1 DEF OnConnect
  <2>3. sock' = "connecting" /\ doomed' = doomed /\ live' = [live EXCEPT !["connect"] = @ + 1]
    BY <2>1, <2>2 DEF AsyncConnect
  <2>4. live'["connect"] = 1
    <3>1. live \in [Kind -> Nat] /\ "connect" \in Kind
      BY DEF IInv, TypeOK, Kind
    <3>2. QED
      BY <1>2, <2>3, <3>1
  <2>5. strand' = <<>>
    <3>1. strand' = <<>> \o <<>>
      BY <1>2, <2>2 DEF Post
    <3>2. QED
      BY <3>1
  <2>6. QED
    BY <2>2, <2>3, <2>4, <2>5 DEF Dialling, Calm
<1>9. QED
  BY <1>7, <1>8

LEMMA UndisturbedStep == IInv /\ FramesOwned /\ Undisturbed /\ [Next]_vars => Undisturbed'
<1> SUFFICES ASSUME IInv, FramesOwned, Undisturbed, [Next]_vars, faults' = 0, phase' = "running"
             PROVE  Calm' /\ (Dialling' \/ Dialled' \/ Up')
  BY DEF Undisturbed
<1>1. faults = 0 /\ phase = "running"
  <2>1. faults \in Nat
    BY BoundsAssumption DEF IInv, TypeOK
  <2>2. faults' = faults \/ faults' = faults + 1
    BY DEF Next, Worker, OnConnect, DispatchRecv, HandleRecvOk, HandleRecvErr, SendMsg, HandleWriteOk,
       HandleWriteErr, StartCloseSocket, Reactor, ReportError, ConnectOk, ConnectErr, ReadOk, WriteOk,
       TransferErr, Finished, LinkDown, User, GetConnection, SendData, FinitClose, FinitStop, Stopped,
       vars, peer
  <2>3. phase' = phase \/ phase' \in {"closing", "stopped"}
    BY DEF Next, Worker, OnConnect, DispatchRecv, HandleRecvOk, HandleRecvErr, SendMsg, HandleWriteOk,
       HandleWriteErr, StartCloseSocket, Reactor, ReportError, ConnectOk, ConnectErr, ReadOk, WriteOk,
       TransferErr, Finished, LinkDown, User, GetConnection, SendData, FinitClose, FinitStop, Stopped,
       vars, user
  <2>4. QED
    BY <2>1, <2>2, <2>3
<1>2. Calm /\ (Dialling \/ Dialled \/ Up)
  BY <1>1 DEF Undisturbed
<1>3. CASE Worker
  BY <1>2, <1>3, UpWorker, FirstConnected
<1>4. CASE Reactor \/ LinkDown \/ User \/ UNCHANGED vars
  BY <1>1, <1>2, <1>4, UpElsewhere, FirstConnects
<1>5. QED
  BY <1>3, <1>4 DEF Next, Stopped

LEMMA UndisturbedInit == Init => Undisturbed
BY DEF Init, Undisturbed, Calm, Dialling, Kind

\* Until the network drops a connection nothing fails but connects, and the
\* first connection has sent its header first.
THEOREM QuietBeforeFault == Spec => []Undisturbed
<1>1. IInv /\ Links /\ Undisturbed /\ [Next]_vars => Undisturbed'
  BY UndisturbedStep DEF Links
<1>2. QED
  BY <1>1, UndisturbedInit, LinksHold, Invariance, PTL DEF Spec

\* Until a connection is dropped, TcpMgr receives on every connection that
\* OnConnect has accepted.
THEOREM ReceivesTillFault == Spec => []ReceivesUntilFault
<1>1. IInv /\ Undisturbed => ReceivesUntilFault
  <2> SUFFICES ASSUME IInv, Undisturbed, faults = 0, started, phase = "running"
               PROVE  Pending("read") + Queued("DispatchRecv") > 0
    BY DEF ReceivesUntilFault, ReceivesOnceConnected
  <2>1. Up
    BY DEF Undisturbed, Dialling, Dialled
  <2>2. QED
    BY <2>1 DEF Up
<1>2. QED
  BY <1>1, QuietBeforeFault, Invariance, PTL

-----------------------------------------------------------------------------
(* The frames of the queued SendMsg handlers *)

\* The step of FramesOf's recursion.
FrameStep(s, g, i) == IF i = 0 THEN <<>> ELSE g[i - 1] \o FrameIn(s[i])

\* There is such a function.
LEMMA UptoExists ==
    ASSUME NEW s, NEW n \in Nat
    PROVE  \E g : g = [i \in 0..n |-> FrameStep(s, g, i)]
<1> DEFINE P(k) == \E g : g = [i \in 0..k |-> FrameStep(s, g, i)]
           T == {k \in Nat : P(k)}
<1>1. 0 \in T
  <2> DEFINE g == [i \in 0..0 |-> <<>>]
  <2>1. g = [i \in 0..0 |-> FrameStep(s, g, i)]
    BY DEF FrameStep
  <2>2. QED
    BY <2>1
<1>2. ASSUME NEW k \in 0..(n - 1), k \in T
      PROVE  k + 1 \in T
  <2>1. PICK g : g = [i \in 0..k |-> FrameStep(s, g, i)]
    BY <1>2
  <2> DEFINE f == [i \in 0..(k + 1) |-> FrameStep(s, g, i)]
  <2>2. ASSUME NEW i \in 0..(k + 1) PROVE FrameStep(s, f, i) = FrameStep(s, g, i)
    <3>1. CASE i = 0
      BY <3>1 DEF FrameStep
    <3>2. CASE i # 0
      <4>1. i - 1 \in 0..k /\ i - 1 \in 0..(k + 1)
        BY <3>2
      <4>2. g[i - 1] = FrameStep(s, g, i - 1)
        BY <2>1, <4>1
      <4>3. f[i - 1] = FrameStep(s, g, i - 1)
        BY <4>1
      <4>4. QED
        BY <4>2, <4>3 DEF FrameStep
    <3>3. QED
      BY <3>1, <3>2
  <2>3. f = [i \in 0..(k + 1) |-> FrameStep(s, f, i)]
    BY <2>2, Zenon
  <2>4. P(k + 1)
    BY <2>3
  <2>5. QED
    BY <2>4
<1> HIDE DEF T
<1>3. n \in T
  <2>1. \A i \in 0..n : i \in T
    BY <1>1, <1>2, RangeInduction
  <2>2. QED
    BY <2>1
<1>4. QED
  BY <1>3 DEF T

\* What g has to be to be the function FramesOf takes its value from.
IsUpto(s, g) ==
    /\ g[0] = <<>>
    /\ \A i \in 1..Len(s) : g[i] = g[i - 1] \o FrameIn(s[i])
    /\ FramesOf(s) = g[Len(s)]

LEMMA UptoValues ==
    ASSUME NEW s, Len(s) \in Nat
    PROVE  \E g : IsUpto(s, g)
<1> DEFINE n == Len(s)
           up[i \in 0..n] == IF i = 0 THEN <<>> ELSE up[i - 1] \o FrameIn(s[i])
<1>1. FramesOf(s) = up[n]
  BY DEF FramesOf
<1>2. up = CHOOSE g : g = [i \in 0..n |-> IF i = 0 THEN <<>> ELSE g[i - 1] \o FrameIn(s[i])]
  OBVIOUS
<1> HIDE DEF up
<1>3. \E g : g = [i \in 0..n |-> IF i = 0 THEN <<>> ELSE g[i - 1] \o FrameIn(s[i])]
  BY UptoExists DEF FrameStep
<1>4. up = [i \in 0..n |-> IF i = 0 THEN <<>> ELSE up[i - 1] \o FrameIn(s[i])]
  BY <1>2, <1>3, Zenon
<1>5. up[0] = <<>>
  BY <1>4
<1>6. ASSUME NEW i \in 1..n PROVE up[i] = up[i - 1] \o FrameIn(s[i])
  <2>1. i \in 0..n /\ i # 0
    OBVIOUS
  <2>2. up[i] = IF i = 0 THEN <<>> ELSE up[i - 1] \o FrameIn(s[i])
    BY <1>4, <2>1, Zenon
  <2>3. QED
    BY <2>1, <2>2, Zenon
<1>7. IsUpto(s, up)
  BY <1>1, <1>5, <1>6, Zenon DEF IsUpto
<1>8. QED
  BY <1>7, Zenon

\* A handler has at most one frame.
LEMMA FrameInType ==
    ASSUME NEW x \in Handler
    PROVE  FrameIn(x) \in Seq(Frame)
<1>1. x.h = "SendMsg" => x.frame \in Frame
  BY DEF Handler
<1>2. QED
  BY <1>1 DEF FrameIn

\* Frames can be put together in any grouping.
LEMMA FramesAssociative ==
    ASSUME NEW a \in Seq(Frame), NEW b \in Seq(Frame), NEW c \in Seq(Frame)
    PROVE  (a \o b) \o c = a \o (b \o c)
OBVIOUS

\* Every value of that function is a sequence of frames.
LEMMA UptoType ==
    ASSUME NEW s \in Seq(Handler), NEW g, IsUpto(s, g)
    PROVE  \A i \in 0..Len(s) : g[i] \in Seq(Frame)
<1> DEFINE n == Len(s)
           T == {i \in Nat : g[i] \in Seq(Frame)}
<1>1. n \in Nat
  OBVIOUS
<1>2. 0 \in T
  BY EmptySeq DEF IsUpto
<1>3. ASSUME NEW i \in 0..(n - 1), i \in T PROVE i + 1 \in T
  <2>1. i + 1 \in 1..n /\ (i + 1) - 1 = i /\ i + 1 \in Nat
    BY <1>1
  <2>2. s[i + 1] \in Handler
    BY <2>1, ElementOfSeq
  <2>3. g[i + 1] = g[(i + 1) - 1] \o FrameIn(s[i + 1])
    BY <2>1, Zenon DEF IsUpto
  <2>4. FrameIn(s[i + 1]) \in Seq(Frame)
    BY <2>2, FrameInType, Zenon
  <2>5. g[i] \in Seq(Frame)
    BY <1>3
  <2>6. g[i] \o FrameIn(s[i + 1]) \in Seq(Frame)
    BY <2>4, <2>5, ConcatProperties, Zenon
  <2>7. g[i + 1] \in Seq(Frame)
    BY <2>1, <2>3, <2>6
  <2>8. QED
    BY <2>1, <2>7
<1> HIDE DEF T, n
<1>4. \A i \in 0..n : i \in T
  BY <1>1, <1>2, <1>3, RangeInduction, Zenon
<1>5. QED
  BY <1>4 DEF T, n

\* Queued frames are a sequence of frames.
LEMMA FramesType ==
    ASSUME NEW s \in Seq(Handler)
    PROVE  FramesOf(s) \in Seq(Frame)
<1>1. Len(s) \in 0..Len(s) /\ Len(s) \in Nat
  OBVIOUS
<1>2. PICK g : IsUpto(s, g)
  BY <1>1, UptoValues, Zenon
<1>3. FramesOf(s) = g[Len(s)]
  BY <1>2, Zenon DEF IsUpto
<1>4. g[Len(s)] \in Seq(Frame)
  BY <1>1, <1>2, UptoType, Zenon
<1>5. QED
  BY <1>3, <1>4, Zenon

\* The frames of two queues, one behind the other.
LEMMA FramesConcat ==
    ASSUME NEW s \in Seq(Handler), NEW t \in Seq(Handler)
    PROVE  FramesOf(s \o t) = FramesOf(s) \o FramesOf(t)
<1> DEFINE u == s \o t
           m == Len(s)
           n == Len(t)
<1>1. /\ u \in Seq(Handler) /\ Len(u) = m + n /\ m \in Nat /\ n \in Nat
      /\ \A i \in 1..m : u[i] = s[i]
      /\ \A i \in 1..n : u[m + i] = t[i]
  BY ConcatProperties
<1>2. PICK a : IsUpto(s, a)
  BY <1>1, UptoValues, Zenon
<1>3. PICK b : IsUpto(t, b)
  BY <1>1, UptoValues, Zenon
<1>4. Len(u) \in Nat
  BY <1>1
<1> HIDE DEF u
<1>5. PICK c : IsUpto(u, c)
  BY <1>4, UptoValues, Zenon
<1> HIDE DEF m, n
<1>6. /\ a[0] = <<>> /\ FramesOf(s) = a[m]
      /\ \A i \in 1..m : a[i] = a[i - 1] \o FrameIn(s[i])
  BY <1>2, Zenon DEF IsUpto, m
<1>7. /\ b[0] = <<>> /\ FramesOf(t) = b[n]
      /\ \A i \in 1..n : b[i] = b[i - 1] \o FrameIn(t[i])
  BY <1>3, Zenon DEF IsUpto, n
<1>8. /\ c[0] = <<>> /\ FramesOf(u) = c[m + n]
      /\ \A i \in 1..(m + n) : c[i] = c[i - 1] \o FrameIn(u[i])
  <2>1. /\ c[0] = <<>> /\ FramesOf(u) = c[Len(u)]
        /\ \A i \in 1..Len(u) : c[i] = c[i - 1] \o FrameIn(u[i])
    BY <1>5, Zenon DEF IsUpto
  <2>2. QED
    BY <1>1, <2>1, Zenon
<1>9. \A i \in 0..m : c[i] = a[i]
  <2> DEFINE T == {i \in Nat : c[i] = a[i]}
  <2>1. 0 \in T
    BY <1>6, <1>8
  <2>2. ASSUME NEW i \in 0..(m - 1), i \in T PROVE i + 1 \in T
    <3>1. i + 1 \in 1..m /\ i + 1 \in 1..(m + n) /\ (i + 1) - 1 = i /\ i + 1 \in Nat
      BY <1>1
    <3>2. a[i + 1] = a[(i + 1) - 1] \o FrameIn(s[i + 1])
      BY <1>6, <3>1, Zenon
    <3>3. c[i + 1] = c[(i + 1) - 1] \o FrameIn(u[i + 1])
      BY <1>8, <3>1, Zenon
    <3>4. u[i + 1] = s[i + 1]
      BY <1>1, <3>1, Zenon
    <3>5. c[i] = a[i]
      BY <2>2
    <3>6. c[i + 1] = a[i + 1]
      BY <3>1, <3>2, <3>3, <3>4, <3>5, Zenon
    <3>7. QED
      BY <3>1, <3>6
  <2> HIDE DEF T
  <2>3. \A i \in 0..m : i \in T
    BY <1>1, <2>1, <2>2, RangeInduction, Zenon
  <2>4. QED
    BY <2>3 DEF T
<1>10. \A i \in 0..n : c[m + i] = FramesOf(s) \o b[i]
  <2> DEFINE T == {i \in Nat : c[m + i] = FramesOf(s) \o b[i]}
  <2>1. 0 \in T
    <3>1. m + 0 = m /\ m \in 0..m
      BY <1>1
    <3>2. c[m + 0] = FramesOf(s)
      BY <1>6, <1>9, <3>1, Zenon
    <3>3. FramesOf(s) \o <<>> = FramesOf(s)
      BY FramesType, ConcatEmptySeq, Zenon
    <3>4. c[m + 0] = FramesOf(s) \o b[0]
      BY <1>7, <3>2, <3>3, Zenon
    <3>5. QED
      BY <3>4
  <2>2. ASSUME NEW i \in 0..(n - 1), i \in T PROVE i + 1 \in T
    <3>1. /\ i + 1 \in 1..n /\ (i + 1) - 1 = i /\ i \in 0..n /\ i + 1 \in Nat
          /\ m + (i + 1) \in 1..(m + n) /\ (m + (i + 1)) - 1 = m + i
      BY <1>1
    <3>2. b[i + 1] = b[(i + 1) - 1] \o FrameIn(t[i + 1])
      BY <1>7, <3>1, Zenon
    <3>3. c[m + (i + 1)] = c[(m + (i + 1)) - 1] \o FrameIn(u[m + (i + 1)])
      BY <1>8, <3>1, Zenon
    <3>4. u[m + (i + 1)] = t[i + 1]
      BY <1>1, <3>1, Zenon
    <3>5. t[i + 1] \in Handler
      BY <3>1, ElementOfSeq, Zenon DEF n
    <3>6. FramesOf(s) \in Seq(Frame) /\ FrameIn(t[i + 1]) \in Seq(Frame)
      BY <3>5, FramesType, FrameInType, Zenon
    <3>7. b[i] \in Seq(Frame)
      BY <1>3, <3>1, UptoType, Zenon DEF n
    <3>8. (FramesOf(s) \o b[i]) \o FrameIn(t[i + 1]) = FramesOf(s) \o (b[i] \o FrameIn(t[i + 1]))
      BY <3>6, <3>7, FramesAssociative, Zenon
    <3>9. c[m + i] = FramesOf(s) \o b[i]
      BY <2>2
    <3>10. c[m + (i + 1)] = FramesOf(s) \o b[i + 1]
      BY <3>1, <3>2, <3>3, <3>4, <3>8, <3>9, Zenon
    <3>11. QED
      BY <3>1, <3>10
  <2> HIDE DEF T
  <2>3. \A i \in 0..n : i \in T
    BY <1>1, <2>1, <2>2, RangeInduction, Zenon
  <2>4. QED
    BY <2>3 DEF T
<1>11. n \in 0..n
  BY <1>1
<1>12. QED
  BY <1>7, <1>8, <1>10, <1>11, Zenon DEF u

\* The frame of a queue of one handler.
LEMMA FramesOne ==
    ASSUME NEW x \in Handler
    PROVE  FramesOf(<<x>>) = FrameIn(x)
<1> DEFINE s == <<x>>
<1>1. Len(s) = 1 /\ s[1] = x /\ 1 \in Nat /\ 1 \in 1..1 /\ 1 - 1 = 0
  OBVIOUS
<1> HIDE DEF s
<1>2. PICK g : IsUpto(s, g)
  BY <1>1, UptoValues, Zenon
<1>3. g[0] = <<>> /\ g[1] = g[1 - 1] \o FrameIn(s[1]) /\ FramesOf(s) = g[1]
  BY <1>1, <1>2, Zenon DEF IsUpto
<1>4. <<>> \o FrameIn(x) = FrameIn(x)
  BY FrameInType, ConcatEmptySeq, Zenon
<1>5. QED
  BY <1>1, <1>3, <1>4, Zenon DEF s

\* The frames of an empty queue.
LEMMA FramesEmpty == FramesOf(<<>>) = <<>>
<1>1. Len(<<>>) = 0 /\ 0 \in Nat
  OBVIOUS
<1>2. PICK g : IsUpto(<<>>, g)
  BY <1>1, UptoValues, Zenon
<1>3. QED
  BY <1>1, <1>2, Zenon DEF IsUpto
-----------------------------------------------------------------------------
(* What is still to be written *)

\* Written, of any queue.
WrittenIn(s) == \E i \in DOMAIN s : s[i].h = "HandleWrite" /\ s[i].ok

\* m_pending_sends without a front that has been written.
Front == IF Written THEN Tail(sends) ELSE sends

\* A write that succeeded is reported in one of two queues.
LEMMA WrittenConcat ==
    ASSUME NEW s \in Seq(Handler), NEW t \in Seq(Handler)
    PROVE  WrittenIn(s \o t) <=> WrittenIn(s) \/ WrittenIn(t)
<1> DEFINE u == s \o t
           m == Len(s)
           n == Len(t)
<1>1. /\ m \in Nat /\ n \in Nat /\ DOMAIN s = 1..m /\ DOMAIN t = 1..n /\ DOMAIN u = 1..(m + n)
      /\ \A i \in 1..m : u[i] = s[i]
      /\ \A i \in 1..n : u[m + i] = t[i]
  BY ConcatProperties, LenProperties
<1>m. m \in Nat /\ n \in Nat
  OBVIOUS
<1> HIDE DEF u, m, n
<1>2. ASSUME NEW i \in 1..m PROVE i \in 1..(m + n)
  BY <1>m
<1>3. ASSUME NEW i \in 1..n PROVE m + i \in 1..(m + n)
  BY <1>m
<1>4. ASSUME NEW i \in 1..(m + n), i \notin 1..m PROVE i - m \in 1..n /\ m + (i - m) = i
  BY <1>m, <1>4
<1>5. ASSUME WrittenIn(u) PROVE WrittenIn(s) \/ WrittenIn(t)
  <2>1. PICK i \in 1..(m + n) : u[i].h = "HandleWrite" /\ u[i].ok
    BY <1>1, <1>5, Zenon DEF WrittenIn
  <2>2. CASE i \in 1..m
    BY <1>1, <2>1, <2>2, Zenon DEF WrittenIn
  <2>3. CASE i \notin 1..m
    <3>1. i - m \in 1..n /\ m + (i - m) = i
      BY <1>4, <2>3
    <3>2. u[i] = t[i - m]
      BY <1>1, <3>1, Zenon
    <3>3. QED
      BY <1>1, <2>1, <3>1, <3>2, Zenon DEF WrittenIn
  <2>4. QED
    BY <2>2, <2>3
<1>6. WrittenIn(s) => WrittenIn(u)
  BY <1>1, <1>2, Zenon DEF WrittenIn
<1>7. WrittenIn(t) => WrittenIn(u)
  BY <1>1, <1>3, Zenon DEF WrittenIn
<1>8. QED
  BY <1>5, <1>6, <1>7, Zenon DEF u

\* A write is reported by a handler that is counted.
LEMMA WrittenCounted ==
    ASSUME NEW s \in Seq(Handler), WrittenIn(s)
    PROVE  CountIn(s, "HandleWrite") >= 1
<1> DEFINE C == {i \in DOMAIN s : s[i].h = "HandleWrite"}
<1>1. C # {}
  BY DEF WrittenIn
<1>2. IsFiniteSet(C) /\ CountIn(s, "HandleWrite") \in Nat
  BY CountType
<1>3. Cardinality(C) # 0
  BY <1>1, <1>2, FS_EmptySet, Zenon
<1>4. CountIn(s, "HandleWrite") = Cardinality(C)
  BY Zenon DEF CountIn
<1>5. QED
  BY <1>2, <1>3, <1>4

\* A write that succeeded was the only one, and its frame is still in front.
LEMMA WrittenMeans ==
    ASSUME IInv, Written
    PROVE  sends # <<>> /\ live["write"] = 0 /\ Queued("HandleWrite") = 1
<1>1. strand \in Seq(Handler) /\ WrittenIn(strand)
  BY DEF IInv, TypeOK, Written, WrittenIn
<1>2. Queued("HandleWrite") >= 1
  BY <1>1, WrittenCounted DEF Queued
<1>3. Pending("write") <= 1 /\ (sends = <<>> => Pending("write") = 0)
  BY DEF IInv, OneTransferEach
<1>4. QED
  BY <1>2, <1>3, PendingIs, IInvNumbers

\* What is unwritten in m_pending_sends, and behind it in the strand.
LEMMA FrontType ==
    ASSUME IInv
    PROVE  Front \in Seq(Frame) /\ Unwritten = Front \o FramesOf(strand)
<1>1. sends \in Seq(Frame)
  BY DEF IInv, TypeOK
<1>2. Written => Tail(sends) \in Seq(Frame)
  BY <1>1, WrittenMeans, HeadTailProperties
<1>3. QED
  BY <1>1, <1>2, Zenon DEF Front, Unwritten

\* The queue as the handler that runs and those behind it.
LEMMA RunSplit ==
    ASSUME IInv, NEW g, Runs(g)
    PROVE  /\ Head(strand) \in Handler /\ Head(strand).h = g /\ Tail(strand) \in Seq(Handler)
           /\ FramesOf(strand) = FrameIn(Head(strand)) \o FramesOf(Tail(strand))
           /\ Written <=> (g = "HandleWrite" /\ Head(strand).ok) \/ WrittenIn(Tail(strand))
<1> DEFINE x == Head(strand)
           u == Tail(strand)
           v == <<x>>
<1>1. strand \in Seq(Handler) /\ strand # <<>> /\ x.h = g
  BY DEF IInv, TypeOK, Runs
<1>2. x \in Handler /\ u \in Seq(Handler) /\ v \in Seq(Handler) /\ strand = v \o u
  BY <1>1, HeadTailProperties
<1>3. FramesOf(v) = FrameIn(x)
  BY <1>2, FramesOne
<1>4. WrittenIn(v) <=> x.h = "HandleWrite" /\ x.ok
  BY DEF WrittenIn
<1> HIDE DEF x, u, v
<1>5. FramesOf(v \o u) = FramesOf(v) \o FramesOf(u)
  BY <1>2, FramesConcat, Zenon
<1>6. WrittenIn(v \o u) <=> WrittenIn(v) \/ WrittenIn(u)
  BY <1>2, WrittenConcat, Zenon
<1>7. Written <=> WrittenIn(strand)
  BY Zenon DEF Written, WrittenIn
<1>8. /\ x \in Handler /\ x.h = g /\ u \in Seq(Handler)
      /\ FramesOf(strand) = FrameIn(x) \o FramesOf(u)
      /\ Written <=> (g = "HandleWrite" /\ x.ok) \/ WrittenIn(u)
  BY <1>1, <1>2, <1>3, <1>4, <1>5, <1>6, <1>7, Zenon
<1>9. QED
  BY <1>8 DEF x, u

\* Queues that hold no completed write and their frames.
LEMMA QuietQueue ==
    ASSUME NEW s \in Seq(Handler), NEW t \in Seq(Handler), CountIn(t, "HandleWrite") = 0
    PROVE  /\ FramesOf(s \o t) = FramesOf(s) \o FramesOf(t)
           /\ FramesOf(s) \in Seq(Frame) /\ FramesOf(t) \in Seq(Frame)
           /\ WrittenIn(s \o t) <=> WrittenIn(s)
<1>1. ~WrittenIn(t)
  <2>1. ~(0 >= 1)
    OBVIOUS
  <2>2. QED
    BY <2>1, WrittenCounted, Zenon
<1>2. WrittenIn(s \o t) <=> WrittenIn(s) \/ WrittenIn(t)
  BY WrittenConcat, Zenon
<1>3. QED
  BY <1>1, <1>2, FramesConcat, FramesType, Zenon

-----------------------------------------------------------------------------
(* Every step is one of the pipe *)

\* A sequence begins what it is continued to.
LEMMA PrefixConcat ==
    ASSUME NEW a \in Seq(Frame), NEW b \in Seq(Frame)
    PROVE  Pipe!IsPrefix(a, a \o b)
<1>1. Len(a) \in Nat /\ Len(b) \in Nat /\ Len(a \o b) = Len(a) + Len(b)
  BY ConcatProperties
<1>2. \A i \in 1..Len(a) : (a \o b)[i] = a[i]
  BY ConcatProperties
<1>3. SubSeq(a, 1, Len(a)) = SubSeq(a \o b, 1, Len(a))
  BY <1>1, <1>2
<1>4. QED
  BY <1>1, <1>3 DEF Pipe!IsPrefix

\* Frames that join at the back.
LEMMA Posting ==
    ASSUME IInv, NEW f \in Seq(Frame), FramesOf(strand') = FramesOf(strand) \o f,
           Written' <=> Written, sends' = sends, wire' = wire
    PROVE  Pipe!Post
<1>1. FramesOf(strand) \in Seq(Frame)
  BY FramesType DEF IInv, TypeOK
<1>2. Front \in Seq(Frame) /\ Unwritten = Front \o FramesOf(strand)
  BY FrontType
<1>3. Unwritten' = Front \o (FramesOf(strand) \o f)
  <2>1. Unwritten' = Front' \o FramesOf(strand')
    BY Zenon DEF Unwritten, Front
  <2>2. Front' = Front
    BY Zenon DEF Front
  <2>3. QED
    BY <2>1, <2>2
<1>4. Front \o (FramesOf(strand) \o f) = (Front \o FramesOf(strand)) \o f
  BY <1>1, <1>2, FramesAssociative, Zenon
<1>5. Front \o FramesOf(strand) \in Seq(Frame)
  BY <1>1, <1>2, ConcatProperties, Zenon
<1>6. Pipe!IsPrefix(Unwritten, Unwritten')
  BY <1>2, <1>3, <1>4, <1>5, PrefixConcat, Zenon
<1>7. QED
  BY <1>6, Zenon DEF Pipe!Post

\* What is still to be written is as it was.
LEMMA SameOut ==
    ASSUME IInv, Unwritten' = Unwritten, wire' = wire
    PROVE  Pipe!Post
<1>1. FramesOf(strand) \in Seq(Frame) /\ Front \in Seq(Frame) /\ Unwritten = Front \o FramesOf(strand)
  BY FrontType, FramesType DEF IInv, TypeOK
<1>2. Unwritten \in Seq(Frame) /\ <<>> \in Seq(Frame)
  BY <1>1, ConcatProperties
<1>3. Unwritten \o <<>> = Unwritten
  BY <1>2, ConcatEmptySeq, Zenon
<1>4. Pipe!IsPrefix(Unwritten, Unwritten \o <<>>)
  BY <1>2, PrefixConcat, Zenon
<1>5. QED
  BY <1>3, <1>4, Zenon DEF Pipe!Post

\* A handler that has no frame and reports no write: what it posts joins.
LEMMA RunPosts ==
    ASSUME IInv, NEW g, Runs(g), g # "SendMsg", ~(g = "HandleWrite" /\ Head(strand).ok),
           NEW hs \in Seq(Handler), CountIn(hs, "HandleWrite") = 0, Post(hs),
           sends' = sends, wire' = wire
    PROVE  Pipe!Post
<1> DEFINE u == Tail(strand)
<1>1. /\ Head(strand) \in Handler /\ Head(strand).h = g /\ u \in Seq(Handler)
      /\ FramesOf(strand) = FrameIn(Head(strand)) \o FramesOf(u)
      /\ Written <=> (g = "HandleWrite" /\ Head(strand).ok) \/ WrittenIn(u)
  BY RunSplit
<1>2. strand' = u \o hs
  BY DEF Post
<1> HIDE DEF u
<1>3. /\ FramesOf(u \o hs) = FramesOf(u) \o FramesOf(hs)
      /\ FramesOf(u) \in Seq(Frame) /\ FramesOf(hs) \in Seq(Frame)
      /\ WrittenIn(u \o hs) <=> WrittenIn(u)
  BY <1>1, QuietQueue, Zenon
<1>4. FrameIn(Head(strand)) = <<>>
  BY <1>1 DEF FrameIn
<1>5. FramesOf(strand) = FramesOf(u)
  BY <1>1, <1>3, <1>4, ConcatEmptySeq, Zenon
<1>6. Written' <=> WrittenIn(strand')
  BY Zenon DEF Written, WrittenIn
<1>7. Written' <=> Written
  BY <1>1, <1>2, <1>3, <1>6, Zenon
<1>8. QED
  BY <1>2, <1>3, <1>5, <1>7, Posting, Zenon

\* A handler that joins the strand from outside and reports no write brings
\* its frame, if it has one.
LEMMA AppendEffects ==
    ASSUME IInv, NEW x \in Handler, ~(x.h = "HandleWrite" /\ x.ok), strand' = Append(strand, x)
    PROVE  FramesOf(strand') = FramesOf(strand) \o FrameIn(x) /\ (Written' <=> Written)
<1> DEFINE v == <<x>>
<1>1. strand \in Seq(Handler)
  BY DEF IInv, TypeOK
<1>2. v \in Seq(Handler) /\ strand' = strand \o v
  BY <1>1, AppendIsConcat
<1>3. FramesOf(v) = FrameIn(x)
  BY FramesOne
<1>4. ~WrittenIn(v)
  BY DEF WrittenIn
<1> HIDE DEF v
<1>5. FramesOf(strand \o v) = FramesOf(strand) \o FramesOf(v)
  BY <1>1, <1>2, FramesConcat, Zenon
<1>6. WrittenIn(strand \o v) <=> WrittenIn(strand) \/ WrittenIn(v)
  BY <1>1, <1>2, WrittenConcat, Zenon
<1>7. (Written <=> WrittenIn(strand)) /\ (Written' <=> WrittenIn(strand'))
  BY Zenon DEF Written, WrittenIn
<1>8. QED
  BY <1>2, <1>3, <1>4, <1>5, <1>6, <1>7, Zenon

\* It is a step of the pipe.
LEMMA AppendPosts ==
    ASSUME IInv, NEW x \in Handler, ~(x.h = "HandleWrite" /\ x.ok), strand' = Append(strand, x),
           sends' = sends, wire' = wire
    PROVE  Pipe!Post
<1>1. FramesOf(strand') = FramesOf(strand) \o FrameIn(x) /\ (Written' <=> Written)
  BY AppendEffects
<1>2. FrameIn(x) \in Seq(Frame)
  BY FrameInType
<1>3. QED
  BY <1>1, <1>2, Posting, Zenon

\* Nothing a frame depends on has changed.
LEMMA SameSends ==
    ASSUME strand' = strand, sends' = sends
    PROVE  Unwritten' = Unwritten
BY Zenon DEF Unwritten, Written

\* SendMsg moves a frame from the strand to m_pending_sends.
LEMMA SendMsgPipe == ASSUME IInv, SendMsg PROVE Pipe!Post
<1> DEFINE x == Head(strand)
           u == Tail(strand)
           f == Head(strand).frame
           one == <<f>>
           F == FramesOf(u)
<1>1. Runs("SendMsg") /\ strand' = u \o <<>> /\ sends' = Append(sends, f) /\ wire' = wire
  BY DEF SendMsg, Post, peer
<1>2. /\ x \in Handler /\ x.h = "SendMsg" /\ u \in Seq(Handler)
      /\ FramesOf(strand) = FrameIn(x) \o F
      /\ Written <=> WrittenIn(u)
  BY <1>1, RunSplit
<1>3. f \in Frame /\ FrameIn(x) = one
  BY <1>2 DEF Handler, FrameIn
<1>4. one \in Seq(Frame) /\ F \in Seq(Frame) /\ sends \in Seq(Frame)
  <2>1. one \in Seq(Frame)
    BY <1>3
  <2>2. F \in Seq(Frame)
    BY <1>2, FramesType
  <2>3. sends \in Seq(Frame)
    BY DEF IInv, TypeOK
  <2>4. QED
    BY <2>1, <2>2, <2>3, Zenon
<1>5. strand' = u
  BY <1>1, <1>2
<1>6. Front' = Front \o one
  <2>1. Written' <=> Written
    BY <1>2, <1>5, Zenon DEF Written, WrittenIn
  <2>2. CASE Written
    <3>1. sends # <<>>
      BY <2>2, WrittenMeans
    <3>2. Tail(Append(sends, f)) = Tail(sends) \o one
      BY <3>1, <1>3, <1>4
    <3>3. Front' = Tail(sends') /\ Front = Tail(sends)
      BY <2>1, <2>2, Zenon DEF Front
    <3>4. QED
      BY <1>1, <3>2, <3>3, Zenon
  <2>3. CASE ~Written
    <3>1. Append(sends, f) = sends \o one
      BY <1>3, <1>4
    <3>2. Front' = sends' /\ Front = sends
      BY <2>1, <2>3, Zenon DEF Front
    <3>3. QED
      BY <1>1, <3>1, <3>2, Zenon
  <2>4. QED
    BY <2>2, <2>3
<1>7. Front \in Seq(Frame) /\ Unwritten = Front \o FramesOf(strand)
  BY FrontType
<1> HIDE DEF x, u, f, one, F
<1>8. (Front \o one) \o F = Front \o (one \o F)
  BY <1>4, <1>7, FramesAssociative, Zenon
<1>9. Unwritten' = Front' \o FramesOf(strand')
  BY Zenon DEF Unwritten, Front
<1>10. FramesOf(strand') = F
  BY <1>5, Zenon DEF F
<1>11. FramesOf(strand) = one \o F
  BY <1>2, <1>3, Zenon
<1>12. Unwritten' = Unwritten
  BY <1>6, <1>7, <1>8, <1>9, <1>10, <1>11, Zenon
<1>13. QED
  BY <1>1, <1>12, SameOut, Zenon

\* HandleWrite pops the frame that was written already.
LEMMA HandleWriteOkPipe == ASSUME IInv, HandleWriteOk PROVE Pipe!Post
<1> DEFINE x == Head(strand)
           u == Tail(strand)
<1>1. /\ Runs("HandleWrite") /\ x.ok /\ strand' = u \o <<>> /\ Post(<<>>)
      /\ sends' = Tail(sends) /\ wire' = wire
  BY DEF HandleWriteOk, Post, peer
<1>2. /\ x \in Handler /\ x.h = "HandleWrite" /\ u \in Seq(Handler)
      /\ FramesOf(strand) = FrameIn(x) \o FramesOf(u)
      /\ Written
  BY <1>1, RunSplit
<1>3. FrameIn(x) = <<>> /\ FramesOf(u) \in Seq(Frame)
  BY <1>2, FramesType DEF FrameIn
<1>4. strand' = u
  BY <1>1, <1>2
<1>5. FramesOf(strand) = FramesOf(u)
  BY <1>2, <1>3, ConcatEmptySeq, Zenon
<1>6. ~Written'
  <2>1. Queued("HandleWrite")' = Queued("HandleWrite") - 1 /\ Queued("HandleWrite") = 1
    BY <1>1, <1>2, RunPostsNothing, WrittenMeans DEF IInv
  <2>2. CountIn(u, "HandleWrite") = 0
    BY <1>4, <2>1 DEF Queued
  <2>3. ~WrittenIn(u)
    <3>1. ~(0 >= 1)
      OBVIOUS
    <3>2. QED
      BY <1>2, <2>2, <3>1, WrittenCounted, Zenon
  <2>4. QED
    BY <1>4, <2>3, Zenon DEF Written, WrittenIn
<1>7. Front = Tail(sends) /\ Front' = sends'
  BY <1>2, <1>6, Zenon DEF Front
<1>8. Unwritten = Front \o FramesOf(strand) /\ Unwritten' = Front' \o FramesOf(strand')
  BY Zenon DEF Unwritten, Front
<1>9. Unwritten' = Unwritten
  BY <1>1, <1>4, <1>5, <1>7, <1>8, Zenon
<1>10. QED
  BY <1>1, <1>9, SameOut, Zenon

\* async_write takes the frame in front, which still heads m_pending_sends.
LEMMA WriteOkPipe == ASSUME IInv, WriteOk PROVE Pipe!Deliver \/ Pipe!Lose
<1> DEFINE x == Completed("HandleWrite", TRUE, 0)
           v == <<x>>
           F == FramesOf(strand)
<1>1. /\ live["write"] > 0 /\ strand' = Append(strand, x) /\ sends' = sends
      /\ wire' = (IF sock = "up" THEN Append(wire, Head(sends)) ELSE wire)
  BY DEF WriteOk, Finished, Complete, HandlerOf
<1>2. x \in Handler /\ x.h = "HandleWrite" /\ x.ok /\ strand \in Seq(Handler) /\ sends \in Seq(Frame)
  BY HandlerShape DEF IInv, TypeOK, Completed
<1> HIDE DEF x
<1>3. ~Written /\ sends # <<>>
  <2>1. live["write"] \in Nat /\ live["write"] # 0
    BY <1>1, IInvNumbers
  <2>2. Pending("write") # 0
    <3>1. doomed["write"] \in Nat /\ Queued("HandleWrite") \in Nat
      BY IInvNumbers
    <3>2. QED
      BY <2>1, <3>1, PendingIs
  <2>3. QED
    BY <2>1, <2>2, WrittenMeans DEF IInv, OneTransferEach
<1>4. v \in Seq(Handler) /\ strand' = strand \o v
  BY <1>1, <1>2, AppendIsConcat
<1>5. FramesOf(v) = <<>> /\ WrittenIn(v)
  <2>1. FramesOf(v) = FrameIn(x)
    BY <1>2, FramesOne
  <2>2. FrameIn(x) = <<>>
    BY <1>2 DEF FrameIn
  <2>3. 1 \in DOMAIN v /\ v[1] = x
    OBVIOUS
  <2>4. WrittenIn(v)
    BY <1>2, <2>3, Zenon DEF WrittenIn
  <2>5. QED
    BY <2>1, <2>2, <2>4, Zenon
<1>6. F \in Seq(Frame)
  BY <1>2, FramesType
<1> HIDE DEF v, F
<1>7. FramesOf(strand \o v) = F \o <<>>
  BY <1>2, <1>4, <1>5, FramesConcat, Zenon DEF F
<1>8. FramesOf(strand') = F
  BY <1>4, <1>6, <1>7, ConcatEmptySeq, Zenon
<1>9. Written'
  <2>1. WrittenIn(strand \o v)
    BY <1>2, <1>4, <1>5, WrittenConcat, Zenon
  <2>2. QED
    BY <1>4, <2>1, Zenon DEF Written, WrittenIn
<1>10. Unwritten = sends \o F /\ Unwritten' = Tail(sends) \o F
  <2>1. Front = sends /\ Front' = Tail(sends)
    BY <1>1, <1>3, <1>9, Zenon DEF Front
  <2>2. Unwritten = Front \o FramesOf(strand) /\ Unwritten' = Front' \o FramesOf(strand')
    BY Zenon DEF Unwritten, Front
  <2>3. QED
    BY <1>8, <2>1, <2>2, Zenon DEF F
<1>11. /\ sends \o F # <<>> /\ Head(sends \o F) = Head(sends)
       /\ Tail(sends \o F) = Tail(sends) \o F
  BY <1>2, <1>3, <1>6
<1>12. Unwritten # <<>> /\ Unwritten' = Tail(Unwritten) /\ Head(Unwritten) = Head(sends)
  BY <1>10, <1>11, Zenon
<1>13. CASE sock = "up"
  BY <1>1, <1>12, <1>13, Zenon DEF Pipe!Deliver
<1>14. CASE sock # "up"
  BY <1>1, <1>12, <1>14, Zenon DEF Pipe!Lose
<1>15. QED
  BY <1>13, <1>14

\* The handlers OnConnect posts: a frame or two, and the first receive.
LEMMA ConnectPosts ==
    ASSUME IInv, OnConnect, Head(strand).ok /\ sock # "closed"
    PROVE  \E hs \in Seq(Handler) : CountIn(hs, "HandleWrite") = 0 /\ Post(hs)
<1> DEFINE header == [conn |-> conn + 1, hdr |-> TRUE, n |-> posted + 1]
           frames == <<header>> \o Farewell
           sent   == [i \in DOMAIN frames |-> SendCall(frames[i])]
           last   == <<Call("DispatchRecv")>>
<1>1. Post(sent \o last)
  BY DEF OnConnect
<1>2. frames \in Seq(Frame)
  <2>1. header \in Frame /\ [conn |-> conn, hdr |-> FALSE, n |-> posted + 2] \in Frame
    BY DEF IInv, TypeOK, Frame
  <2>2. Farewell \in Seq(Frame) /\ <<header>> \in Seq(Frame)
    BY <2>1 DEF Farewell
  <2>3. QED
    BY <2>2
<1> HIDE DEF frames
<1>3. sent \in Seq(Handler) /\ \A i \in DOMAIN sent : sent[i].h # "HandleWrite"
  <2>1. \A i \in DOMAIN frames : frames[i] \in Frame
    BY <1>2
  <2>2. DOMAIN frames = 1..Len(frames) /\ Len(frames) \in Nat
    BY <1>2, LenProperties
  <2>3. \A i \in DOMAIN frames : SendCall(frames[i]) \in Handler /\ SendCall(frames[i]).h = "SendMsg"
    BY <2>1, HandlerShape
  <2>4. QED
    BY <2>2, <2>3
<1>4. last \in Seq(Handler) /\ CountIn(last, "HandleWrite") = 0
  BY HandlerShape, CountOne
<1> HIDE DEF sent, last
<1>5. CountIn(sent, "HandleWrite") = 0
  BY <1>3, CountNone
<1>6. CountIn(sent \o last, "HandleWrite") = CountIn(sent, "HandleWrite") + CountIn(last, "HandleWrite")
  BY <1>3, <1>4, CountConcat, Zenon
<1>7. sent \o last \in Seq(Handler)
  BY <1>3, <1>4
<1>8. CountIn(sent \o last, "HandleWrite") = 0
  BY <1>4, <1>5, <1>6
<1>9. QED
  BY <1>1, <1>7, <1>8

\* The handlers HandleRecv posts: an answer of the login, and the next receive.
LEMMA ReceivePosts ==
    ASSUME IInv, HandleRecvOk
    PROVE  \E hs \in Seq(Handler) : CountIn(hs, "HandleWrite") = 0 /\ Post(hs)
<1> DEFINE answers == IF Advances /\ login + 1 < Rounds THEN Answer ELSE <<>>
           again   == IF recvs > 1 THEN <<>> ELSE <<Call("DispatchRecv")>>
<1>1. Post(answers \o again)
  BY DEF HandleRecvOk
<1>2. <<>> \in Seq(Handler) /\ CountIn(<<>>, "HandleWrite") = 0
  BY CountNone
<1>3. answers \in Seq(Handler) /\ CountIn(answers, "HandleWrite") = 0
  <2> DEFINE x == SendCall([conn |-> conn, hdr |-> FALSE, n |-> posted + 1])
  <2>1. [conn |-> conn, hdr |-> FALSE, n |-> posted + 1] \in Frame
    BY DEF IInv, TypeOK, Frame
  <2>2. x \in Handler /\ x.h = "SendMsg"
    BY <2>1, HandlerShape
  <2>3. Answer = <<x>>
    BY DEF Answer
  <2> HIDE DEF x
  <2>4. Answer \in Seq(Handler) /\ CountIn(Answer, "HandleWrite") = 0
    BY <2>2, <2>3, CountOne
  <2>5. answers = Answer \/ answers = <<>>
    OBVIOUS
  <2> HIDE DEF answers
  <2>6. QED
    BY <1>2, <2>4, <2>5, Zenon
<1>4. again \in Seq(Handler) /\ CountIn(again, "HandleWrite") = 0
  <2>1. <<Call("DispatchRecv")>> \in Seq(Handler) /\ CountIn(<<Call("DispatchRecv")>>, "HandleWrite") = 0
    BY HandlerShape, CountOne
  <2>2. again = <<Call("DispatchRecv")>> \/ again = <<>>
    OBVIOUS
  <2> HIDE DEF again
  <2>3. QED
    BY <1>2, <2>1, <2>2, Zenon
<1> HIDE DEF answers, again
<1>5. CountIn(answers \o again, "HandleWrite") = CountIn(answers, "HandleWrite") + CountIn(again, "HandleWrite")
  BY <1>3, <1>4, CountConcat, Zenon
<1>6. answers \o again \in Seq(Handler) /\ CountIn(answers \o again, "HandleWrite") = 0
  BY <1>3, <1>4, <1>5
<1>7. QED
  BY <1>1, <1>6

\* Every handler of the worker posts frames, moves one or pops one.
LEMMA WorkerPipe == ASSUME IInv, Worker PROVE Pipe!Post
<1>1. <<>> \in Seq(Handler) /\ CountIn(<<>>, "HandleWrite") = 0
  BY CountNone
<1>2. /\ <<Call("DispatchRecv")>> \in Seq(Handler) /\ CountIn(<<Call("DispatchRecv")>>, "HandleWrite") = 0
      /\ <<Call("StartCloseSocket")>> \in Seq(Handler)
      /\ CountIn(<<Call("StartCloseSocket")>>, "HandleWrite") = 0
  BY HandlerShape, CountOne
<1>3. CASE OnConnect
  <2>1. PICK hs \in Seq(Handler) : CountIn(hs, "HandleWrite") = 0 /\ Post(hs)
    <3>1. CASE Head(strand).ok /\ sock # "closed"
      BY <1>3, <3>1, ConnectPosts
    <3>2. CASE ~(Head(strand).ok /\ sock # "closed")
      BY <1>1, <1>3, <3>2 DEF OnConnect
    <3>3. QED
      BY <3>1, <3>2
  <2>2. Runs("OnConnect") /\ sends' = sends /\ wire' = wire
    BY <1>3 DEF OnConnect, peer
  <2>3. QED
    BY <2>1, <2>2, RunPosts
<1>4. CASE DispatchRecv
  <2>1. Runs("DispatchRecv") /\ Post(<<>>) /\ sends' = sends /\ wire' = wire
    BY <1>4 DEF DispatchRecv, peer
  <2>2. QED
    BY <1>1, <2>1, RunPosts
<1>5. CASE HandleRecvOk
  <2>1. Runs("HandleRecv") /\ sends' = sends /\ wire' = wire
    BY <1>5 DEF HandleRecvOk, peer
  <2>2. PICK hs \in Seq(Handler) : CountIn(hs, "HandleWrite") = 0 /\ Post(hs)
    BY <1>5, ReceivePosts
  <2>3. QED
    BY <2>1, <2>2, RunPosts
<1>6. CASE HandleRecvErr
  <2>1. /\ Runs("HandleRecv") /\ Post(<<Call("StartCloseSocket")>>)
        /\ sends' = sends /\ wire' = wire
    BY <1>6 DEF HandleRecvErr, FailAndReconnect, peer
  <2>2. QED
    BY <1>2, <2>1, RunPosts
<1>7. CASE HandleWriteErr
  <2>1. /\ Runs("HandleWrite") /\ ~Head(strand).ok /\ Post(<<Call("StartCloseSocket")>>)
        /\ sends' = sends /\ wire' = wire
    BY <1>7 DEF HandleWriteErr, FailAndReconnect, peer
  <2>2. QED
    BY <1>2, <2>1, RunPosts
<1>8. CASE StartCloseSocket
  <2>1. Runs("StartCloseSocket") /\ Post(<<>>) /\ sends' = sends /\ wire' = wire
    BY <1>8 DEF StartCloseSocket, peer
  <2>2. QED
    BY <1>1, <2>1, RunPosts
<1>9. QED
  BY <1>3, <1>4, <1>5, <1>6, <1>7, <1>8, SendMsgPipe, HandleWriteOkPipe DEF Worker

\* Completions but a write's leave the pipe alone, or start a new link.
LEMMA ReactorPipe == ASSUME IInv, Reactor PROVE Pipe!Next
<1>1. ASSUME NEW k \in Kind, NEW ok \in BOOLEAN, NEW c \in Nat, Complete(k, ok, c),
             ~(k = "write" /\ ok), sends' = sends, wire' = wire
      PROVE  Pipe!Post
  <2>1. HandlerOf[k] \in {"OnConnect", "HandleRecv", "HandleWrite"}
    BY DEF Kind, HandlerOf
  <2>2. Completed(HandlerOf[k], ok, c) \in Handler /\ Completed(HandlerOf[k], ok, c).h = HandlerOf[k]
    BY <2>1, HandlerShape
  <2>3. Completed(HandlerOf[k], ok, c).ok = ok
    BY DEF Completed
  <2>4. HandlerOf[k] = "HandleWrite" => k = "write"
    BY DEF Kind, HandlerOf
  <2>5. strand' = Append(strand, Completed(HandlerOf[k], ok, c))
    BY <1>1 DEF Complete
  <2>6. QED
    BY <1>1, <2>2, <2>3, <2>4, <2>5, AppendPosts
<1>2. ASSUME NEW k \in Kind, ReportError(k) PROVE Pipe!Post
  BY <1>1, <1>2 DEF ReportError, peer
<1>3. CASE ConnectOk
  <2> DEFINE x == Completed("OnConnect", TRUE, 0)
  <2>1. strand' = Append(strand, x) /\ sends' = sends /\ wire' = <<>>
    BY <1>3 DEF ConnectOk, Finished, Complete, HandlerOf
  <2>2. x \in Handler /\ x.h = "OnConnect"
    BY HandlerShape
  <2> HIDE DEF x
  <2>3. FramesOf(strand') = FramesOf(strand) \o FrameIn(x) /\ (Written' <=> Written)
    BY <2>1, <2>2, AppendEffects
  <2>4. Unwritten' = Unwritten
    <3>1. FrameIn(x) = <<>>
      BY <2>2 DEF FrameIn
    <3>2. FramesOf(strand) \in Seq(Frame)
      BY FramesType DEF IInv, TypeOK
    <3>3. FramesOf(strand') = FramesOf(strand)
      BY <2>3, <3>1, <3>2, ConcatEmptySeq, Zenon
    <3>4. Front' = Front
      BY <2>1, <2>3, Zenon DEF Front
    <3>5. Unwritten = Front \o FramesOf(strand) /\ Unwritten' = Front' \o FramesOf(strand')
      BY Zenon DEF Unwritten, Front
    <3>6. QED
      BY <3>3, <3>4, <3>5, Zenon
  <2>5. QED
    BY <2>1, <2>4, Zenon DEF Pipe!NewLink, Pipe!Next
<1>4. CASE ConnectErr
  <2>1. Complete("connect", FALSE, 0) /\ sends' = sends /\ wire' = wire
    BY <1>4 DEF ConnectErr, Finished
  <2>2. Pipe!Post
    BY <1>1, <2>1 DEF Kind
  <2>3. QED
    BY <2>2 DEF Pipe!Next
<1>5. CASE ReadOk
  <2>1. Complete("read", TRUE, wire[1].conn) /\ sends' = sends /\ wire' = wire
    BY <1>5 DEF ReadOk, Finished
  <2>2. wire[1].conn \in Nat
    <3>1. wire \in Seq(Frame) /\ wire # <<>>
      BY <1>5 DEF ReadOk, IInv, TypeOK
    <3>2. wire[1] \in Frame
      BY <3>1
    <3>3. QED
      BY <3>2 DEF Frame
  <2>3. Pipe!Post
    BY <1>1, <2>1, <2>2 DEF Kind
  <2>4. QED
    BY <2>3 DEF Pipe!Next
<1>6. CASE WriteOk
  BY <1>6, WriteOkPipe DEF Pipe!Next
<1>7. ASSUME NEW k \in {"read", "write"}, TransferErr(k) PROVE Pipe!Post
  BY <1>1, <1>7 DEF TransferErr, Finished, Kind
<1>8. QED
  BY <1>2, <1>3, <1>4, <1>5, <1>6, <1>7 DEF Reactor, Pipe!Next

\* The user thread posts frames, or does nothing to them.
LEMMA UserPipe == ASSUME IInv, User PROVE [Pipe!Next]_(Pipe!vars)
<1>1. CASE GetConnection \/ FinitStop
  <2>1. strand' = strand /\ sends' = sends /\ wire' = wire
    BY <1>1 DEF GetConnection, FinitStop, peer
  <2>2. QED
    BY <2>1, SameSends DEF Pipe!vars
<1>2. CASE SendData
  <2> DEFINE x == SendCall([conn |-> usr, hdr |-> FALSE, n |-> posted + 1])
  <2>1. x \in Handler /\ x.h = "SendMsg"
    <3>1. [conn |-> usr, hdr |-> FALSE, n |-> posted + 1] \in Frame
      BY DEF IInv, TypeOK, Frame
    <3>2. QED
      BY <3>1, HandlerShape
  <2>2. strand' = Append(strand, x) /\ sends' = sends /\ wire' = wire
    BY <1>2 DEF SendData, peer
  <2> HIDE DEF x
  <2>3. Pipe!Post
    BY <2>1, <2>2, AppendPosts
  <2>4. QED
    BY <2>3 DEF Pipe!Next
<1>3. CASE FinitClose
  <2> DEFINE x == Call("StartCloseSocket")
  <2>1. x \in Handler /\ x.h = "StartCloseSocket"
    BY HandlerShape
  <2>2. strand' = Append(strand, x) /\ sends' = sends /\ wire' = wire
    BY <1>3 DEF FinitClose, peer
  <2> HIDE DEF x
  <2>3. Pipe!Post
    BY <2>1, <2>2, AppendPosts
  <2>4. QED
    BY <2>3 DEF Pipe!Next
<1>4. QED
  BY <1>1, <1>2, <1>3 DEF User

\* Nothing is to be written when the program starts.
LEMMA PipeInit == Init => Pipe!Init
<1> SUFFICES ASSUME Init PROVE Pipe!Init
  OBVIOUS
<1>1. strand = <<>> /\ sends = <<>> /\ wire = <<>>
  BY DEF Init
<1>2. ~Written
  BY <1>1 DEF Written
<1>3. FramesOf(strand) = <<>>
  BY <1>1, FramesEmpty
<1>4. Unwritten = <<>>
  BY <1>1, <1>2, <1>3 DEF Unwritten
<1>5. QED
  BY <1>1, <1>4, Zenon DEF Pipe!Init

\* Every step of TcpMgr is a step of the pipe or leaves it alone.
LEMMA PipeStep == IInv /\ [Next]_vars => [Pipe!Next]_(Pipe!vars)
<1> SUFFICES ASSUME IInv, [Next]_vars PROVE [Pipe!Next]_(Pipe!vars)
  OBVIOUS
<1>1. CASE Worker
  BY <1>1, WorkerPipe DEF Pipe!Next
<1>2. CASE Reactor
  BY <1>2, ReactorPipe
<1>3. CASE User
  BY <1>3, UserPipe
<1>4. CASE LinkDown \/ UNCHANGED vars
  <2>1. strand' = strand /\ sends' = sends /\ wire' = wire
    BY <1>4 DEF LinkDown, vars, peer
  <2>2. QED
    BY <2>1, SameSends DEF Pipe!vars
<1>5. QED
  BY <1>1, <1>2, <1>3, <1>4 DEF Next, Stopped

\* The frames given to SendData leave in order, once, whatever links fail when.
THEOREM ImplementsPipe == Spec => IsPipe
BY PipeInit, PipeStep, Invariance, PTL DEF Spec, IsPipe, Pipe!Spec
=============================================================================
