--------------------------- MODULE MqSessionProofs ---------------------------
(***************************************************************************)
(* Theorems about the session of RmqMgr, for any number of messages,       *)
(* refusals and channels: its types, no channel is left open behind the    *)
(* two that are held, consumers are on m_channel, a channel that is ready  *)
(* is noticed, deliveries are acknowledged on the channel they came from,  *)
(* the status that the user was told is the truth, and the program settles *)
(* only when it consumes.                                                  *)
(***************************************************************************)
EXTENDS MqSession, SequenceTheorems, FiniteSetTheorems, TLAPS

-----------------------------------------------------------------------------
(* The inductive invariant *)

Roles == {"main", "pub"}
States == {"connected", "ready", "closing", "closed"}
Todos == SetupOps \cup {"close"}
Calls == {"ready", "error", "puberror"}
Answer == {"open-ok", "refused", "closed"}
Pcs == {"login", "failed", "registering", "checking", "storing", "started", "releasing",
        "closing", "stopped", "crashed"}

Chan == [role : Roles, st : States, ready : BOOLEAN, req : Seq(Ops), todo : Seq(Todos)]

Cb == [cb : Calls, ch : Nat]

Frame == [ch : Nat, ans : Answer] \cup [ch : Nat, ans : {"deliver"}, msg : Nat]

Has(s, op) == \E i \in 1..Len(s) : s[i] = op

\* The queue that channel c means exists, to broker b.
Declared(b, c) == IF ServerNamed THEN c \in DOMAIN b.last ELSE b.queues # <<>>

\* What is consumed has been declared, by then.
Declares(s, c, b) ==
    Declared(b, c) \/ \A i \in 1..Len(s) : s[i] = "consume" => \E j \in 1..(i - 1) : s[j] = "queue"

Consumes(b, c) == \E x \in b.consumers : x[1] = c

\* The record r of channel c, where m and p are m_channel and m_channelPub.  Only
\* these are usable; one that the program has closed, the broker has closed or will;
\* and only m consumes, or one that will be closed.
Fine(r, c, m, p, b) ==
    /\ r \in Chan
    /\ r.st \in {"connected", "ready"} => c \in {m, p}
    /\ r.st = "closed" => c \in b.closed
    /\ r.st = "closing" => c \in b.closed \/ Has(r.req, "close")
    /\ Declares(r.req, c, b)
    /\ c \notin b.closed /\ (Has(r.req, "consume") \/ Consumes(b, c)) => c = m \/ Has(r.req, "close")

Client(cs, m, p, b) ==
    /\ cs \in Seq(Chan)
    /\ m \in 0..Len(cs) /\ p \in 0..Len(cs)
    /\ \A c \in 1..Len(cs) : Fine(cs[c], c, m, p, b)

BrokerFields ==
    {"exchange", "queues", "last", "bound", "consumers", "closed", "refusals", "routed", "lost"}

\* The broker b, when there are n channels.
Serving(b, n) ==
    /\ DOMAIN b = BrokerFields
    /\ b.routed \in Nat /\ b.refusals \in 0..MaxRefusals
    /\ b.queues \in Seq(Seq(1..b.routed))
    /\ \A c \in DOMAIN b.last : b.last[c] \in 1..Len(b.queues)
    /\ \A x \in b.consumers : x[1] \in (1..n) \ b.closed /\ x[2] \in 1..Len(b.queues)

\* A frame f that the broker b has sent to one of n channels.
Sent(f, n, b) ==
    /\ f.ch \in 1..n
    /\ f.ans \in {"refused", "closed"} => f.ch \in b.closed
    /\ f.ans = "deliver" => f.msg \in 1..b.routed

Frames(s, n, b) == s \in Seq(Frame) /\ \A i \in 1..Len(s) : Sent(s[i], n, b)

Callbacks(s, n) == s \in Seq(Cb) /\ \A i \in 1..Len(s) : s[i].ch \in 1..n

Control ==
    /\ pc \in Pcs /\ login \in BOOLEAN /\ connOpen \in BOOLEAN /\ status \in BOOLEAN
    /\ pubs \in 0..MaxPubs
    /\ received \subseteq 1..broker.routed
    /\ IF pc \in {"login", "failed"} THEN Len(chan) = 0 ELSE main # 0

IInv ==
    /\ Control
    /\ Client(chan, main, pub, broker)
    /\ Serving(broker, Len(chan))
    /\ Frames(inbox, Len(chan), broker)
    /\ Callbacks(cbs, Len(chan))

-----------------------------------------------------------------------------
(* Sequences of requests *)

LEMMA HasAppend ==
    ASSUME NEW S, NEW s \in Seq(S), NEW x \in S, NEW op
    PROVE  Has(Append(s, x), op) <=> Has(s, op) \/ x = op
<1> DEFINE L == Len(s)
           t == Append(s, x)
<1>1. L \in Nat /\ Len(t) = L + 1 /\ t[L + 1] = x /\ \A i \in 1..L : t[i] = s[i]
  BY AppendProperties, LenProperties
<1> HIDE DEF t, L
<1>2. L + 1 \in 1..(L + 1) /\ \A i \in 1..(L + 1) : i = L + 1 \/ i \in 1..L
  BY <1>1
<1>3. \A i \in 1..L : i \in 1..(L + 1)
  BY <1>1
<1>4. QED
  BY <1>1, <1>2, <1>3, Zenon DEF Has, L, t

LEMMA HasConcat ==
    ASSUME NEW S, NEW s \in Seq(S), NEW t \in Seq(S), NEW op
    PROVE  Has(s \o t, op) <=> Has(s, op) \/ Has(t, op)
<1> DEFINE L == Len(s)
           M == Len(t)
           u == s \o t
<1>1. /\ L \in Nat /\ M \in Nat /\ Len(u) = L + M
      /\ \A i \in 1..(L + M) : u[i] = IF i <= L THEN s[i] ELSE t[i - L]
  BY ConcatProperties, LenProperties
<1> HIDE DEF u, L, M
<1>2. \A i \in 1..L : i \in 1..(L + M) /\ u[i] = s[i]
  BY <1>1
<1>3. \A i \in 1..M : L + i \in 1..(L + M) /\ u[L + i] = t[i]
  BY <1>1
<1>4. ASSUME NEW i \in 1..(L + M)
      PROVE  \/ i \in 1..L /\ u[i] = s[i]
             \/ i - L \in 1..M /\ u[i] = t[i - L]
  <2>1. L \in Nat /\ M \in Nat /\ u[i] = IF i <= L THEN s[i] ELSE t[i - L]
    BY <1>1
  <2>2. QED
    BY <2>1
<1>5. QED
  BY <1>1, <1>2, <1>3, <1>4, Zenon DEF Has, L, M, u

LEMMA HasTail ==
    ASSUME NEW S, NEW s \in Seq(S), s # <<>>, NEW op
    PROVE  /\ Has(Tail(s), op) => Has(s, op)
           /\ Has(s, op) /\ Head(s) # op => Has(Tail(s), op)
<1> DEFINE L == Len(s)
           t == Tail(s)
<1>1. L \in Nat \ {0} /\ Head(s) = s[1]
  BY EmptySeq
<1>2. Len(t) = L - 1 /\ \A i \in 1..Len(t) : t[i] = s[i + 1]
  BY HeadTailProperties
<1> HIDE DEF t, L
<1>3. \A i \in 1..(L - 1) : i + 1 \in 1..L
  BY <1>1
<1>4. \A i \in 1..L : i = 1 \/ (i - 1 \in 1..(L - 1) /\ (i - 1) + 1 = i)
  BY <1>1
<1>5. ASSUME Has(t, op) PROVE Has(s, op)
  BY <1>2, <1>3, <1>5, Zenon DEF Has, L
<1>6. ASSUME Has(s, op), s[1] # op PROVE Has(t, op)
  <2>1. PICK i \in 1..L : s[i] = op
    BY <1>6, Zenon DEF Has, L
  <2>2. i - 1 \in 1..(L - 1) /\ (i - 1) + 1 = i
    BY <1>4, <1>6, <2>1
  <2>3. t[i - 1] = op
    BY <1>2, <2>1, <2>2, Zenon
  <2>4. QED
    BY <1>2, <2>2, <2>3, Zenon DEF Has
<1>7. QED
  BY <1>1, <1>5, <1>6, Zenon DEF t

LEMMA HasEmpty == \A op : ~Has(<<>>, op)
BY DEF Has

\* A request that is not for consuming is added.
LEMMA DeclaresAppend ==
    ASSUME NEW S, NEW s \in Seq(S), NEW x \in S, x # "consume", NEW c, NEW b, Declares(s, c, b)
    PROVE  Declares(Append(s, x), c, b)
<1> DEFINE L == Len(s)
           t == Append(s, x)
<1>1. L \in Nat /\ Len(t) = L + 1 /\ t[L + 1] = x /\ \A i \in 1..L : t[i] = s[i]
  BY AppendProperties, LenProperties
<1>2. SUFFICES ASSUME \A i \in 1..L : s[i] = "consume" => \E j \in 1..(i - 1) : s[j] = "queue",
                      NEW i \in 1..(L + 1), t[i] = "consume"
               PROVE  \E j \in 1..(i - 1) : t[j] = "queue"
  BY <1>1, Zenon DEF Declares
<1> HIDE DEF t, L
<1>3. i \in 1..L
  BY <1>1, <1>2
<1>4. PICK j \in 1..(i - 1) : s[j] = "queue"
  BY <1>1, <1>2, <1>3
<1>5. j \in 1..L
  BY <1>1, <1>3, <1>4
<1>6. QED
  BY <1>1, <1>4, <1>5

\* The requests of ChannelOkCb are added, or all but the first.
LEMMA DeclaresSetup ==
    ASSUME NEW S, NEW s \in Seq(S), NEW ops \in {Setup, Tail(Setup)}, ops \in Seq(S),
           NEW c, NEW b, Declares(s, c, b)
    PROVE  Declares(s \o ops, c, b)
<1> DEFINE L == Len(s)
           M == Len(ops)
           u == s \o ops
<1>1. /\ L \in Nat /\ M \in Nat /\ Len(u) = L + M
      /\ \A i \in 1..(L + M) : u[i] = IF i <= L THEN s[i] ELSE ops[i - L]
  BY ConcatProperties, LenProperties
<1>2. \A i \in 1..M : ops[i] = "consume" => \E j \in 1..(i - 1) : ops[j] = "queue"
  <2>1. CASE ops = Setup
    BY <2>1 DEF Setup
  <2>2. CASE ops = Tail(Setup)
    <3>1. ops = <<"queue", "bind", "consume">>
      BY <2>2 DEF Setup
    <3>2. QED
      BY <3>1
  <2>3. QED
    BY <2>1, <2>2
<1>3. SUFFICES ASSUME \A i \in 1..L : s[i] = "consume" => \E j \in 1..(i - 1) : s[j] = "queue",
                      NEW i \in 1..(L + M), u[i] = "consume"
               PROVE  \E j \in 1..(i - 1) : u[j] = "queue"
  BY <1>1, Zenon DEF Declares
<1> HIDE DEF u, L, M
<1>4. CASE i \in 1..L
  <2>1. s[i] = "consume"
    BY <1>1, <1>3, <1>4
  <2>2. PICK j \in 1..(i - 1) : s[j] = "queue"
    BY <1>3, <1>4, <2>1
  <2>3. j \in 1..(L + M) /\ j <= L
    BY <1>1, <1>4
  <2>4. QED
    BY <1>1, <2>2, <2>3
<1>5. CASE i \notin 1..L
  <2>1. i - L \in 1..M /\ ops[i - L] = "consume"
    BY <1>1, <1>3, <1>5
  <2>2. PICK j \in 1..((i - L) - 1) : ops[j] = "queue"
    BY <1>2, <2>1
  <2>3. L + j \in 1..(i - 1) /\ L + j \in 1..(L + M) /\ ~(L + j <= L) /\ (L + j) - L = j
    BY <1>1, <2>1
  <2>4. u[L + j] = "queue"
    BY <1>1, <2>2, <2>3
  <2>5. QED
    BY <2>3, <2>4
<1>6. QED
  BY <1>4, <1>5

\* The first request is served.
LEMMA DeclaresTail ==
    ASSUME NEW S, NEW s \in Seq(S), s # <<>>, NEW c, NEW b, Declares(s, c, b),
           NEW d, Declared(b, c) \/ Head(s) = "queue" => Declared(d, c)
    PROVE  Declares(Tail(s), c, d)
<1> DEFINE L == Len(s)
           t == Tail(s)
<1>1. L \in Nat \ {0} /\ Head(s) = s[1] /\ Len(t) = L - 1
  BY EmptySeq, HeadTailProperties
<1>2. \A i \in 1..(L - 1) : t[i] = s[i + 1]
  BY <1>1, HeadTailProperties
<1>3. CASE Declared(d, c)
  BY <1>3, Zenon DEF Declares
<1>4. CASE ~Declared(d, c)
  <2>1. \A i \in 1..L : s[i] = "consume" => \E j \in 1..(i - 1) : s[j] = "queue"
    BY <1>4, Zenon DEF Declares
  <2>2. s[1] # "queue"
    BY <1>1, <1>4
  <2> HIDE DEF t, L
  <2>3. ASSUME NEW i \in 1..(L - 1), t[i] = "consume" PROVE \E j \in 1..(i - 1) : t[j] = "queue"
    <3>1. i + 1 \in 1..L /\ s[i + 1] = "consume"
      BY <1>1, <1>2, <2>3
    <3>2. PICK k \in 1..((i + 1) - 1) : s[k] = "queue"
      BY <2>1, <3>1
    <3>3. k # 1
      BY <2>2, <3>2
    <3>4. k - 1 \in 1..(i - 1) /\ k - 1 \in 1..(L - 1) /\ (k - 1) + 1 = k
      BY <1>1, <3>1, <3>3
    <3>5. QED
      BY <1>2, <3>2, <3>4
  <2>4. QED
    BY <1>1, <2>3, Zenon DEF Declares, t
<1>5. QED
  BY <1>3, <1>4

-----------------------------------------------------------------------------
(* Channels *)

LEMMA ChanFields ==
    ASSUME NEW r \in Chan
    PROVE  /\ r.role \in Roles /\ r.st \in States /\ r.ready \in BOOLEAN
           /\ r.req \in Seq(Ops) /\ r.todo \in Seq(Todos)
BY DEF Chan

\* What the steps make of the record of a channel.
LEMMA ReqWith ==
    ASSUME NEW r \in Chan, NEW req \in Seq(Ops)
    PROVE  /\ [r EXCEPT !.req = req] \in Chan
           /\ [r EXCEPT !.req = req].st = r.st /\ [r EXCEPT !.req = req].req = req
BY DEF Chan

LEMMA TodoWith ==
    ASSUME NEW r \in Chan, NEW todo \in Seq(Todos)
    PROVE  /\ [r EXCEPT !.todo = todo] \in Chan
           /\ [r EXCEPT !.todo = todo].st = r.st /\ [r EXCEPT !.todo = todo].req = r.req
BY DEF Chan

LEMMA StateWith ==
    ASSUME NEW r \in Chan, NEW st \in States
    PROVE  /\ [r EXCEPT !.st = st] \in Chan
           /\ [r EXCEPT !.st = st].st = st /\ [r EXCEPT !.st = st].req = r.req
BY DEF Chan

LEMMA ReadyWith ==
    ASSUME NEW r \in Chan
    PROVE  /\ [r EXCEPT !.ready = TRUE] \in Chan
           /\ [r EXCEPT !.ready = TRUE].st = r.st /\ [r EXCEPT !.ready = TRUE].req = r.req
BY DEF Chan

LEMMA ElementIsFine ==
    ASSUME NEW cs, NEW m, NEW p, NEW b, Client(cs, m, p, b), NEW c \in 1..Len(cs)
    PROVE  /\ cs \in Seq(Chan) /\ Len(cs) \in Nat /\ DOMAIN cs = 1..Len(cs)
           /\ Fine(cs[c], c, m, p, b) /\ cs[c] \in Chan
<1>1. cs \in Seq(Chan) /\ Fine(cs[c], c, m, p, b)
  BY Zenon DEF Client
<1>2. QED
  BY <1>1, LenProperties, Zenon DEF Fine

\* One channel changes.
LEMMA ClientWith ==
    ASSUME NEW cs, NEW m, NEW p, NEW b, Client(cs, m, p, b), NEW c \in 1..Len(cs), NEW x,
           Fine(x, c, m, p, b)
    PROVE  Client([cs EXCEPT ![c] = x], m, p, b) /\ Len([cs EXCEPT ![c] = x]) = Len(cs)
<1>1. cs \in Seq(Chan) /\ x \in Chan
  BY Zenon DEF Client, Fine
<1>2. /\ [cs EXCEPT ![c] = x] \in Seq(Chan) /\ Len([cs EXCEPT ![c] = x]) = Len(cs)
      /\ \A d \in 1..Len(cs) : [cs EXCEPT ![c] = x][d] = IF d = c THEN x ELSE cs[d]
  BY <1>1, ExceptSeq
<1>3. ASSUME NEW d \in 1..Len(cs) PROVE Fine([cs EXCEPT ![c] = x][d], d, m, p, b)
  <2>1. Fine(cs[d], d, m, p, b)
    BY Zenon DEF Client
  <2>2. CASE d = c
    <3>1. [cs EXCEPT ![c] = x][d] = x
      BY <1>2, <2>2
    <3>2. QED
      BY <2>2, <3>1, Zenon
  <2>3. CASE d # c
    <3>1. [cs EXCEPT ![c] = x][d] = cs[d]
      BY <1>2, <2>3
    <3>2. QED
      BY <2>1, <3>1, Zenon
  <2>4. QED
    BY <2>2, <2>3
<1>4. QED
  BY <1>2, <1>3, Zenon DEF Client

\* What may become of a channel without harm.
LEMMA FineFrom ==
    ASSUME NEW r, NEW c, NEW m, NEW p, NEW b, Fine(r, c, m, p, b), NEW x \in Chan,
           x.st \in {"connected", "ready"} => r.st \in {"connected", "ready"},
           x.st = "closed" => r.st = "closed" \/ c \in b.closed,
           x.st = "closing" => r.st = "closing" \/ Has(x.req, "close"),
           Has(r.req, "close") => Has(x.req, "close"),
           Declares(r.req, c, b) => Declares(x.req, c, b),
           Has(x.req, "consume") => Has(r.req, "consume") \/ c = m \/ Has(x.req, "close")
    PROVE  Fine(x, c, m, p, b)
BY Zenon DEF Fine

\* send(): a request that closes or consumes nothing.
LEMMA SendClient ==
    ASSUME NEW cs, NEW m, NEW p, NEW b, Client(cs, m, p, b), NEW c \in 0..Len(cs),
           NEW op \in Ops, op \notin {"close", "consume"}
    PROVE  Client(Send(cs, c, op), m, p, b) /\ Len(Send(cs, c, op)) = Len(cs)
<1>1. CASE c \in 1..Len(cs) /\ cs[c].st \in {"connected", "ready"}
  <2> DEFINE r == cs[c]
             x == [r EXCEPT !.req = Append(r.req, op)]
  <2>1. cs \in Seq(Chan) /\ DOMAIN cs = 1..Len(cs) /\ Fine(r, c, m, p, b) /\ r \in Chan
    BY <1>1, ElementIsFine, Zenon
  <2>2. /\ r.st \in States /\ r.ready \in BOOLEAN /\ r.req \in Seq(Ops) /\ r.todo \in Seq(Todos)
    BY <2>1, ChanFields, Zenon
  <2>3. /\ Append(r.req, op) \in Seq(Ops)
        /\ \A o : Has(Append(r.req, op), o) <=> Has(r.req, o) \/ op = o
    <3>1. ASSUME NEW o PROVE Has(Append(r.req, op), o) <=> Has(r.req, o) \/ op = o
      BY <2>2, HasAppend
    <3>2. QED
      BY <2>2, <3>1, AppendProperties, Zenon
  <2>4. x \in Chan /\ x.st = r.st /\ x.req = Append(r.req, op)
    BY <2>1, <2>3, ReqWith, Zenon
  <2>5. Send(cs, c, op) = [cs EXCEPT ![c] = x]
    BY <1>1, <2>1 DEF Send
  <2> HIDE DEF x
  <2>6. Fine(x, c, m, p, b)
    <3>1. Declares(r.req, c, b) => Declares(Append(r.req, op), c, b)
      BY <2>2, DeclaresAppend, Zenon
    <3> HIDE DEF r
    <3>2. QED
      BY <2>1, <2>3, <2>4, <3>1, FineFrom, Zenon
  <2>7. QED
    <3>1. Client([cs EXCEPT ![c] = x], m, p, b) /\ Len([cs EXCEPT ![c] = x]) = Len(cs)
      BY <1>1, <2>6, ClientWith
    <3>2. QED
      BY <2>5, <3>1
<1>2. CASE ~(c \in 1..Len(cs) /\ cs[c].st \in {"connected", "ready"})
  <2>1. CASE c \in 1..Len(cs)
    <3>1. Send(cs, c, op) = cs
      BY <1>2, <2>1, Zenon DEF Send
    <3>2. QED
      BY <3>1
  <2>2. CASE c \notin 1..Len(cs)
    <3>1. cs \in Seq(Chan)
      BY Zenon DEF Client
    <3>2. DOMAIN cs = 1..Len(cs) /\ cs = [i \in DOMAIN cs |-> cs[i]]
      BY <3>1
    <3>3. [cs EXCEPT ![c].req = Append(@, op)] = cs
      BY <2>2, <3>1, <3>2
    <3>4. Send(cs, c, op) = cs
      BY <3>3, Zenon DEF Send
    <3>5. QED
      BY <3>4
  <2>3. QED
    BY <2>1, <2>2
<1>3. QED
  BY <1>1, <1>2

LEMMA Words ==
    /\ "close" \in Ops /\ "open" \in Ops /\ "publish" \in Ops /\ "ack" \in Ops
    /\ "close" \in Todos /\ "closing" \in States /\ "closed" \in States /\ "ready" \in States
    /\ "connected" \in States /\ "main" \in Roles /\ "pub" \in Roles
BY DEF Ops, Todos, States, Roles

\* ChannelOkCb's requests.
LEMMA SetupRequests ==
    ASSUME NEW ops \in {Setup, Tail(Setup)}
    PROVE  ops \in Seq(Ops) /\ ops \in Seq(Todos)
<1>1. Setup \in Seq(SetupOps) /\ Setup # <<>>
  BY DEF Setup, SetupOps
<1>2. Tail(Setup) \in Seq(SetupOps)
  BY <1>1, HeadTailProperties, Zenon
<1>3. SetupOps \subseteq Ops /\ SetupOps \subseteq Todos
  BY DEF Ops, Todos
<1>4. QED
  BY <1>1, <1>2, <1>3, SeqMonotonic, Zenon

\* close().
LEMMA CloseIs ==
    ASSUME NEW cs \in Seq(Chan), NEW c \in 0..Len(cs)
    PROVE  /\ Close(cs, c) \in Seq(Chan) /\ Len(Close(cs, c)) = Len(cs)
           /\ \A d \in 1..Len(cs) :
                 \/ /\ Close(cs, c)[d] = cs[d]
                    /\ d = c => cs[d].st \notin {"connected", "ready"}
                 \/ /\ d = c /\ Close(cs, c)[d] \in Chan /\ Close(cs, c)[d].st = "closing"
                    /\ Close(cs, c)[d].req = Append(cs[d].req, "close")
<1>1. CASE c # 0 /\ cs[c].st \in {"connected", "ready"}
  <2> DEFINE r == cs[c]
             req == Append(r.req, "close")
             todo == Append(r.todo, "close")
             x1 == [r EXCEPT !.st = "closing"]
             x2 == [x1 EXCEPT !.req = req]
             x == [x2 EXCEPT !.todo = todo]
  <2>1. c \in 1..Len(cs) /\ DOMAIN cs = 1..Len(cs)
    BY <1>1, LenProperties
  <2>2. r \in Chan
    BY <2>1, ElementOfSeq, Zenon
  <2>3. req \in Seq(Ops) /\ todo \in Seq(Todos)
    BY <2>2, ChanFields, Words, AppendProperties, Zenon
  <2>4. Close(cs, c) = [cs EXCEPT ![c] = x]
    BY <1>1, <2>1, <2>2 DEF Close, Chan
  <2> HIDE DEF req, todo
  <2>5. x1 \in Chan /\ x1.st = "closing"
    BY <2>2, StateWith, Words, Zenon
  <2> HIDE DEF x1
  <2>6. x2 \in Chan /\ x2.st = "closing" /\ x2.req = req
    BY <2>3, <2>5, ReqWith
  <2> HIDE DEF x2
  <2>7. x \in Chan /\ x.st = "closing" /\ x.req = req
    BY <2>3, <2>6, TodoWith
  <2> HIDE DEF x
  <2>8. /\ [cs EXCEPT ![c] = x] \in Seq(Chan) /\ Len([cs EXCEPT ![c] = x]) = Len(cs)
        /\ \A d \in 1..Len(cs) : [cs EXCEPT ![c] = x][d] = IF d = c THEN x ELSE cs[d]
    BY <2>1, <2>7, ExceptSeq
  <2>9. /\ Close(cs, c) \in Seq(Chan) /\ Len(Close(cs, c)) = Len(cs)
        /\ \A d \in 1..Len(cs) : Close(cs, c)[d] = IF d = c THEN x ELSE cs[d]
    BY <2>4, <2>8
  <2>10. QED
    BY <2>7, <2>9, Zenon DEF req
<1>2. CASE ~(c # 0 /\ cs[c].st \in {"connected", "ready"})
  <2>1. Close(cs, c) = cs
    BY <1>2, Zenon DEF Close
  <2>2. \A d \in 1..Len(cs) : d # 0
    OBVIOUS
  <2>3. QED
    BY <1>2, <2>1, <2>2, Zenon
<1>3. QED
  BY <1>1, <1>2

\* A channel that is closed is nobody's.
LEMMA Shut ==
    ASSUME NEW r, NEW c, NEW m, NEW p, NEW b, Fine(r, c, m, p, b), NEW x,
           \/ x = r /\ r.st \notin {"connected", "ready"}
           \/ x \in Chan /\ x.st = "closing" /\ x.req = Append(r.req, "close"),
           NEW m2, NEW p2
    PROVE  Fine(x, c, m2, p2, b)
<1>1. r \in Chan /\ r.st \in States /\ r.req \in Seq(Ops)
  BY ChanFields, Zenon DEF Fine
<1>2. CASE x = r /\ r.st \notin {"connected", "ready"}
  <2>1. r.st \in {"closing", "closed"}
    BY <1>1, <1>2 DEF States
  <2>2. c \in b.closed \/ Has(r.req, "close")
    BY <2>1, Zenon DEF Fine
  <2>3. QED
    BY <1>2, <2>2, Zenon DEF Fine
<1>3. CASE x \in Chan /\ x.st = "closing" /\ x.req = Append(r.req, "close")
  <2>1. Has(x.req, "close")
    BY <1>1, <1>3, HasAppend, Words
  <2>2. Declares(x.req, c, b)
    <3>1. Declares(r.req, c, b) /\ "close" # "consume"
      BY Zenon DEF Fine
    <3>2. QED
      BY <1>1, <1>3, <3>1, DeclaresAppend, Words
  <2>3. x.st \notin {"connected", "ready"} /\ x.st # "closed"
    BY <1>3
  <2>4. QED
    BY <1>3, <2>1, <2>2, <2>3, Zenon DEF Fine
<1>4. QED
  BY <1>2, <1>3

LEMMA CloseClient ==
    ASSUME NEW cs, NEW m, NEW p, NEW b, Client(cs, m, p, b), NEW c \in 0..Len(cs)
    PROVE  Client(Close(cs, c), m, p, b) /\ Len(Close(cs, c)) = Len(cs)
<1>1. cs \in Seq(Chan) /\ \A d \in 1..Len(cs) : Fine(cs[d], d, m, p, b)
  BY Zenon DEF Client
<1>2. /\ Close(cs, c) \in Seq(Chan) /\ Len(Close(cs, c)) = Len(cs)
      /\ \A d \in 1..Len(cs) :
            \/ Close(cs, c)[d] = cs[d]
            \/ /\ Close(cs, c)[d] \in Chan /\ Close(cs, c)[d].st = "closing"
               /\ Close(cs, c)[d].req = Append(cs[d].req, "close")
  BY <1>1, CloseIs
<1>3. ASSUME NEW d \in 1..Len(cs) PROVE Fine(Close(cs, c)[d], d, m, p, b)
  <2>1. CASE Close(cs, c)[d] = cs[d]
    BY <1>1, <2>1, Zenon
  <2>2. CASE /\ Close(cs, c)[d] \in Chan /\ Close(cs, c)[d].st = "closing"
             /\ Close(cs, c)[d].req = Append(cs[d].req, "close")
    BY <1>1, <2>2, Shut, Zenon
  <2>3. QED
    BY <1>2, <2>1, <2>2, Zenon
<1>4. QED
  BY <1>2, <1>3, Zenon DEF Client

\* A new channel.
LEMMA OpenIs ==
    ASSUME NEW cs \in Seq(Chan), NEW role \in Roles, NEW ready \in BOOLEAN
    PROVE  /\ Open(cs, role, ready) \in Seq(Chan) /\ Len(Open(cs, role, ready)) = Len(cs) + 1
           /\ \A d \in 1..Len(cs) : Open(cs, role, ready)[d] = cs[d]
           /\ LET x == Open(cs, role, ready)[Len(cs) + 1]
              IN x \in Chan /\ x.st = "connected" /\ x.req = <<"open">>
<1> DEFINE new == [role |-> role, st |-> "connected", ready |-> ready,
                   req |-> <<"open">>, todo |-> <<>>]
<1>1. <<"open">> \in Seq(Ops) /\ <<>> \in Seq(Todos)
  BY DEF Ops
<1>2. new \in Chan /\ new.st = "connected" /\ new.req = <<"open">>
  BY <1>1, Words DEF Chan
<1>3. Open(cs, role, ready) = Append(cs, new)
  BY DEF Open
<1> HIDE DEF new
<1>4. QED
  BY <1>2, <1>3, AppendProperties

LEMMA NewIsFine ==
    ASSUME NEW x \in Chan, x.st = "connected", x.req = <<"open">>, NEW c, NEW m, NEW p, NEW b,
           c \in {m, p}, ~Consumes(b, c)
    PROVE  Fine(x, c, m, p, b)
<1>1. ~Has(x.req, "consume") /\ Declares(x.req, c, b)
  BY DEF Has, Declares
<1>2. x.st # "closed" /\ x.st # "closing"
  OBVIOUS
<1>3. QED
  BY <1>1, <1>2, Zenon DEF Fine

\* R is cs with channel old replaced by a new one.
Renewed(R, cs, old) ==
    /\ R \in Seq(Chan) /\ Len(R) = Len(cs) + 1
    /\ \A d \in 1..Len(cs) :
          \/ R[d] = cs[d] /\ (d = old => cs[d].st \notin {"connected", "ready"})
          \/ R[d] \in Chan /\ R[d].st = "closing" /\ R[d].req = Append(cs[d].req, "close")
    /\ R[Len(cs) + 1] \in Chan /\ R[Len(cs) + 1].st = "connected"
    /\ R[Len(cs) + 1].req = <<"open">>

LEMMA RenewIs ==
    ASSUME NEW cs \in Seq(Chan), NEW old \in 0..Len(cs), NEW role \in Roles, NEW ready \in BOOLEAN
    PROVE  Renewed(Renew(cs, old, role, ready), cs, old)
<1> DEFINE o == Open(cs, role, ready)
           L == Len(cs)
<1>1. /\ o \in Seq(Chan) /\ Len(o) = L + 1 /\ L \in Nat
      /\ \A d \in 1..L : o[d] = cs[d]
      /\ o[L + 1] \in Chan /\ o[L + 1].st = "connected" /\ o[L + 1].req = <<"open">>
  BY OpenIs, LenProperties
<1>2. Renew(cs, old, role, ready) = Close(o, old)
  BY DEF Renew
<1> HIDE DEF o, L
<1>3. old \in 0..L
  BY DEF L
<1>4. old \in 0..(L + 1) /\ L + 1 \in 1..(L + 1) /\ L + 1 # old /\ \A d \in 1..L : d \in 1..(L + 1)
  BY <1>1, <1>3
<1>5. /\ Close(o, old) \in Seq(Chan) /\ Len(Close(o, old)) = L + 1
      /\ \A d \in 1..(L + 1) :
            \/ /\ Close(o, old)[d] = o[d]
               /\ d = old => o[d].st \notin {"connected", "ready"}
            \/ /\ d = old /\ Close(o, old)[d] \in Chan /\ Close(o, old)[d].st = "closing"
               /\ Close(o, old)[d].req = Append(o[d].req, "close")
  <2>1. old \in 0..Len(o) /\ Len(o) = L + 1 /\ o \in Seq(Chan)
    BY <1>1, <1>4, Zenon
  <2>2. /\ Close(o, old) \in Seq(Chan) /\ Len(Close(o, old)) = Len(o)
        /\ \A d \in 1..Len(o) :
              \/ /\ Close(o, old)[d] = o[d]
                 /\ d = old => o[d].st \notin {"connected", "ready"}
              \/ /\ d = old /\ Close(o, old)[d] \in Chan /\ Close(o, old)[d].st = "closing"
                 /\ Close(o, old)[d].req = Append(o[d].req, "close")
    BY <2>1, CloseIs, Zenon
  <2>3. QED
    BY <2>1, <2>2, Zenon
<1>6. Close(o, old)[L + 1] = o[L + 1]
  BY <1>4, <1>5, Zenon
<1>7. \A d \in 1..L :
            \/ /\ Close(o, old)[d] = cs[d]
               /\ d = old => cs[d].st \notin {"connected", "ready"}
            \/ /\ Close(o, old)[d] \in Chan /\ Close(o, old)[d].st = "closing"
               /\ Close(o, old)[d].req = Append(cs[d].req, "close")
  BY <1>1, <1>4, <1>5, Zenon
<1>8. QED
  BY <1>1, <1>2, <1>5, <1>6, <1>7, Zenon DEF L, Renewed

\* The channel that m_channel held is replaced.
LEMMA RenewMain ==
    ASSUME NEW cs, NEW m, NEW p, NEW b, Client(cs, m, p, b), ~Consumes(b, Len(cs) + 1)
    PROVE  /\ Client(Renew(cs, m, "main", TRUE), Len(cs) + 1, p, b)
           /\ Len(Renew(cs, m, "main", TRUE)) = Len(cs) + 1
<1> DEFINE R == Renew(cs, m, "main", TRUE)
           L == Len(cs)
<1>1. /\ cs \in Seq(Chan) /\ L \in Nat /\ m \in 0..L /\ p \in 0..L
      /\ \A d \in 1..L : Fine(cs[d], d, m, p, b)
  BY LenProperties, Zenon DEF Client
<1>2. /\ R \in Seq(Chan) /\ Len(R) = L + 1
      /\ \A d \in 1..L :
            \/ R[d] = cs[d] /\ (d = m => cs[d].st \notin {"connected", "ready"})
            \/ R[d] \in Chan /\ R[d].st = "closing" /\ R[d].req = Append(cs[d].req, "close")
      /\ R[L + 1] \in Chan /\ R[L + 1].st = "connected" /\ R[L + 1].req = <<"open">>
  <2>1. TRUE \in BOOLEAN /\ "main" \in Roles /\ m \in 0..Len(cs)
    BY <1>1, Words
  <2>2. Renewed(Renew(cs, m, "main", TRUE), cs, m)
    BY <1>1, <2>1, RenewIs, Zenon
  <2>3. QED
    BY <2>2, Zenon DEF Renewed
<1>3. ~Consumes(b, L + 1)
  OBVIOUS
<1> HIDE DEF R, L
<1>4. ASSUME NEW d \in 1..L PROVE Fine(R[d], d, L + 1, p, b)
  <2>1. Fine(cs[d], d, m, p, b)
    BY <1>1, Zenon
  <2>2. CASE R[d] = cs[d] /\ d # m
    <3>1. Fine(cs[d], d, L + 1, p, b)
      BY <2>1, <2>2, Zenon DEF Fine
    <3>2. QED
      BY <2>2, <3>1
  <2>3. CASE ~(R[d] = cs[d] /\ d # m)
    <3>1. \/ R[d] = cs[d] /\ cs[d].st \notin {"connected", "ready"}
          \/ R[d] \in Chan /\ R[d].st = "closing" /\ R[d].req = Append(cs[d].req, "close")
      BY <1>2, <2>3, Zenon
    <3>2. QED
      BY <2>1, <3>1, Shut, Zenon
  <2>4. QED
    BY <2>2, <2>3
<1>5. Fine(R[L + 1], L + 1, L + 1, p, b)
  BY <1>2, <1>3, NewIsFine
<1>6. ASSUME NEW d \in 1..(L + 1) PROVE Fine(R[d], d, L + 1, p, b)
  <2>1. d \in 1..L \/ d = L + 1
    BY <1>1
  <2>2. QED
    BY <1>4, <1>5, <2>1, Zenon
<1>7. L + 1 \in 0..(L + 1) /\ p \in 0..(L + 1)
  BY <1>1
<1>8. Client(R, L + 1, p, b)
  BY <1>2, <1>6, <1>7, Zenon DEF Client
<1>9. QED
  BY <1>2, <1>8, Zenon DEF R, L

\* The channel that m_channelPub held is.
LEMMA RenewPub ==
    ASSUME NEW cs, NEW m, NEW p, NEW b, Client(cs, m, p, b), ~Consumes(b, Len(cs) + 1)
    PROVE  /\ Client(Renew(cs, p, "pub", FALSE), m, Len(cs) + 1, b)
           /\ Len(Renew(cs, p, "pub", FALSE)) = Len(cs) + 1
<1> DEFINE R == Renew(cs, p, "pub", FALSE)
           L == Len(cs)
<1>1. /\ cs \in Seq(Chan) /\ L \in Nat /\ m \in 0..L /\ p \in 0..L
      /\ \A d \in 1..L : Fine(cs[d], d, m, p, b)
  BY LenProperties, Zenon DEF Client
<1>2. /\ R \in Seq(Chan) /\ Len(R) = L + 1
      /\ \A d \in 1..L :
            \/ R[d] = cs[d] /\ (d = p => cs[d].st \notin {"connected", "ready"})
            \/ R[d] \in Chan /\ R[d].st = "closing" /\ R[d].req = Append(cs[d].req, "close")
      /\ R[L + 1] \in Chan /\ R[L + 1].st = "connected" /\ R[L + 1].req = <<"open">>
  <2>1. FALSE \in BOOLEAN /\ "pub" \in Roles /\ p \in 0..Len(cs)
    BY <1>1, Words
  <2>2. Renewed(Renew(cs, p, "pub", FALSE), cs, p)
    BY <1>1, <2>1, RenewIs, Zenon
  <2>3. QED
    BY <2>2, Zenon DEF Renewed
<1>3. ~Consumes(b, L + 1)
  OBVIOUS
<1> HIDE DEF R, L
<1>4. ASSUME NEW d \in 1..L PROVE Fine(R[d], d, m, L + 1, b)
  <2>1. Fine(cs[d], d, m, p, b)
    BY <1>1, Zenon
  <2>2. CASE R[d] = cs[d] /\ d # p
    <3>1. Fine(cs[d], d, m, L + 1, b)
      BY <2>1, <2>2, Zenon DEF Fine
    <3>2. QED
      BY <2>2, <3>1
  <2>3. CASE ~(R[d] = cs[d] /\ d # p)
    <3>1. \/ R[d] = cs[d] /\ cs[d].st \notin {"connected", "ready"}
          \/ R[d] \in Chan /\ R[d].st = "closing" /\ R[d].req = Append(cs[d].req, "close")
      BY <1>2, <2>3, Zenon
    <3>2. QED
      BY <2>1, <3>1, Shut, Zenon
  <2>4. QED
    BY <2>2, <2>3
<1>5. Fine(R[L + 1], L + 1, m, L + 1, b)
  BY <1>2, <1>3, NewIsFine
<1>6. ASSUME NEW d \in 1..(L + 1) PROVE Fine(R[d], d, m, L + 1, b)
  <2>1. d \in 1..L \/ d = L + 1
    BY <1>1
  <2>2. QED
    BY <1>4, <1>5, <2>1, Zenon
<1>7. L + 1 \in 0..(L + 1) /\ m \in 0..(L + 1)
  BY <1>1
<1>8. Client(R, m, L + 1, b)
  BY <1>2, <1>6, <1>7, Zenon DEF Client
<1>9. QED
  BY <1>2, <1>8, Zenon DEF R, L

\* The first channel: there is nothing to close.
LEMMA FirstOpen ==
    ASSUME NEW m, NEW p, NEW b, NEW cs, Client(cs, m, p, b), Len(cs) = 0, ~Consumes(b, 1)
    PROVE  Client(Open(cs, "main", FALSE), 1, p, b) /\ Len(Open(cs, "main", FALSE)) = 1
<1> DEFINE o == Open(cs, "main", FALSE)
<1>1. cs \in Seq(Chan) /\ p \in 0..0
  BY Zenon DEF Client
<1>2. /\ o \in Seq(Chan) /\ Len(o) = 0 + 1
      /\ o[0 + 1] \in Chan /\ o[0 + 1].st = "connected" /\ o[0 + 1].req = <<"open">>
  BY <1>1, OpenIs, Words
<1> HIDE DEF o
<1>3. Len(o) = 1 /\ o[1] \in Chan /\ o[1].st = "connected" /\ o[1].req = <<"open">>
  <2>1. 0 + 1 = 1
    OBVIOUS
  <2>2. QED
    BY <1>2, <2>1
<1>4. Fine(o[1], 1, 1, p, b)
  BY <1>3, NewIsFine
<1>5. \A d \in 1..1 : Fine(o[d], d, 1, p, b)
  <2>1. \A d \in 1..1 : d = 1
    OBVIOUS
  <2>2. QED
    BY <1>4, <2>1, Zenon
<1>6. p \in 0..1 /\ 1 \in 0..1
  BY <1>1
<1>7. QED
  BY <1>2, <1>3, <1>5, <1>6, Zenon DEF Client, o

\* Requests are made on m_channel.
LEMMA RequestClient ==
    ASSUME NEW cs, NEW m, NEW p, NEW b, Client(cs, m, p, b), m # 0, NEW ops \in {Setup, Tail(Setup)}
    PROVE  Client(Request(cs, m, ops), m, p, b) /\ Len(Request(cs, m, ops)) = Len(cs)
<1> DEFINE r == cs[m]
           req == r.req \o ops
           todo == r.todo \o ops
<1>0. m \in 1..Len(cs)
  <2>1. m \in 0..Len(cs) /\ cs \in Seq(Chan)
    BY Zenon DEF Client
  <2>2. QED
    BY <2>1, LenProperties
<1>1. cs \in Seq(Chan) /\ DOMAIN cs = 1..Len(cs) /\ Fine(r, m, m, p, b) /\ r \in Chan
  BY <1>0, ElementIsFine, Zenon
<1>2. r.req \in Seq(Ops) /\ r.todo \in Seq(Todos) /\ ops \in Seq(Ops) /\ ops \in Seq(Todos)
  BY <1>1, ChanFields, SetupRequests, Zenon
<1>3. req \in Seq(Ops) /\ todo \in Seq(Todos)
  BY <1>2, ConcatProperties, Zenon
<1>4. Has(r.req, "close") => Has(req, "close")
  BY <1>2, HasConcat
<1>5. Declares(r.req, m, b) => Declares(req, m, b)
  BY <1>2, DeclaresSetup
<1>6. CASE r.st = "closing"
  <2> DEFINE x == [r EXCEPT !.todo = todo]
  <2>1. Request(cs, m, ops) = [cs EXCEPT ![m] = x]
    BY <1>1, <1>6 DEF Request
  <2> HIDE DEF todo
  <2>2. x \in Chan /\ x.st = r.st /\ x.req = r.req
    BY <1>1, <1>3, TodoWith, Zenon
  <2> HIDE DEF x
  <2>3. Fine(x, m, m, p, b)
    BY <1>1, <2>2, FineFrom, Zenon
  <2> HIDE DEF r
  <2>4. Client([cs EXCEPT ![m] = x], m, p, b) /\ Len([cs EXCEPT ![m] = x]) = Len(cs)
    BY <1>0, <2>3, ClientWith
  <2>5. QED
    BY <2>1, <2>4
<1>7. CASE r.st # "closing"
  <2> DEFINE y == [r EXCEPT !.req = req]
             x == [y EXCEPT !.todo = todo]
  <2>1. Request(cs, m, ops) = [cs EXCEPT ![m] = x]
    BY <1>1, <1>7 DEF Request, Chan
  <2> HIDE DEF todo, req
  <2>2. y \in Chan /\ y.st = r.st /\ y.req = req
    BY <1>1, <1>3, ReqWith
  <2> HIDE DEF y
  <2>3. x \in Chan /\ x.st = r.st /\ x.req = req
    BY <1>3, <2>2, TodoWith
  <2> HIDE DEF x
  <2>4. Fine(x, m, m, p, b)
    BY <1>1, <1>4, <1>5, <1>7, <2>3, FineFrom, Zenon
  <2> HIDE DEF r
  <2>5. Client([cs EXCEPT ![m] = x], m, p, b) /\ Len([cs EXCEPT ![m] = x]) = Len(cs)
    BY <1>0, <2>4, ClientWith
  <2>6. QED
    BY <2>1, <2>5
<1>8. QED
  BY <1>6, <1>7

-----------------------------------------------------------------------------
(* What only the number of channels touches *)

LEMMA MoreChannels ==
    ASSUME NEW n \in Nat, NEW k \in Nat, n <= k, NEW b
    PROVE  /\ Serving(b, n) => Serving(b, k)
           /\ \A s : Frames(s, n, b) => Frames(s, k, b)
           /\ \A s : Callbacks(s, n) => Callbacks(s, k)
<1>1. \A c \in 1..n : c \in 1..k
  OBVIOUS
<1>2. Serving(b, n) => Serving(b, k)
  BY <1>1, Zenon DEF Serving
<1>3. \A s : Frames(s, n, b) => Frames(s, k, b)
  BY <1>1, Zenon DEF Frames, Sent
<1>4. \A s : Callbacks(s, n) => Callbacks(s, k)
  BY <1>1, Zenon DEF Callbacks
<1>5. QED
  BY <1>2, <1>3, <1>4

\* A new channel consumes nothing.
LEMMA NewConsumesNothing ==
    ASSUME NEW b, NEW n \in Nat, Serving(b, n), NEW k \in Nat, k > n
    PROVE  ~Consumes(b, k)
<1>1. k \notin 1..n
  OBVIOUS
<1>2. QED
  BY <1>1, Zenon DEF Serving, Consumes

LEMMA SequenceTail ==
    ASSUME NEW S, NEW s \in Seq(S), s # <<>>
    PROVE  /\ Tail(s) \in Seq(S) /\ Head(s) \in S
           /\ 1 \in 1..Len(s) /\ Head(s) = s[1]
           /\ \A i \in 1..Len(Tail(s)) : i + 1 \in 1..Len(s) /\ Tail(s)[i] = s[i + 1]
<1>1. Tail(s) \in Seq(S) /\ Head(s) \in S /\ Head(s) = s[1] /\ Len(Tail(s)) = Len(s) - 1
  BY HeadTailProperties, EmptySeq
<1>2. Len(s) \in Nat \ {0}
  BY EmptySeq
<1>3. \A i \in 1..Len(Tail(s)) : Tail(s)[i] = s[i + 1]
  BY HeadTailProperties
<1>4. \A i \in 1..(Len(s) - 1) : i + 1 \in 1..Len(s)
  BY <1>2
<1>5. QED
  BY <1>1, <1>2, <1>3, <1>4

LEMMA FramesTail ==
    ASSUME NEW s, NEW n, NEW b, Frames(s, n, b), s # <<>>
    PROVE  Frames(Tail(s), n, b) /\ Head(s) \in Frame /\ Sent(Head(s), n, b)
<1>1. s \in Seq(Frame)
  BY Zenon DEF Frames
<1>2. QED
  BY <1>1, SequenceTail, Zenon DEF Frames

LEMMA CallbacksTail ==
    ASSUME NEW s, NEW n, Callbacks(s, n), s # <<>>
    PROVE  Callbacks(Tail(s), n) /\ Head(s) \in Cb /\ Head(s).ch \in 1..n
<1>1. s \in Seq(Cb)
  BY Zenon DEF Callbacks
<1>2. QED
  BY <1>1, SequenceTail, Zenon DEF Callbacks

LEMMA CallbacksConcat ==
    ASSUME NEW n, NEW s, NEW t, Callbacks(s, n), Callbacks(t, n)
    PROVE  Callbacks(s \o t, n)
<1> DEFINE L == Len(s)
           M == Len(t)
           u == s \o t
<1>1. /\ L \in Nat /\ M \in Nat /\ Len(u) = L + M /\ u \in Seq(Cb)
      /\ \A i \in 1..(L + M) : u[i] = IF i <= L THEN s[i] ELSE t[i - L]
  BY ConcatProperties, LenProperties DEF Callbacks
<1>2. /\ \A i \in 1..L : s[i].ch \in 1..n
      /\ \A i \in 1..M : t[i].ch \in 1..n
  BY Zenon DEF Callbacks
<1> HIDE DEF u, L, M
<1>3. ASSUME NEW i \in 1..(L + M) PROVE u[i].ch \in 1..n
  <2>1. CASE i <= L
    <3>1. i \in 1..L /\ u[i] = s[i]
      BY <1>1, <2>1
    <3>2. QED
      BY <1>2, <3>1, Zenon
  <2>2. CASE ~(i <= L)
    <3>1. i - L \in 1..M /\ u[i] = t[i - L]
      BY <1>1, <2>2
    <3>2. QED
      BY <1>2, <3>1, Zenon
  <2>3. QED
    BY <2>1, <2>2
<1>4. QED
  BY <1>1, <1>3, Zenon DEF Callbacks, u

LEMMA OneCallback ==
    ASSUME NEW n \in Nat, NEW c \in 1..n, NEW k \in Calls
    PROVE  Callbacks(<<[cb |-> k, ch |-> c]>>, n) /\ Callbacks(<<>>, n)
<1>1. [cb |-> k, ch |-> c] \in Cb /\ [cb |-> k, ch |-> c].ch = c
  BY DEF Cb
<1> DEFINE x == [cb |-> k, ch |-> c]
<1> HIDE DEF x
<1>2. <<x>> \in Seq(Cb) /\ Len(<<x>>) = 1 /\ <<x>>[1] = x
  BY <1>1 DEF x
<1>3. \A i \in 1..1 : i = 1
  OBVIOUS
<1>4. <<>> \in Seq(Cb) /\ \A i \in 1..Len(<<>>) : FALSE
  OBVIOUS
<1>5. QED
  BY <1>1, <1>2, <1>3, <1>4, Zenon DEF Callbacks, x

\* The error callbacks of a frame for channel From.
LEMMA FailingCallbacks ==
    ASSUME NEW n \in Nat, From \in 1..n, NEW todo \in Seq(Todos)
    PROVE  Callbacks(Failing(todo), n)
<1> DEFINE setups == {i \in DOMAIN todo : todo[i] \in SetupOps}
           k == Cardinality(setups)
           x == [cb |-> "error", ch |-> From]
           u == [i \in 1..k |-> x]
<1>1. k \in Nat
  <2>1. IsFiniteSet(1..Len(todo))
    BY FS_Interval, LenProperties
  <2>2. setups \subseteq 1..Len(todo)
    BY LenProperties
  <2>3. IsFiniteSet(setups)
    BY <2>1, <2>2, FS_Subset, Zenon
  <2>4. QED
    BY <2>3, FS_CardinalityType, Zenon
<1>2. Failing(todo) = u
  BY Zenon DEF Failing
<1>3. x \in Cb /\ x.ch = From
  BY DEF Cb, Calls
<1> HIDE DEF k, x
<1>4. u \in Seq(Cb) /\ Len(u) = k /\ \A i \in 1..k : u[i] = x
  BY <1>1, <1>3, IsASeq
<1> HIDE DEF u
<1>5. QED
  BY <1>2, <1>3, <1>4, Zenon DEF Callbacks

-----------------------------------------------------------------------------
(* What the worker and the user do to the channels *)

\* reportReady.
LEMMA OpenedClient ==
    ASSUME NEW cs, NEW m, NEW p, NEW b, Client(cs, m, p, b), NEW c \in 1..Len(cs)
    PROVE  LET cs2 == [cs EXCEPT ![c].st = IF @ = "connected" THEN "ready" ELSE @]
           IN Client(cs2, m, p, b) /\ Len(cs2) = Len(cs)
<1> DEFINE r == cs[c]
           st == IF r.st = "connected" THEN "ready" ELSE r.st
           x == [r EXCEPT !.st = st]
<1>1. Fine(r, c, m, p, b) /\ r \in Chan /\ r.st \in States
  BY ElementIsFine, ChanFields, Zenon
<1>2. st \in States /\ (st \in {"connected", "ready"} => r.st \in {"connected", "ready"})
      /\ (st = "closed" => r.st = "closed") /\ (st = "closing" => r.st = "closing")
  BY <1>1, Words
<1>3. [cs EXCEPT ![c].st = IF @ = "connected" THEN "ready" ELSE @] = [cs EXCEPT ![c] = x]
  OBVIOUS
<1> HIDE DEF st
<1>4. x \in Chan /\ x.st = st /\ x.req = r.req
  BY <1>1, <1>2, StateWith, Zenon
<1> HIDE DEF x
<1>5. Fine(x, c, m, p, b)
  BY <1>1, <1>2, <1>4, FineFrom, Zenon
<1> HIDE DEF r
<1>6. Client([cs EXCEPT ![c] = x], m, p, b) /\ Len([cs EXCEPT ![c] = x]) = Len(cs)
  BY <1>5, ClientWith
<1>7. QED
  BY <1>3, <1>6

\* reportError and reportClosed, on a channel that the broker has closed.
LEMMA FailedClient ==
    ASSUME NEW cs, NEW m, NEW p, NEW b, Client(cs, m, p, b), NEW c \in 1..Len(cs), c \in b.closed
    PROVE  LET cs2 == [cs EXCEPT ![c].st = "closed", ![c].todo = <<>>]
           IN Client(cs2, m, p, b) /\ Len(cs2) = Len(cs)
<1> DEFINE r == cs[c]
           y == [r EXCEPT !.st = "closed"]
           x == [y EXCEPT !.todo = <<>>]
<1>1. cs \in Seq(Chan) /\ DOMAIN cs = 1..Len(cs) /\ Fine(r, c, m, p, b) /\ r \in Chan
  BY ElementIsFine, Zenon
<1>2. [cs EXCEPT ![c].st = "closed", ![c].todo = <<>>] = [cs EXCEPT ![c] = x]
  BY <1>1 DEF Chan
<1>3. y \in Chan /\ y.st = "closed" /\ y.req = r.req
  BY <1>1, StateWith, Words, Zenon
<1> HIDE DEF y
<1>4. x \in Chan /\ x.st = "closed" /\ x.req = r.req
  <2>1. <<>> \in Seq(Todos)
    OBVIOUS
  <2>2. QED
    BY <1>3, <2>1, TodoWith
<1> HIDE DEF x
<1>5. Fine(x, c, m, p, b)
  <2>1. x.st \notin {"connected", "ready"} /\ x.st # "closing"
    BY <1>4
  <2>2. QED
    BY <1>1, <1>4, <2>1, FineFrom, Zenon
<1> HIDE DEF r
<1>6. Client([cs EXCEPT ![c] = x], m, p, b) /\ Len([cs EXCEPT ![c] = x]) = Len(cs)
  BY <1>5, ClientWith
<1>7. QED
  BY <1>2, <1>6

\* onReady stores its callback.
LEMMA StoredClient ==
    ASSUME NEW cs, NEW m, NEW p, NEW b, Client(cs, m, p, b), NEW c \in 1..Len(cs)
    PROVE  LET cs2 == [cs EXCEPT ![c].ready = TRUE]
           IN Client(cs2, m, p, b) /\ Len(cs2) = Len(cs)
<1> DEFINE r == cs[c]
           x == [r EXCEPT !.ready = TRUE]
<1>1. Fine(r, c, m, p, b) /\ r \in Chan
  BY ElementIsFine, Zenon
<1>2. [cs EXCEPT ![c].ready = TRUE] = [cs EXCEPT ![c] = x]
  OBVIOUS
<1>3. x \in Chan /\ x.st = r.st /\ x.req = r.req
  BY <1>1, ReadyWith, Zenon
<1> HIDE DEF x
<1>4. Fine(x, c, m, p, b)
  BY <1>1, <1>3, FineFrom, Zenon
<1> HIDE DEF r
<1>5. Client([cs EXCEPT ![c] = x], m, p, b) /\ Len([cs EXCEPT ![c] = x]) = Len(cs)
  BY <1>4, ClientWith
<1>6. QED
  BY <1>2, <1>5

\* What a callback of RmqMgrBase leaves behind.
Moved ==
    /\ Client(chan', main', pub', broker)
    /\ Len(chan) \in Nat /\ Len(chan') \in Nat /\ Len(chan) <= Len(chan')
    /\ main' # 0 /\ status' \in BOOLEAN

LEMMA ChannelOkCbMoves ==
    ASSUME IInv, main # 0, ChannelOkCb
    PROVE  Moved
<1> DEFINE cs == IF connOpen THEN Renew(chan, pub, "pub", FALSE) ELSE chan
           n == Len(cs)
           works == chan[main].st # "closed"
<1>1. /\ Client(chan, main, pub, broker) /\ Serving(broker, Len(chan)) /\ Len(chan) \in Nat
      /\ connOpen \in BOOLEAN
  <2>1. Client(chan, main, pub, broker) /\ Serving(broker, Len(chan)) /\ connOpen \in BOOLEAN
    BY Zenon DEF IInv, Control
  <2>2. chan \in Seq(Chan)
    BY <2>1, Zenon DEF Client
  <2>3. QED
    BY <2>1, <2>2, LenProperties
<1>2. /\ pub' = IF connOpen THEN Len(chan) + 1 ELSE pub
      /\ status' = (connOpen /\ works)
      /\ main' = IF connOpen /\ ~works THEN n + 1 ELSE main
      /\ chan' = IF works THEN Request(cs, main, Setup)
                 ELSE IF connOpen
                 THEN Request(Renew(cs, main, "main", TRUE), n + 1, Tail(Setup))
                 ELSE cs
  BY Zenon DEF ChannelOkCb
<1>3. Client(cs, main, pub', broker) /\ n \in Nat /\ Len(chan) <= n
  <2>1. CASE connOpen
    <3>1. ~Consumes(broker, Len(chan) + 1)
      BY <1>1, NewConsumesNothing
    <3>2. cs = Renew(chan, pub, "pub", FALSE) /\ pub' = Len(chan) + 1
      BY <1>2, <2>1, Zenon
    <3>3. Client(cs, main, pub', broker) /\ n = Len(chan) + 1
      BY <1>1, <3>1, <3>2, RenewPub, Zenon
    <3> HIDE DEF n
    <3>4. n \in Nat /\ Len(chan) <= n
      BY <1>1, <3>3
    <3>5. QED
      BY <3>3, <3>4
  <2>2. CASE ~connOpen
    <3>1. cs = chan /\ pub' = pub
      BY <1>2, <2>2, Zenon
    <3>2. n = Len(chan)
      BY <3>1, Zenon
    <3> HIDE DEF n, cs
    <3>3. n \in Nat /\ Len(chan) <= n
      BY <1>1, <3>2
    <3>4. QED
      BY <1>1, <3>1, <3>3, Zenon
  <2>3. QED
    BY <2>1, <2>2
<1>4. status' \in BOOLEAN
  BY <1>2
<1> HIDE DEF cs, works
<1>5. CASE works
  <2>1. chan' = Request(cs, main, Setup) /\ main' = main
    BY <1>2, <1>5, Zenon
  <2>2. Client(chan', main', pub', broker) /\ Len(chan') = n
    BY <1>3, <2>1, RequestClient
  <2>3. QED
    BY <1>1, <1>3, <1>4, <2>1, <2>2 DEF Moved
<1>6. CASE ~works /\ connOpen
  <2> DEFINE R == Renew(cs, main, "main", TRUE)
  <2>1. chan' = Request(R, n + 1, Tail(Setup)) /\ main' = n + 1
    BY <1>2, <1>6, Zenon
  <2>2. n + 1 \in Nat /\ n + 1 > Len(chan) /\ n + 1 # 0
    BY <1>1, <1>3
  <2>3. ~Consumes(broker, n + 1)
    BY <1>1, <2>2, NewConsumesNothing
  <2>4. Client(R, n + 1, pub', broker) /\ Len(R) = n + 1
    BY <1>3, <2>3, RenewMain
  <2> HIDE DEF R, n
  <2>5. Client(chan', main', pub', broker) /\ Len(chan') = n + 1
    BY <2>1, <2>2, <2>4, RequestClient
  <2>6. QED
    BY <1>1, <1>3, <1>4, <2>1, <2>2, <2>5 DEF Moved
<1>7. CASE ~works /\ ~connOpen
  <2>1. chan' = cs /\ main' = main
    BY <1>2, <1>7, Zenon
  <2>2. QED
    BY <1>1, <1>3, <1>4, <2>1 DEF Moved
<1>8. QED
  BY <1>5, <1>6, <1>7

LEMMA ErrCbMoves ==
    ASSUME IInv, main # 0, ErrCb
    PROVE  Moved
<1>1. /\ Client(chan, main, pub, broker) /\ Serving(broker, Len(chan)) /\ Len(chan) \in Nat
  <2>1. Client(chan, main, pub, broker) /\ Serving(broker, Len(chan))
    BY Zenon DEF IInv
  <2>2. chan \in Seq(Chan)
    BY <2>1, Zenon DEF Client
  <2>3. QED
    BY <2>1, <2>2, LenProperties
<1>2. status' = FALSE /\ pub' = pub /\ status' \in BOOLEAN
  BY DEF ErrCb
<1>3. CASE connOpen
  <2>1. main' = Len(chan) + 1 /\ chan' = Renew(chan, main, "main", TRUE)
    BY <1>3, Zenon DEF ErrCb, CreateMqChannel
  <2>2. ~Consumes(broker, Len(chan) + 1)
    BY <1>1, NewConsumesNothing
  <2>3. Client(chan', main', pub', broker) /\ Len(chan') = Len(chan) + 1
    BY <1>1, <1>2, <2>1, <2>2, RenewMain, Zenon
  <2>4. Len(chan') \in Nat /\ Len(chan) <= Len(chan') /\ Len(chan) + 1 # 0
    BY <1>1, <2>3
  <2>5. QED
    BY <1>1, <1>2, <2>1, <2>3, <2>4, Zenon DEF Moved
<1>4. CASE ~connOpen
  <2>1. main' = main /\ chan' = chan
    BY <1>4, Zenon DEF ErrCb, CreateMqChannel
  <2>2. Len(chan') \in Nat /\ Len(chan) <= Len(chan')
    BY <1>1, <2>1
  <2>3. QED
    BY <1>1, <1>2, <2>1, <2>2, Zenon DEF Moved
<1>5. QED
  BY <1>3, <1>4

\* A callback that makes no channel.
LEMMA IdleMoves ==
    ASSUME IInv, main # 0, chan' = chan, main' = main, pub' = pub, status' \in BOOLEAN
    PROVE  Moved
<1>1. Client(chan, main, pub, broker)
  BY Zenon DEF IInv
<1>2. chan \in Seq(Chan)
  BY <1>1, Zenon DEF Client
<1>3. QED
  BY <1>1, <1>2, LenProperties DEF Moved

-----------------------------------------------------------------------------
(* The steps preserve the invariant *)

LEMMA Parts ==
    ASSUME IInv
    PROVE  /\ Client(chan, main, pub, broker) /\ chan \in Seq(Chan) /\ Len(chan) \in Nat
           /\ main \in 0..Len(chan) /\ pub \in 0..Len(chan) /\ DOMAIN chan = 1..Len(chan)
           /\ Serving(broker, Len(chan)) /\ Frames(inbox, Len(chan), broker)
           /\ Callbacks(cbs, Len(chan)) /\ Control
<1>1. /\ Client(chan, main, pub, broker)
      /\ Serving(broker, Len(chan)) /\ Frames(inbox, Len(chan), broker)
      /\ Callbacks(cbs, Len(chan)) /\ Control
  BY Zenon DEF IInv
<1>2. chan \in Seq(Chan) /\ main \in 0..Len(chan) /\ pub \in 0..Len(chan)
  BY <1>1, Zenon DEF Client
<1>3. QED
  BY <1>1, <1>2, LenProperties, Zenon

\* The invariant after a step, from its parts.
LEMMA Settles ==
    ASSUME IInv, Control', Client(chan', main', pub', broker'),
           Len(chan') \in Nat, Len(chan) <= Len(chan'),
           Serving(broker', Len(chan)), Frames(inbox', Len(chan), broker'),
           Callbacks(cbs', Len(chan))
    PROVE  IInv'
<1>1. Len(chan) \in Nat
  BY Parts, Zenon
<1>2. /\ Serving(broker', Len(chan')) /\ Frames(inbox', Len(chan'), broker')
      /\ Callbacks(cbs', Len(chan'))
  BY <1>1, MoreChannels, Zenon
<1>3. QED
  BY <1>2, Zenon DEF IInv

\* There are channels once the start has made one.
LEMMA Started ==
    ASSUME IInv, Len(chan) # 0
    PROVE  main # 0 /\ pc \notin {"login", "failed"}
BY DEF IInv, Control

LEMMA KeepsControl ==
    ASSUME IInv, Len(chan) # 0, pc' = pc, login' = login, connOpen' = connOpen,
           status' \in BOOLEAN, pubs' = pubs, received' \subseteq 1..broker'.routed, main' # 0
    PROVE  Control'
<1>1. Control /\ pc \notin {"login", "failed"}
  BY Started, Zenon DEF IInv
<1>2. QED
  BY <1>1, Zenon DEF Control

\* The frame the worker parses.
LEMMA FrameParsed ==
    ASSUME IInv, NEW ans, Parses(ans)
    PROVE  /\ Head(inbox) \in Frame /\ Head(inbox).ans = ans /\ Sent(Head(inbox), Len(chan), broker)
           /\ From \in 1..Len(chan) /\ Len(chan) # 0 /\ main # 0
           /\ Frames(Tail(inbox), Len(chan), broker)
<1>1. inbox # <<>> /\ Head(inbox).ans = ans
  BY Zenon DEF Parses
<1>2. Head(inbox) \in Frame /\ Sent(Head(inbox), Len(chan), broker)
      /\ Frames(Tail(inbox), Len(chan), broker)
  BY <1>1, Parts, FramesTail, Zenon
<1>3. From \in 1..Len(chan)
  BY <1>2, Zenon DEF Sent, From
<1>4. Len(chan) # 0
  BY <1>3, Parts
<1>5. QED
  BY <1>1, <1>2, <1>3, <1>4, Started, Zenon

LEMMA OpenOkStep ==
    ASSUME IInv, OpenOk
    PROVE  IInv'
<1>1. /\ Parses("open-ok")
      /\ chan' = [chan EXCEPT ![From].st = IF @ = "connected" THEN "ready" ELSE @]
      /\ cbs' = <<[cb |-> "ready", ch |-> From]>> /\ inbox' = Tail(inbox)
      /\ pc' = pc /\ login' = login /\ main' = main /\ pub' = pub /\ connOpen' = connOpen
      /\ status' = status /\ received' = received /\ pubs' = pubs /\ broker' = broker
  BY DEF OpenOk
<1>2. From \in 1..Len(chan) /\ Len(chan) # 0 /\ main # 0 /\ Frames(Tail(inbox), Len(chan), broker)
  BY <1>1, FrameParsed, Zenon
<1>3. Client(chan', main', pub', broker') /\ Len(chan') = Len(chan)
  BY <1>1, <1>2, Parts, OpenedClient
<1>4. Callbacks(cbs', Len(chan))
  <2>1. "ready" \in Calls
    BY DEF Calls
  <2>2. QED
    BY <1>1, <1>2, <2>1, Parts, OneCallback, Zenon
<1>5. Control'
  <2>1. status \in BOOLEAN /\ received \subseteq 1..broker.routed
    BY Zenon DEF IInv, Control
  <2>2. QED
    BY <1>1, <1>2, <2>1, KeepsControl, Zenon
<1>6. Len(chan') \in Nat /\ Len(chan) <= Len(chan')
  BY <1>3, Parts
<1>7. QED
  BY <1>1, <1>2, <1>3, <1>4, <1>5, <1>6, Parts, Settles, Zenon

LEMMA RefusedStep ==
    ASSUME IInv, Refused
    PROVE  IInv'
<1> DEFINE cb == IF chan[From].role = "main" THEN "error" ELSE "puberror"
<1>1. /\ Parses("refused")
      /\ chan' = [chan EXCEPT ![From].st = "closed", ![From].todo = <<>>]
      /\ cbs' = Failing(chan[From].todo) \o <<[cb |-> cb, ch |-> From]>> /\ inbox' = Tail(inbox)
      /\ pc' = pc /\ login' = login /\ main' = main /\ pub' = pub /\ connOpen' = connOpen
      /\ status' = status /\ received' = received /\ pubs' = pubs /\ broker' = broker
  BY DEF Refused
<1>2. /\ From \in 1..Len(chan) /\ Len(chan) # 0 /\ main # 0
      /\ Frames(Tail(inbox), Len(chan), broker)
      /\ Sent(Head(inbox), Len(chan), broker) /\ Head(inbox).ans = "refused"
  BY <1>1, FrameParsed, Zenon
<1>3. Client(chan', main', pub', broker') /\ Len(chan') = Len(chan)
  <2>1. From \in broker.closed
    BY <1>2 DEF Sent, From
  <2>2. QED
    BY <1>1, <1>2, <2>1, Parts, FailedClient
<1>4. Callbacks(cbs', Len(chan))
  <2>1. cb \in Calls
    BY DEF Calls
  <2>2. chan[From].todo \in Seq(Todos)
    BY <1>2, Parts, ElementIsFine, ChanFields, Zenon
  <2>3. Callbacks(Failing(chan[From].todo), Len(chan))
    BY <1>2, <2>2, Parts, FailingCallbacks, Zenon
  <2> HIDE DEF cb
  <2>4. Callbacks(<<[cb |-> cb, ch |-> From]>>, Len(chan))
    BY <1>2, <2>1, Parts, OneCallback, Zenon
  <2>5. QED
    BY <1>1, <2>3, <2>4, CallbacksConcat, Zenon
<1>5. Control'
  <2>1. status \in BOOLEAN /\ received \subseteq 1..broker.routed
    BY Zenon DEF IInv, Control
  <2>2. QED
    BY <1>1, <1>2, <2>1, KeepsControl, Zenon
<1>6. Len(chan') \in Nat /\ Len(chan) <= Len(chan')
  BY <1>3, Parts
<1>7. QED
  BY <1>1, <1>2, <1>3, <1>4, <1>5, <1>6, Parts, Settles, Zenon

LEMMA RestOf ==
    ASSUME NEW S, NEW s \in Seq(S)
    PROVE  Rest(s) \in Seq(S)
BY DEF Rest

LEMMA ClosedStep ==
    ASSUME IInv, Closed
    PROVE  IInv'
<1>1. /\ Parses("closed")
      /\ chan' = [chan EXCEPT ![From].st = "closed", ![From].todo = <<>>]
      /\ cbs' = Failing(Rest(chan[From].todo)) /\ inbox' = Tail(inbox)
      /\ pc' = pc /\ login' = login /\ main' = main /\ pub' = pub /\ connOpen' = connOpen
      /\ status' = status /\ received' = received /\ pubs' = pubs /\ broker' = broker
  BY DEF Closed
<1>2. /\ From \in 1..Len(chan) /\ Len(chan) # 0 /\ main # 0
      /\ Frames(Tail(inbox), Len(chan), broker)
      /\ Sent(Head(inbox), Len(chan), broker) /\ Head(inbox).ans = "closed"
  BY <1>1, FrameParsed, Zenon
<1>3. Client(chan', main', pub', broker') /\ Len(chan') = Len(chan)
  <2>1. From \in broker.closed
    BY <1>2 DEF Sent, From
  <2>2. QED
    BY <1>1, <1>2, <2>1, Parts, FailedClient
<1>4. Callbacks(cbs', Len(chan))
  <2>1. chan[From].todo \in Seq(Todos)
    BY <1>2, Parts, ElementIsFine, ChanFields, Zenon
  <2>2. Rest(chan[From].todo) \in Seq(Todos)
    BY <2>1, RestOf, Zenon
  <2>3. QED
    BY <1>1, <1>2, <2>2, Parts, FailingCallbacks, Zenon
<1>5. Control'
  <2>1. status \in BOOLEAN /\ received \subseteq 1..broker.routed
    BY Zenon DEF IInv, Control
  <2>2. QED
    BY <1>1, <1>2, <2>1, KeepsControl, Zenon
<1>6. Len(chan') \in Nat /\ Len(chan) <= Len(chan')
  BY <1>3, Parts
<1>7. QED
  BY <1>1, <1>2, <1>3, <1>4, <1>5, <1>6, Parts, Settles, Zenon

LEMMA ConsumeRecvedStep ==
    ASSUME IInv, ConsumeRecvedCb
    PROVE  IInv'
<1>1. /\ Parses("deliver")
      /\ received' = received \cup {Head(inbox).msg}
      /\ chan' = Send(chan, main, "ack") /\ inbox' = Tail(inbox)
      /\ pc' = pc /\ login' = login /\ main' = main /\ pub' = pub /\ connOpen' = connOpen
      /\ status' = status /\ cbs' = cbs /\ pubs' = pubs /\ broker' = broker
  BY DEF ConsumeRecvedCb
<1>2. /\ Len(chan) # 0 /\ main # 0 /\ Frames(Tail(inbox), Len(chan), broker)
      /\ Sent(Head(inbox), Len(chan), broker) /\ Head(inbox).ans = "deliver"
  BY <1>1, FrameParsed, Zenon
<1>3. Client(chan', main', pub', broker') /\ Len(chan') = Len(chan)
  <2>1. "ack" \notin {"close", "consume"}
    OBVIOUS
  <2>2. QED
    BY <1>1, <2>1, Parts, SendClient, Words, Zenon
<1>4. Control'
  <2>1. status \in BOOLEAN /\ received \subseteq 1..broker.routed
    BY Zenon DEF IInv, Control
  <2>2. Head(inbox).msg \in 1..broker.routed
    BY <1>2, Zenon DEF Sent
  <2>3. received' \subseteq 1..broker'.routed
    BY <1>1, <2>1, <2>2, Zenon
  <2>4. QED
    BY <1>1, <1>2, <2>1, <2>3, KeepsControl, Zenon
<1>5. Len(chan') \in Nat /\ Len(chan) <= Len(chan')
  BY <1>3, Parts
<1>6. QED
  BY <1>1, <1>2, <1>3, <1>4, <1>5, Parts, Settles, Zenon

LEMMA CallbackStep ==
    ASSUME IInv, Callback
    PROVE  IInv'
<1>1. /\ cbs # <<>> /\ cbs' = Tail(cbs)
      /\ CASE Head(cbs).cb = "ready" ->
                IF chan[Head(cbs).ch].ready THEN ChannelOkCb
                ELSE UNCHANGED <<chan, main, pub, status>>
           [] Head(cbs).cb = "error" -> ErrCb
           [] Head(cbs).cb = "puberror" -> PubErrCb
      /\ pc' = pc /\ login' = login /\ connOpen' = connOpen /\ inbox' = inbox
      /\ received' = received /\ pubs' = pubs /\ broker' = broker
  BY Zenon DEF Callback
<1>2. Callbacks(Tail(cbs), Len(chan)) /\ Head(cbs) \in Cb /\ Head(cbs).ch \in 1..Len(chan)
  BY <1>1, Parts, CallbacksTail, Zenon
<1>3. Len(chan) # 0 /\ main # 0
  BY <1>2, Parts, Started
<1>4. Head(cbs).cb \in Calls /\ status \in BOOLEAN /\ received \subseteq 1..broker.routed
  BY <1>2, Parts DEF Cb, Control
<1>5. Moved
  <2>1. CASE Head(cbs).cb = "ready"
    <3>1. IF chan[Head(cbs).ch].ready THEN ChannelOkCb ELSE UNCHANGED <<chan, main, pub, status>>
      BY <1>1, <2>1
    <3>2. CASE chan[Head(cbs).ch].ready
      BY <1>3, <3>1, <3>2, ChannelOkCbMoves
    <3>3. CASE ~chan[Head(cbs).ch].ready
      <4>1. chan' = chan /\ main' = main /\ pub' = pub /\ status' = status
        BY <3>1, <3>3
      <4>2. QED
        BY <1>3, <1>4, <4>1, IdleMoves, Zenon
    <3>4. QED
      BY <3>2, <3>3
  <2>2. CASE Head(cbs).cb = "error"
    <3>1. ErrCb
      BY <1>1, <2>2
    <3>2. QED
      BY <1>3, <3>1, ErrCbMoves
  <2>3. CASE Head(cbs).cb = "puberror"
    <3>1. PubErrCb
      BY <1>1, <2>3
    <3>2. chan' = chan /\ main' = main /\ pub' = pub /\ status' \in BOOLEAN
      BY <3>1 DEF PubErrCb
    <3>3. QED
      BY <1>3, <3>2, IdleMoves, Zenon
  <2>4. QED
    BY <1>4, <2>1, <2>2, <2>3 DEF Calls
<1>6. /\ Client(chan', main', pub', broker') /\ Len(chan') \in Nat /\ Len(chan) <= Len(chan')
      /\ main' # 0 /\ status' \in BOOLEAN
  BY <1>1, <1>5, Zenon DEF Moved
<1>7. Control'
  BY <1>1, <1>3, <1>4, <1>6, KeepsControl, Zenon
<1>8. QED
  BY <1>1, <1>2, <1>6, <1>7, Parts, Settles, Zenon

LEMMA LoginStep ==
    ASSUME IInv, LoginOk
    PROVE  IInv'
<1>1. /\ login' = TRUE /\ pc' = pc /\ chan' = chan /\ main' = main /\ pub' = pub
      /\ connOpen' = connOpen /\ status' = status /\ cbs' = cbs /\ inbox' = inbox
      /\ received' = received /\ pubs' = pubs /\ broker' = broker
  BY DEF LoginOk
<1>2. Control'
  BY <1>1, Parts DEF Control
<1>3. QED
  BY <1>1, <1>2, Parts DEF IInv

\* A step of the user's thread leaves the worker's part alone.
LEMMA UserStep ==
    ASSUME IInv, login' = login, connOpen' \in BOOLEAN, cbs' = cbs, inbox' = inbox,
           received' = received, broker' = broker, pc' \in Pcs, status' \in BOOLEAN,
           pubs' \in 0..MaxPubs, Client(chan', main', pub', broker),
           Len(chan') \in Nat, Len(chan) <= Len(chan'),
           IF pc' \in {"login", "failed"} THEN Len(chan') = 0 ELSE main' # 0
    PROVE  IInv'
<1>1. Control'
  <2>1. login \in BOOLEAN /\ received \subseteq 1..broker.routed
    BY Zenon DEF IInv, Control
  <2>2. QED
    BY <2>1, Zenon DEF Control
<1>2. QED
  BY <1>1, Parts, Settles, Zenon

LEMMA ControlNow ==
    ASSUME IInv
    PROVE  /\ pc \in Pcs /\ connOpen \in BOOLEAN /\ status \in BOOLEAN /\ pubs \in 0..MaxPubs
           /\ Len(chan) <= Len(chan)
           /\ IF pc \in {"login", "failed"} THEN Len(chan) = 0 ELSE main # 0
<1>1. Len(chan) <= Len(chan)
  BY Parts
<1>2. QED
  BY <1>1, Zenon DEF IInv, Control

\* The user's thread changes nothing but pc.
LEMMA WaitTimesOutStep ==
    ASSUME IInv, WaitTimesOut
    PROVE  IInv'
<1>1. /\ pc = "login" /\ pc' = "failed"
      /\ login' = login /\ connOpen' = connOpen /\ cbs' = cbs /\ inbox' = inbox
      /\ received' = received /\ broker' = broker
      /\ chan' = chan /\ main' = main /\ pub' = pub /\ status' = status /\ pubs' = pubs
  BY DEF WaitTimesOut, UserOnly
<1>2. pc' \in Pcs /\ pc' \in {"login", "failed"} /\ Len(chan) = 0
  BY <1>1, ControlNow DEF Pcs
<1>3. QED
  BY <1>1, <1>2, ControlNow, Parts, UserStep, Zenon

LEMMA CreatesStep ==
    ASSUME IInv, StartCreatesChannel
    PROVE  IInv'
<1>1. /\ pc = "login" /\ pc' = "registering"
      /\ main' = Len(chan) + 1 /\ chan' = Open(chan, "main", FALSE)
      /\ login' = login /\ connOpen' = connOpen /\ cbs' = cbs /\ inbox' = inbox
      /\ received' = received /\ broker' = broker
      /\ pub' = pub /\ status' = status /\ pubs' = pubs
  BY DEF StartCreatesChannel, UserOnly
<1>2. pc' \in Pcs /\ pc' \notin {"login", "failed"} /\ Len(chan) = 0
  BY <1>1, ControlNow DEF Pcs
<1>3. main' = 1 /\ main' # 0
  BY <1>1, <1>2
<1>4. ~Consumes(broker, 1)
  BY <1>2, Parts, NewConsumesNothing
<1>5. Client(chan', main', pub', broker) /\ Len(chan') = 1
  BY <1>1, <1>2, <1>3, <1>4, Parts, FirstOpen
<1>6. Len(chan') \in Nat /\ Len(chan) <= Len(chan')
  BY <1>2, <1>5
<1>7. QED
  BY <1>1, <1>2, <1>3, <1>5, <1>6, ControlNow, UserStep, Zenon

\* onReady stores its callback.
LEMMA StoresStep ==
    ASSUME IInv, StoresCallback \/ StoresLate
    PROVE  IInv'
<1>1. /\ pc \in {"registering", "storing"} /\ pc' \in {"checking", "started"}
      /\ chan' = [chan EXCEPT ![1].ready = TRUE]
      /\ login' = login /\ connOpen' = connOpen /\ cbs' = cbs /\ inbox' = inbox
      /\ received' = received /\ broker' = broker
      /\ main' = main /\ pub' = pub /\ status' = status /\ pubs' = pubs
  BY DEF StoresCallback, StoresLate, UserOnly
<1>2. pc' \in Pcs /\ pc' \notin {"login", "failed"} /\ main # 0
  BY <1>1, ControlNow DEF Pcs
<1>3. 1 \in 1..Len(chan)
  BY <1>2, Parts
<1>4. Client(chan', main', pub', broker) /\ Len(chan') = Len(chan)
  BY <1>1, <1>3, Parts, StoredClient
<1>5. Len(chan') \in Nat /\ Len(chan) <= Len(chan')
  BY <1>4, Parts
<1>6. QED
  BY <1>1, <1>2, <1>4, <1>5, ControlNow, UserStep, Zenon

\* onReady looks at the state of the channel.
LEMMA ChecksStep ==
    ASSUME IInv, ChecksReady \/ ChecksEarly
    PROVE  IInv'
<1>1. /\ pc \in {"registering", "checking"} /\ pc' \in {"storing", "started"}
      /\ login' = login /\ connOpen' = connOpen /\ cbs' = cbs /\ inbox' = inbox
      /\ received' = received /\ broker' = broker /\ pubs' = pubs
  BY DEF ChecksReady, ChecksEarly, UserOnly
<1>2. IF chan[1].st = "ready" THEN ChannelOkCb ELSE UNCHANGED <<chan, main, pub, status>>
  BY Zenon DEF ChecksReady, ChecksEarly
<1>3. pc' \in Pcs /\ pc' \notin {"login", "failed"} /\ main # 0
  BY <1>1, ControlNow DEF Pcs
<1>4. Moved
  <2>1. CASE chan[1].st = "ready"
    BY <1>2, <1>3, <2>1, ChannelOkCbMoves
  <2>2. CASE chan[1].st # "ready"
    <3>1. chan' = chan /\ main' = main /\ pub' = pub /\ status' = status
      BY <1>2, <2>2
    <3>2. QED
      BY <1>3, <3>1, ControlNow, IdleMoves, Zenon
  <2>3. QED
    BY <2>1, <2>2
<1>5. QED
  BY <1>1, <1>3, <1>4, ControlNow, UserStep, Zenon DEF Moved

LEMMA PublishStep ==
    ASSUME IInv, PublishMsg
    PROVE  IInv'
<1>1. /\ pc = "started" /\ pubs < MaxPubs /\ pubs' = pubs + 1
      /\ IF pub = 0
         THEN pc' = "crashed" /\ UNCHANGED chan
         ELSE chan' = Send(chan, pub, "publish") /\ UNCHANGED pc
      /\ login' = login /\ connOpen' = connOpen /\ cbs' = cbs /\ inbox' = inbox
      /\ received' = received /\ broker' = broker
      /\ main' = main /\ pub' = pub /\ status' = status
  BY DEF PublishMsg, UserOnly
<1>2. pc' \in Pcs /\ pc' \notin {"login", "failed"} /\ main # 0
  BY <1>1, ControlNow DEF Pcs
<1>3. pubs' \in 0..MaxPubs
  BY <1>1, ControlNow, SessionAssumption
<1>4. Client(chan', main', pub', broker) /\ Len(chan') = Len(chan)
  <2>1. CASE pub = 0
    <3>1. chan' = chan
      BY <1>1, <2>1
    <3>2. QED
      BY <1>1, <3>1, Parts, Zenon
  <2>2. CASE pub # 0
    <3>1. chan' = Send(chan, pub, "publish")
      BY <1>1, <2>2
    <3>2. "publish" \notin {"close", "consume"}
      OBVIOUS
    <3>3. QED
      BY <1>1, <3>1, <3>2, Parts, SendClient, Words, Zenon
  <2>3. QED
    BY <2>1, <2>2
<1>5. Len(chan') \in Nat /\ Len(chan) <= Len(chan')
  BY <1>4, Parts
<1>6. QED
  BY <1>1, <1>2, <1>3, <1>4, <1>5, ControlNow, UserStep, Zenon

LEMMA ReleaseStep ==
    ASSUME IInv, Releases
    PROVE  IInv'
<1>1. /\ pc \in {"started", "releasing", "closing"}
      /\ pc' \in {"releasing", "closing", "crashed", "stopped"}
      /\ connOpen' \in BOOLEAN
      /\ chan' \in {chan, Close(chan, main), Close(chan, pub)}
      /\ login' = login /\ cbs' = cbs /\ inbox' = inbox
      /\ received' = received /\ broker' = broker
      /\ main' = main /\ pub' = pub /\ status' = status /\ pubs' = pubs
  BY ControlNow DEF Releases, ReleaseMain, ReleasePub, ReleaseConnection, ReleaseFinit, UserOnly
<1>2. pc' \in Pcs /\ pc' \notin {"login", "failed"} /\ main # 0
  BY <1>1, ControlNow DEF Pcs
<1>3. Client(chan', main', pub', broker) /\ Len(chan') = Len(chan)
  BY <1>1, Parts, CloseClient, Zenon
<1>4. Len(chan') \in Nat /\ Len(chan) <= Len(chan')
  BY <1>3, Parts
<1>5. QED
  BY <1>1, <1>2, <1>3, <1>4, ControlNow, UserStep, Zenon

-----------------------------------------------------------------------------
(* The steps of the broker: it becomes d *)

\* To a channel it does not serve in this step.
LEMMA FineKept ==
    ASSUME NEW r, NEW x, NEW m, NEW p, NEW b, Fine(r, x, m, p, b), NEW d,
           b.closed \subseteq d.closed,
           Declared(b, x) => Declared(d, x), Consumes(d, x) => Consumes(b, x)
    PROVE  Fine(r, x, m, p, d)
<1>1. Declares(r.req, x, d)
  BY Zenon DEF Fine, Declares
<1>2. QED
  BY <1>1, Zenon DEF Fine

LEMMA OthersKept ==
    ASSUME IInv, NEW c, NEW d, broker.closed \subseteq d.closed,
           \A x : x # c => (Declared(broker, x) => Declared(d, x))
                            /\ (Consumes(d, x) => Consumes(broker, x))
    PROVE  \A x \in 1..Len(chan) : x # c => Fine(chan[x], x, main, pub, d)
<1>1. \A x \in 1..Len(chan) : Fine(chan[x], x, main, pub, broker)
  BY Zenon DEF IInv, Client
<1>2. QED
  BY <1>1, FineKept, Zenon

\* The first request of a channel that stays open is served.
LEMMA TailFine ==
    ASSUME NEW r, NEW c, NEW m, NEW p, NEW b, Fine(r, c, m, p, b), r.req # <<>>,
           Head(r.req) # "close", NEW x \in Chan, x.st = r.st, x.req = Tail(r.req), NEW d,
           b.closed \subseteq d.closed,
           Declared(b, c) \/ Head(r.req) = "queue" => Declared(d, c),
           Consumes(d, c) => Consumes(b, c) \/ Head(r.req) = "consume"
    PROVE  Fine(x, c, m, p, d)
<1>1. r.req \in Seq(Ops)
  BY ChanFields, Zenon DEF Fine
<1>2. Has(x.req, "consume") => Has(r.req, "consume")
  BY <1>1, HasTail
<1>3. Has(r.req, "close") => Has(x.req, "close")
  BY <1>1, HasTail
<1>4. Declares(x.req, c, d)
  <2>1. Declares(r.req, c, b)
    BY Zenon DEF Fine
  <2>2. QED
    BY <1>1, <2>1, DeclaresTail, Zenon
<1>5. Head(r.req) = "consume" => Has(r.req, "consume")
  <2>1. 1 \in 1..Len(r.req) /\ Head(r.req) = r.req[1]
    BY <1>1, SequenceTail
  <2>2. QED
    BY <2>1, Zenon DEF Has
<1>6. QED
  BY <1>2, <1>3, <1>4, <1>5, Zenon DEF Fine

\* A channel that the broker closes.
LEMMA GoneFine ==
    ASSUME NEW r, NEW c, NEW m, NEW p, NEW b, Fine(r, c, m, p, b),
           NEW x \in Chan, x.st = r.st, NEW d, c \in d.closed, Declares(x.req, c, d)
    PROVE  Fine(x, c, m, p, d)
BY Zenon DEF Fine

LEMMA FramesAppend ==
    ASSUME NEW s, NEW n, NEW b, Frames(s, n, b), NEW f \in Frame, Sent(f, n, b)
    PROVE  Frames(Append(s, f), n, b)
<1> DEFINE L == Len(s)
           t == Append(s, f)
<1>1. s \in Seq(Frame) /\ \A i \in 1..L : Sent(s[i], n, b)
  BY Zenon DEF Frames
<1>2. L \in Nat /\ t \in Seq(Frame) /\ Len(t) = L + 1 /\ t[L + 1] = f /\ \A i \in 1..L : t[i] = s[i]
  BY <1>1, AppendProperties, LenProperties
<1> HIDE DEF t, L
<1>3. \A i \in 1..(L + 1) : i = L + 1 \/ i \in 1..L
  BY <1>2
<1>4. QED
  BY <1>1, <1>2, <1>3, Zenon DEF Frames, t

LEMMA FramesOf ==
    ASSUME NEW s, NEW n, NEW b, Frames(s, n, b), NEW d, b.closed \subseteq d.closed,
           1..b.routed \subseteq 1..d.routed
    PROVE  Frames(s, n, d)
BY Zenon DEF Frames, Sent

LEMMA AnswerIsSent ==
    ASSUME NEW n, NEW b, NEW c \in 1..n, NEW a \in Answer, c \in b.closed \/ a = "open-ok", c \in Nat
    PROVE  [ch |-> c, ans |-> a] \in Frame /\ Sent([ch |-> c, ans |-> a], n, b)
BY DEF Frame, Sent, Answer

\* A step of the broker leaves the program alone, but for its requests and frames.
LEMMA BrokerStep ==
    ASSUME IInv, pc' = pc, login' = login, main' = main, pub' = pub, connOpen' = connOpen,
           status' = status, cbs' = cbs, received' = received, pubs' = pubs,
           Client(chan', main, pub, broker'), Len(chan') = Len(chan),
           Serving(broker', Len(chan)), Frames(inbox', Len(chan), broker'),
           1..broker.routed \subseteq 1..broker'.routed
    PROVE  IInv'
<1>1. Control'
  <2>1. Control
    BY Parts, Zenon
  <2>2. received' \subseteq 1..broker'.routed
    BY <2>1, Zenon DEF Control
  <2>3. QED
    BY <2>1, <2>2, Zenon DEF Control
<1>2. Len(chan') \in Nat /\ Len(chan) <= Len(chan')
  BY Parts
<1>3. QED
  BY <1>1, <1>2, Parts, Settles, Zenon

\* The channel that is served, and its requests.
LEMMA ServedChannel ==
    ASSUME IInv, NEW c \in DOMAIN chan, Serves(c)
    PROVE  /\ c \in 1..Len(chan) /\ c \in Nat /\ c \notin broker.closed
           /\ Fine(chan[c], c, main, pub, broker) /\ chan[c] \in Chan
           /\ chan[c].req # <<>> /\ chan[c].req \in Seq(Ops) /\ chan[c].todo \in Seq(Todos)
           /\ Tail(chan[c].req) \in Seq(Ops)
           /\ pc' = pc /\ login' = login /\ main' = main /\ pub' = pub /\ connOpen' = connOpen
           /\ status' = status /\ cbs' = cbs /\ received' = received /\ pubs' = pubs
<1>1. c \in 1..Len(chan) /\ c \in Nat
  BY Parts
<1>2. Fine(chan[c], c, main, pub, broker) /\ chan[c] \in Chan
  BY <1>1, Parts, ElementIsFine, Zenon
<1>3. chan[c].req \in Seq(Ops) /\ chan[c].todo \in Seq(Todos)
  BY <1>2, ChanFields, Zenon
<1>4. chan[c].req # <<>> /\ c \notin broker.closed
      /\ pc' = pc /\ login' = login /\ main' = main /\ pub' = pub /\ connOpen' = connOpen
      /\ status' = status /\ cbs' = cbs /\ received' = received /\ pubs' = pubs
  BY DEF Serves
<1>5. Tail(chan[c].req) \in Seq(Ops)
  BY <1>3, <1>4, SequenceTail, Zenon
<1>6. QED
  BY <1>1, <1>2, <1>3, <1>4, <1>5, Zenon

\* Takes, Succeeds and a refusal leave it the requests req; no other channel changes.
Left(c, req) ==
    /\ chan' \in Seq(Chan) /\ Len(chan') = Len(chan)
    /\ \A x \in 1..Len(chan) : x # c => chan'[x] = chan[x]
    /\ chan'[c] \in Chan /\ chan'[c].st = chan[c].st /\ chan'[c].req = req

LEMMA LeftBy ==
    ASSUME NEW cs \in Seq(Chan), NEW c \in 1..Len(cs), NEW y \in Chan
    PROVE  /\ [cs EXCEPT ![c] = y] \in Seq(Chan) /\ Len([cs EXCEPT ![c] = y]) = Len(cs)
           /\ \A x \in 1..Len(cs) : x # c => [cs EXCEPT ![c] = y][x] = cs[x]
           /\ [cs EXCEPT ![c] = y][c] = y
BY ExceptSeq

LEMMA TakesLeaves ==
    ASSUME IInv, NEW c \in DOMAIN chan, NEW req \in Seq(Ops), chan' = [chan EXCEPT ![c].req = req]
    PROVE  Left(c, req)
<1> DEFINE y == [chan[c] EXCEPT !.req = req]
<1>1. chan[c] \in Chan /\ chan \in Seq(Chan) /\ c \in 1..Len(chan)
  BY Parts, ElementIsFine, Zenon
<1>2. chan' = [chan EXCEPT ![c] = y]
  OBVIOUS
<1>3. y \in Chan /\ y.st = chan[c].st /\ y.req = req
  BY <1>1, ReqWith
<1>4. /\ chan' \in Seq(Chan) /\ Len(chan') = Len(chan)
      /\ \A x \in 1..Len(chan) : x # c => chan'[x] = chan[x]
      /\ chan'[c] = y
  BY <1>1, <1>2, <1>3, LeftBy
<1>5. QED
  BY <1>3, <1>4, Zenon DEF Left

LEMMA SucceedsLeaves ==
    ASSUME IInv, NEW c \in DOMAIN chan, Serves(c), Succeeds(c)
    PROVE  Left(c, Tail(chan[c].req)) /\ inbox' = inbox
<1> DEFINE r == chan[c]
           z == [r EXCEPT !.req = Tail(r.req)]
           y == [z EXCEPT !.todo = Rest(r.todo)]
<1>1. /\ r \in Chan /\ Tail(r.req) \in Seq(Ops) /\ Rest(r.todo) \in Seq(Todos)
      /\ chan \in Seq(Chan) /\ c \in 1..Len(chan)
  BY ServedChannel, Parts, RestOf, Zenon
<1>2. chan' = [chan EXCEPT ![c].req = Tail(@), ![c].todo = Rest(@)] /\ inbox' = inbox
  BY DEF Succeeds
<1>3. [chan EXCEPT ![c].req = Tail(@), ![c].todo = Rest(@)] = [chan EXCEPT ![c] = y]
  BY <1>1, Parts DEF Chan
<1>4. z \in Chan /\ z.st = r.st /\ z.req = Tail(r.req)
  BY <1>1, ReqWith, Zenon
<1> HIDE DEF z
<1>5. y \in Chan /\ y.st = r.st /\ y.req = Tail(r.req)
  BY <1>1, <1>4, TodoWith
<1>6. chan' = [chan EXCEPT ![c] = y]
  BY <1>2, <1>3, Zenon
<1> HIDE DEF y
<1>7. /\ chan' \in Seq(Chan) /\ Len(chan') = Len(chan)
      /\ \A x \in 1..Len(chan) : x # c => chan'[x] = chan[x]
      /\ chan'[c] = y
  BY <1>1, <1>5, <1>6, LeftBy
<1>8. QED
  BY <1>2, <1>5, <1>7, Zenon DEF Left

LEMMA ServedClient ==
    ASSUME IInv, NEW c, NEW req, Left(c, req), NEW d, Fine(chan'[c], c, main, pub, d),
           broker.closed \subseteq d.closed,
           \A x : x # c => (Declared(broker, x) => Declared(d, x))
                            /\ (Consumes(d, x) => Consumes(broker, x))
    PROVE  Client(chan', main, pub, d) /\ Len(chan') = Len(chan)
<1>1. ASSUME NEW x \in 1..Len(chan) PROVE Fine(chan'[x], x, main, pub, d)
  <2>1. CASE x = c
    BY <2>1, Zenon
  <2>2. CASE x # c
    <3>1. chan'[x] = chan[x]
      BY <2>2, Zenon DEF Left
    <3>2. Fine(chan[x], x, main, pub, d)
      BY <2>2, OthersKept, Zenon
    <3>3. QED
      BY <3>1, <3>2, Zenon
  <2>3. QED
    BY <2>1, <2>2
<1>2. chan' \in Seq(Chan) /\ Len(chan') = Len(chan)
  BY Zenon DEF Left
<1>3. QED
  BY <1>1, <1>2, Parts, Zenon DEF Client

\* The broker closes channel c.
LEMMA DropIs ==
    ASSUME NEW n, Serving(broker, n), NEW c
    PROVE  /\ DOMAIN Drop(c) = BrokerFields
           /\ Drop(c).closed = broker.closed \cup {c}
           /\ Drop(c).consumers = {x \in broker.consumers : x[1] # c}
           /\ Drop(c).routed = broker.routed /\ Drop(c).refusals = broker.refusals
           /\ Drop(c).queues = broker.queues /\ Drop(c).last = broker.last
BY DEF Serving, Drop, BrokerFields

\* Two of its fields are as before but for the channels it has closed.
LEMMA ClosesServing ==
    ASSUME NEW n, NEW b, Serving(b, n), NEW c, NEW d, DOMAIN d = BrokerFields,
           d.closed = b.closed \cup {c}, d.consumers = {x \in b.consumers : x[1] # c},
           d.routed = b.routed, d.refusals \in 0..MaxRefusals,
           d.queues = b.queues, d.last = b.last
    PROVE  /\ Serving(d, n) /\ b.closed \subseteq d.closed /\ c \in d.closed
           /\ \A x : (Declared(b, x) => Declared(d, x)) /\ (Consumes(d, x) => Consumes(b, x))
<1>1. \A x \in d.consumers : x \in b.consumers /\ x[1] # c
  BY Zenon
<1>2. \A x \in d.consumers : x[1] \in (1..n) \ d.closed /\ x[2] \in 1..Len(d.queues)
  <2>1. \A x \in b.consumers : x[1] \in (1..n) \ b.closed /\ x[2] \in 1..Len(b.queues)
    BY Zenon DEF Serving
  <2>2. QED
    BY <1>1, <2>1, Zenon
<1>3. Serving(d, n)
  BY <1>2, Zenon DEF Serving
<1>4. \A x : (Declared(b, x) => Declared(d, x)) /\ (Consumes(d, x) => Consumes(b, x))
  BY <1>1, Zenon DEF Declared, Consumes
<1>5. b.closed \subseteq d.closed /\ c \in d.closed
  BY Zenon
<1>6. QED
  BY <1>3, <1>4, <1>5

\* A channel is closed by a refusal: what it was asked is forgotten.
LEMMA ClosesStep ==
    ASSUME IInv, NEW c \in DOMAIN chan, Serves(c), NEW req, Left(c, req),
           req = <<>> \/ (req = Tail(chan[c].req) /\ Head(chan[c].req) = "close"), NEW a \in Answer,
           inbox' = Append(inbox, [ch |-> c, ans |-> a]), NEW d, broker' = d,
           DOMAIN d = BrokerFields,
           d.closed = broker.closed \cup {c},
           d.consumers = {x \in broker.consumers : x[1] # c},
           d.routed = broker.routed, d.refusals \in 0..MaxRefusals,
           d.queues = broker.queues, d.last = broker.last
    PROVE  IInv'
<1>1. /\ Serving(d, Len(chan)) /\ broker.closed \subseteq d.closed /\ c \in d.closed
      /\ \A x : (Declared(broker, x) => Declared(d, x)) /\ (Consumes(d, x) => Consumes(broker, x))
  BY Parts, ClosesServing, Zenon
<1>2. /\ c \in 1..Len(chan) /\ Fine(chan[c], c, main, pub, broker) /\ chan[c].req # <<>>
      /\ chan[c].req \in Seq(Ops) /\ c \in Nat
      /\ pc' = pc /\ login' = login /\ main' = main /\ pub' = pub /\ connOpen' = connOpen
      /\ status' = status /\ cbs' = cbs /\ received' = received /\ pubs' = pubs
  BY ServedChannel, Zenon
<1>3. chan'[c] \in Chan /\ chan'[c].st = chan[c].st /\ chan'[c].req = req
  BY Zenon DEF Left
<1>4. Declares(req, c, d)
  <2>1. CASE req = <<>>
    <3>1. \A i \in 1..Len(req) : FALSE
      BY <2>1
    <3>2. QED
      BY <3>1, Zenon DEF Declares
  <2>2. CASE req = Tail(chan[c].req) /\ Head(chan[c].req) = "close"
    <3>1. Head(chan[c].req) # "queue"
      BY <2>2
    <3>2. Declares(chan[c].req, c, broker)
      BY <1>2, Zenon DEF Fine
    <3>3. Declares(Tail(chan[c].req), c, d)
      BY <1>1, <1>2, <3>1, <3>2, DeclaresTail, Zenon
    <3>4. QED
      BY <2>2, <3>3
  <2>3. QED
    BY <2>1, <2>2
<1>5. Fine(chan'[c], c, main, pub, d)
  BY <1>1, <1>2, <1>3, <1>4, GoneFine, Zenon
<1>6. Client(chan', main, pub, d) /\ Len(chan') = Len(chan)
  BY <1>1, <1>5, ServedClient, Zenon
<1>7. 1..broker.routed \subseteq 1..d.routed
  OBVIOUS
<1>8. Frames(inbox', Len(chan), d)
  <2>1. Frames(inbox, Len(chan), d)
    BY <1>1, <1>7, Parts, FramesOf, Zenon
  <2>2. [ch |-> c, ans |-> a] \in Frame /\ Sent([ch |-> c, ans |-> a], Len(chan), d)
    BY <1>1, <1>2, AnswerIsSent, Zenon
  <2>3. QED
    BY <2>1, <2>2, FramesAppend, Zenon
<1>9. QED
  BY <1>1, <1>2, <1>6, <1>7, <1>8, BrokerStep, Zenon

LEMMA RefuseStep ==
    ASSUME IInv, NEW c \in DOMAIN chan, Refuse(c)
    PROVE  IInv'
<1> DEFINE d == [Drop(c) EXCEPT !.refusals = @ + 1]
<1>1. /\ Serves(c) /\ broker.refusals < MaxRefusals
      /\ chan' = [chan EXCEPT ![c].req = <<>>]
      /\ inbox' = Append(inbox, [ch |-> c, ans |-> "refused"])
      /\ broker' = d
  BY DEF Refuse, Answers
<1>2. <<>> \in Seq(Ops) /\ "refused" \in Answer
  BY DEF Answer
<1>3. Left(c, <<>>)
  BY <1>1, <1>2, TakesLeaves, Zenon
<1>4. /\ DOMAIN Drop(c) = BrokerFields
      /\ Drop(c).closed = broker.closed \cup {c}
      /\ Drop(c).consumers = {x \in broker.consumers : x[1] # c}
      /\ Drop(c).routed = broker.routed /\ Drop(c).refusals = broker.refusals
      /\ Drop(c).queues = broker.queues /\ Drop(c).last = broker.last
  BY Parts, DropIs, Zenon
<1>5. /\ DOMAIN d = BrokerFields /\ d.refusals = broker.refusals + 1
      /\ d.closed = Drop(c).closed /\ d.consumers = Drop(c).consumers
      /\ d.routed = Drop(c).routed /\ d.queues = Drop(c).queues /\ d.last = Drop(c).last
  BY <1>4 DEF BrokerFields
<1>6. broker.refusals + 1 \in 0..MaxRefusals
  <2>1. broker.refusals \in 0..MaxRefusals
    BY Parts, Zenon DEF Serving
  <2>2. QED
    BY <1>1, <2>1, SessionAssumption
<1> HIDE DEF d
<1>7. QED
  BY <1>1, <1>2, <1>3, <1>4, <1>5, <1>6, ClosesStep, Zenon

LEMMA CloseChannelStep ==
    ASSUME IInv, NEW c \in DOMAIN chan, CloseChannel(c)
    PROVE  IInv'
<1>1. /\ Serves(c) /\ Head(chan[c].req) = "close"
      /\ chan' = [chan EXCEPT ![c].req = Tail(@)]
      /\ inbox' = Append(inbox, [ch |-> c, ans |-> "closed"])
      /\ broker' = Drop(c)
  BY DEF CloseChannel, Answers, Takes
<1>2. Tail(chan[c].req) \in Seq(Ops) /\ "closed" \in Answer
  BY <1>1, ServedChannel DEF Answer
<1>3. chan' = [chan EXCEPT ![c].req = Tail(chan[c].req)]
  BY <1>1
<1>4. Left(c, Tail(chan[c].req))
  BY <1>2, <1>3, TakesLeaves, Zenon
<1>5. /\ DOMAIN Drop(c) = BrokerFields
      /\ Drop(c).closed = broker.closed \cup {c}
      /\ Drop(c).consumers = {x \in broker.consumers : x[1] # c}
      /\ Drop(c).routed = broker.routed /\ Drop(c).refusals = broker.refusals
      /\ Drop(c).queues = broker.queues /\ Drop(c).last = broker.last
  BY Parts, DropIs, Zenon
<1>6. broker.refusals \in 0..MaxRefusals
  BY Parts, Zenon DEF Serving
<1>7. QED
  BY <1>1, <1>2, <1>4, <1>5, <1>6, ClosesStep, Zenon

LEMMA TakeAckStep ==
    ASSUME IInv, NEW c \in DOMAIN chan, TakeAck(c)
    PROVE  IInv'
<1>1. /\ Serves(c) /\ Head(chan[c].req) = "ack"
      /\ chan' = [chan EXCEPT ![c].req = Tail(chan[c].req)]
      /\ inbox' = inbox /\ broker' = broker
  BY DEF TakeAck, Takes
<1>2. /\ Tail(chan[c].req) \in Seq(Ops) /\ Fine(chan[c], c, main, pub, broker)
      /\ chan[c].req # <<>>
      /\ pc' = pc /\ login' = login /\ main' = main /\ pub' = pub /\ connOpen' = connOpen
      /\ status' = status /\ cbs' = cbs /\ received' = received /\ pubs' = pubs
  BY <1>1, ServedChannel, Zenon
<1>3. Left(c, Tail(chan[c].req))
  BY <1>1, <1>2, TakesLeaves, Zenon
<1>4. Head(chan[c].req) # "close" /\ Head(chan[c].req) # "queue"
  BY <1>1
<1>5. Fine(chan'[c], c, main, pub, broker)
  BY <1>2, <1>3, <1>4, TailFine, Zenon DEF Left
<1>6. Client(chan', main, pub, broker) /\ Len(chan') = Len(chan)
  BY <1>3, <1>5, ServedClient, Zenon
<1>7. QED
  BY <1>1, <1>2, <1>6, Parts, BrokerStep, Zenon

\* A request that closes nothing is served.
LEMMA ServesStep ==
    ASSUME IInv, NEW c \in DOMAIN chan, Serves(c), Left(c, Tail(chan[c].req)),
           Head(chan[c].req) # "close", NEW d, broker' = d, d.closed = broker.closed,
           Serving(d, Len(chan)), 1..broker.routed \subseteq 1..d.routed,
           \A x : Declared(broker, x) \/ (x = c /\ Head(chan[c].req) = "queue") => Declared(d, x),
           \A x : Consumes(d, x) => Consumes(broker, x) \/ (x = c /\ Head(chan[c].req) = "consume"),
           inbox' = inbox \/ inbox' = Append(inbox, [ch |-> c, ans |-> "open-ok"])
    PROVE  IInv'
<1>1. /\ c \in 1..Len(chan) /\ c \in Nat /\ Fine(chan[c], c, main, pub, broker)
      /\ chan[c].req # <<>>
      /\ pc' = pc /\ login' = login /\ main' = main /\ pub' = pub /\ connOpen' = connOpen
      /\ status' = status /\ cbs' = cbs /\ received' = received /\ pubs' = pubs
  BY ServedChannel, Zenon
<1>2. broker.closed \subseteq d.closed
  BY Zenon
<1>3. Fine(chan'[c], c, main, pub, d)
  BY <1>1, <1>2, TailFine, Zenon DEF Left
<1>4. Client(chan', main, pub, d) /\ Len(chan') = Len(chan)
  BY <1>2, <1>3, ServedClient, Zenon
<1>5. Frames(inbox', Len(chan), d)
  <2>1. Frames(inbox, Len(chan), d)
    BY <1>2, Parts, FramesOf, Zenon
  <2>2. "open-ok" \in Answer
    BY DEF Answer
  <2>3. [ch |-> c, ans |-> "open-ok"] \in Frame /\ Sent([ch |-> c, ans |-> "open-ok"], Len(chan), d)
    BY <1>1, <2>2, AnswerIsSent, Zenon
  <2>4. QED
    BY <2>1, <2>3, FramesAppend, Zenon
<1>6. QED
  BY <1>1, <1>4, <1>5, BrokerStep, Zenon

\* A message is in more queues.
LEMMA RoutedServing ==
    ASSUME NEW n, NEW b, Serving(b, n), NEW d, DOMAIN d = BrokerFields,
           d.routed = b.routed + 1, d.refusals = b.refusals, d.last = b.last,
           d.closed = b.closed, d.consumers = b.consumers,
           d.queues = [q \in DOMAIN b.queues |-> IF q \in b.bound THEN Append(b.queues[q], b.routed + 1)
                                                  ELSE b.queues[q]]
    PROVE  /\ Serving(d, n) /\ Len(d.queues) = Len(b.queues)
           /\ 1..b.routed \subseteq 1..d.routed
<1> DEFINE L == Len(b.queues)
           k == b.routed
           f(q) == IF q \in b.bound THEN Append(b.queues[q], k + 1) ELSE b.queues[q]
<1>1. k \in Nat /\ b.queues \in Seq(Seq(1..k)) /\ L \in Nat /\ DOMAIN b.queues = 1..L
  <2>1. k \in Nat /\ b.queues \in Seq(Seq(1..k))
    BY Zenon DEF Serving
  <2>2. QED
    BY <2>1, LenProperties
<1>2. 1..k \subseteq 1..(k + 1) /\ k + 1 \in 1..(k + 1) /\ k + 1 \in Nat
  BY <1>1
<1>3. ASSUME NEW q \in 1..L PROVE f(q) \in Seq(1..(k + 1))
  <2>1. b.queues[q] \in Seq(1..k)
    BY <1>1, ElementOfSeq, Zenon
  <2>2. b.queues[q] \in Seq(1..(k + 1))
    BY <1>2, <2>1, SeqMonotonic, Zenon
  <2> HIDE DEF k
  <2>3. Append(b.queues[q], k + 1) \in Seq(1..(k + 1))
    BY <1>2, <2>2, AppendProperties, Zenon
  <2>4. QED
    BY <2>2, <2>3
<1>4. d.queues = [q \in 1..L |-> f(q)]
  BY <1>1, Zenon
<1> HIDE DEF f, L, k
<1>5. d.queues \in Seq(Seq(1..(k + 1))) /\ Len(d.queues) = L
  <2> DEFINE S == Seq(1..(k + 1))
  <2>1. \A q \in 1..L : f(q) \in S
    BY <1>3
  <2> HIDE DEF S
  <2>2. d.queues \in [1..L -> S]
    BY <1>4, <2>1
  <2>3. d.queues \in Seq(S)
    BY <1>1, <2>2, SeqDef
  <2>4. Len(d.queues) = L
    BY <1>1, <2>2, <2>3
  <2>5. QED
    BY <2>3, <2>4 DEF S
<1>6. d.routed = k + 1
  BY DEF k
<1>7. d.routed \in Nat /\ d.queues \in Seq(Seq(1..d.routed)) /\ Len(d.queues) = Len(b.queues)
  BY <1>2, <1>5, <1>6, Zenon DEF L
<1>8. Serving(d, n)
  BY <1>7, Zenon DEF Serving
<1>9. QED
  BY <1>2, <1>6, <1>7, <1>8, Zenon DEF k

LEMMA RouteStep ==
    ASSUME IInv, NEW c \in DOMAIN chan, Route(c)
    PROVE  IInv'
<1>1. /\ Serves(c) /\ Head(chan[c].req) = "publish"
      /\ IF broker.exchange
         THEN /\ broker' = [broker EXCEPT
                   !.routed = @ + 1,
                   !.queues = [q \in DOMAIN @ |-> IF q \in broker.bound
                                                   THEN Append(@[q], broker.routed + 1)
                                                   ELSE @[q]]]
              /\ Takes(c) /\ UNCHANGED inbox
         ELSE /\ broker' = Drop(c) /\ Answers(c, "refused")
              /\ chan' = [chan EXCEPT ![c].req = <<>>]
  BY DEF Route
<1>2. CASE broker.exchange
  <2> DEFINE qs == [q \in DOMAIN broker.queues |-> IF q \in broker.bound
                                                   THEN Append(broker.queues[q], broker.routed + 1)
                                                   ELSE broker.queues[q]]
             d == [broker EXCEPT !.routed = broker.routed + 1, !.queues = qs]
  <2>1. broker' = d /\ chan' = [chan EXCEPT ![c].req = Tail(chan[c].req)] /\ inbox' = inbox
    BY <1>1, <1>2 DEF Takes
  <2> HIDE DEF qs
  <2>2. /\ DOMAIN d = BrokerFields /\ d.routed = broker.routed + 1
        /\ d.refusals = broker.refusals /\ d.last = broker.last /\ d.closed = broker.closed
        /\ d.consumers = broker.consumers /\ d.queues = qs
    BY Parts DEF Serving, BrokerFields
  <2> HIDE DEF d
  <2>3. /\ Serving(d, Len(chan)) /\ Len(d.queues) = Len(broker.queues)
        /\ 1..broker.routed \subseteq 1..d.routed
    <3>1. Serving(broker, Len(chan))
      BY Parts, Zenon
    <3>2. QED
      BY <2>2, <3>1, RoutedServing, Zenon DEF qs
  <2>4. Tail(chan[c].req) \in Seq(Ops) /\ Left(c, Tail(chan[c].req))
    BY <1>1, <2>1, ServedChannel, TakesLeaves, Zenon
  <2>5. \A x : Declared(broker, x) => Declared(d, x)
    <3>1. broker.queues \in Seq(Seq(1..broker.routed)) /\ d.queues \in Seq(Seq(1..d.routed))
      BY <2>3, Parts, Zenon DEF Serving
    <3>2. broker.queues # <<>> => d.queues # <<>>
      BY <2>3, <3>1, EmptySeq
    <3>3. QED
      BY <2>2, <3>2, Zenon DEF Declared
  <2>6. \A x : Consumes(d, x) => Consumes(broker, x)
    BY <2>2, Zenon DEF Consumes
  <2>7. Head(chan[c].req) # "close" /\ Head(chan[c].req) # "queue"
    BY <1>1
  <2>8. QED
    BY <1>1, <2>1, <2>2, <2>3, <2>4, <2>5, <2>6, <2>7, ServesStep, Zenon
<1>3. CASE ~broker.exchange
  <2>1. /\ chan' = [chan EXCEPT ![c].req = <<>>] /\ broker' = Drop(c)
        /\ inbox' = Append(inbox, [ch |-> c, ans |-> "refused"])
    BY <1>1, <1>3 DEF Answers
  <2>2. <<>> \in Seq(Ops) /\ "refused" \in Answer
    BY DEF Answer
  <2>3. Left(c, <<>>)
    BY <2>1, <2>2, TakesLeaves, Zenon
  <2>4. /\ DOMAIN Drop(c) = BrokerFields
        /\ Drop(c).closed = broker.closed \cup {c}
        /\ Drop(c).consumers = {x \in broker.consumers : x[1] # c}
        /\ Drop(c).routed = broker.routed /\ Drop(c).refusals = broker.refusals
        /\ Drop(c).queues = broker.queues /\ Drop(c).last = broker.last
    BY Parts, DropIs, Zenon
  <2>5. broker.refusals \in 0..MaxRefusals
    BY Parts, Zenon DEF Serving
  <2>6. QED
    BY <1>1, <2>1, <2>2, <2>3, <2>4, <2>5, ClosesStep, Zenon
<1>4. QED
  BY <1>2, <1>3

\* A message leaves a queue.
LEMMA DeliverStep ==
    ASSUME IInv, NEW x \in broker.consumers, Deliver(x[1], x[2])
    PROVE  IInv'
<1> DEFINE c == x[1]
           q == x[2]
           d == [broker EXCEPT !.queues[q] = Tail(@)]
           qs == [broker.queues EXCEPT ![q] = Tail(broker.queues[q])]
           f == [ch |-> c, ans |-> "deliver", msg |-> Head(broker.queues[q])]
<1>1. /\ broker.queues[q] # <<>> /\ inbox' = Append(inbox, f) /\ broker' = d
      /\ pc' = pc /\ login' = login /\ chan' = chan /\ main' = main /\ pub' = pub
      /\ connOpen' = connOpen
      /\ status' = status /\ cbs' = cbs /\ received' = received /\ pubs' = pubs
  BY DEF Deliver
<1>2. /\ c \in 1..Len(chan) /\ q \in 1..Len(broker.queues) /\ broker.routed \in Nat
      /\ broker.queues \in Seq(Seq(1..broker.routed)) /\ c \in Nat
  <2>1. /\ c \in 1..Len(chan) /\ q \in 1..Len(broker.queues) /\ broker.routed \in Nat
        /\ broker.queues \in Seq(Seq(1..broker.routed))
    BY Parts, Zenon DEF Serving
  <2>2. QED
    BY <2>1, Parts
<1>3. /\ broker.queues[q] \in Seq(1..broker.routed)
      /\ Tail(broker.queues[q]) \in Seq(1..broker.routed)
      /\ Head(broker.queues[q]) \in 1..broker.routed
  <2>1. broker.queues[q] \in Seq(1..broker.routed)
    BY <1>2, ElementOfSeq, Zenon
  <2>2. QED
    BY <1>1, <2>1, SequenceTail, Zenon
<1>4. /\ DOMAIN d = BrokerFields /\ d.routed = broker.routed
      /\ d.refusals = broker.refusals /\ d.last = broker.last /\ d.closed = broker.closed
      /\ d.consumers = broker.consumers /\ d.queues = qs
  BY Parts DEF Serving, BrokerFields
<1>5. f \in Frame /\ f.ch = c /\ f.ans = "deliver" /\ f.msg = Head(broker.queues[q])
  BY <1>2, <1>3 DEF Frame
<1>6. qs \in Seq(Seq(1..broker.routed)) /\ Len(qs) = Len(broker.queues)
  BY <1>2, <1>3, ExceptSeq
<1> HIDE DEF d, qs, f, c, q
<1>7. Serving(d, Len(chan))
  <2>1. Serving(broker, Len(chan))
    BY Parts, Zenon
  <2>2. QED
    BY <1>4, <1>6, <2>1, Zenon DEF Serving
<1>8. Client(chan, main, pub, d)
  <2>1. broker.queues # <<>> => d.queues # <<>>
    BY <1>2, <1>4, <1>6, EmptySeq
  <2>2. \A y : Declared(broker, y) => Declared(d, y)
    BY <1>4, <2>1, Zenon DEF Declared
  <2>3. \A y : Consumes(d, y) => Consumes(broker, y)
    BY <1>4, Zenon DEF Consumes
  <2>4. broker.closed \subseteq d.closed
    BY <1>4, Zenon
  <2>5. ASSUME NEW y \in 1..Len(chan) PROVE Fine(chan[y], y, main, pub, d)
    <3>1. Fine(chan[y], y, main, pub, broker)
      BY Zenon DEF IInv, Client
    <3>2. QED
      BY <2>2, <2>3, <2>4, <3>1, FineKept, Zenon
  <2>6. QED
    BY <2>5, Parts, Zenon DEF Client
<1>9. Frames(inbox', Len(chan), d)
  <2>1. Frames(inbox, Len(chan), d)
    <3>1. broker.closed \subseteq d.closed /\ 1..broker.routed \subseteq 1..d.routed
      BY <1>4, Zenon
    <3>2. QED
      BY <3>1, Parts, FramesOf, Zenon
  <2>2. Sent(f, Len(chan), d)
    <3>1. f.ans \notin {"refused", "closed"} /\ f.msg \in 1..d.routed /\ f.ch \in 1..Len(chan)
      BY <1>2, <1>3, <1>4, <1>5
    <3>2. QED
      BY <3>1, Zenon DEF Sent
  <2>3. QED
    BY <1>1, <1>5, <2>1, <2>2, FramesAppend, Zenon
<1>10. 1..broker.routed \subseteq 1..d.routed
  BY <1>4, Zenon
<1>11. QED
  BY <1>1, <1>7, <1>8, <1>9, <1>10, BrokerStep, Zenon

LEMMA LinkLostStep ==
    ASSUME IInv, LinkLost
    PROVE  IInv'
<1> DEFINE d == [broker EXCEPT !.lost = TRUE]
<1>1. /\ broker' = d /\ inbox' = <<>>
      /\ pc' = pc /\ login' = login /\ chan' = chan /\ main' = main /\ pub' = pub
      /\ connOpen' = connOpen
      /\ status' = status /\ cbs' = cbs /\ received' = received /\ pubs' = pubs
  BY DEF LinkLost
<1>2. /\ DOMAIN d = BrokerFields /\ d.routed = broker.routed
      /\ d.refusals = broker.refusals /\ d.last = broker.last /\ d.closed = broker.closed
      /\ d.consumers = broker.consumers /\ d.queues = broker.queues
  BY Parts DEF Serving, BrokerFields
<1> HIDE DEF d
<1>3. Serving(d, Len(chan))
  <2>1. Serving(broker, Len(chan))
    BY Parts, Zenon
  <2>2. QED
    BY <1>2, <2>1, Zenon DEF Serving
<1>4. Client(chan, main, pub, d)
  <2>1. /\ \A y : Declared(broker, y) => Declared(d, y)
        /\ \A y : Consumes(d, y) => Consumes(broker, y)
        /\ broker.closed \subseteq d.closed
    BY <1>2, Zenon DEF Declared, Consumes
  <2>2. ASSUME NEW y \in 1..Len(chan) PROVE Fine(chan[y], y, main, pub, d)
    <3>1. Fine(chan[y], y, main, pub, broker)
      BY Zenon DEF IInv, Client
    <3>2. QED
      BY <2>1, <3>1, FineKept, Zenon
  <2>3. QED
    BY <2>2, Parts, Zenon DEF Client
<1>5. Frames(<<>>, Len(chan), d)
  <2>1. <<>> \in Seq(Frame) /\ \A i \in 1..Len(<<>>) : FALSE
    OBVIOUS
  <2>2. QED
    BY <2>1, Zenon DEF Frames
<1>6. 1..broker.routed \subseteq 1..d.routed
  BY <1>2, Zenon
<1>7. QED
  BY <1>1, <1>3, <1>4, <1>5, <1>6, BrokerStep, Zenon

\* A queue is declared: channel c means it from now on.
LEMMA DeclaredServing ==
    ASSUME NEW n, Serving(broker, n), NEW c, NEW d, DOMAIN d = BrokerFields,
           d.routed = broker.routed, d.refusals = broker.refusals, d.closed = broker.closed,
           d.consumers = broker.consumers, d.queues = Append(broker.queues, <<>>),
           d.last = [x \in DOMAIN broker.last \cup {c} |->
                        IF x = c THEN Len(broker.queues) + 1 ELSE broker.last[x]]
    PROVE  Serving(d, n) /\ Declared(d, c) /\ \A x : Declared(broker, x) => Declared(d, x)
<1> DEFINE L == Len(broker.queues)
<1>1. broker.queues \in Seq(Seq(1..broker.routed)) /\ L \in Nat
  <2>1. broker.queues \in Seq(Seq(1..broker.routed))
    BY Zenon DEF Serving
  <2>2. QED
    BY <2>1, LenProperties
<1>2. /\ d.queues \in Seq(Seq(1..d.routed)) /\ Len(d.queues) = L + 1 /\ d.queues # <<>>
  <2> DEFINE S == Seq(1..broker.routed)
  <2>1. <<>> \in S
    OBVIOUS
  <2>2. broker.queues \in Seq(S)
    BY <1>1, Zenon
  <2> HIDE DEF S
  <2>3. /\ Append(broker.queues, <<>>) \in Seq(S) /\ Len(Append(broker.queues, <<>>)) = L + 1
        /\ Append(broker.queues, <<>>) # <<>>
    BY <2>1, <2>2, AppendProperties
  <2>4. QED
    BY <2>3, Zenon DEF S
<1>3. /\ \A x \in DOMAIN d.last :
            d.last[x] = L + 1 \/ (x \in DOMAIN broker.last /\ d.last[x] = broker.last[x])
      /\ c \in DOMAIN d.last /\ \A x \in DOMAIN broker.last : x \in DOMAIN d.last
  BY Zenon
<1> HIDE DEF L
<1>4. L + 1 \in 1..(L + 1) /\ \A q \in 1..L : q \in 1..(L + 1)
  BY <1>1
<1>5. \A x \in DOMAIN d.last : d.last[x] \in 1..Len(d.queues)
  <2>1. \A x \in DOMAIN broker.last : broker.last[x] \in 1..L
    BY Zenon DEF Serving, L
  <2>2. QED
    BY <1>2, <1>3, <1>4, <2>1, Zenon
<1>6. \A x \in d.consumers : x[1] \in (1..n) \ d.closed /\ x[2] \in 1..Len(d.queues)
  <2>1. \A x \in broker.consumers : x[1] \in (1..n) \ broker.closed /\ x[2] \in 1..L
    BY Zenon DEF Serving, L
  <2>2. QED
    BY <1>2, <1>4, <2>1, Zenon
<1>7. Serving(d, n)
  BY <1>2, <1>5, <1>6, Zenon DEF Serving
<1>8. Declared(d, c) /\ \A x : Declared(broker, x) => Declared(d, x)
  BY <1>2, <1>3, Zenon DEF Declared
<1>9. QED
  BY <1>7, <1>8

\* The broker's record but for the field that a request changes.
LEMMA Untouched ==
    ASSUME NEW n, Serving(broker, n), NEW v
    PROVE  /\ LET d == [broker EXCEPT !.exchange = v]
              IN /\ DOMAIN d = BrokerFields /\ d.routed = broker.routed
                 /\ d.refusals = broker.refusals /\ d.closed = broker.closed
                 /\ d.queues = broker.queues /\ d.last = broker.last /\ d.consumers = broker.consumers
           /\ LET d == [broker EXCEPT !.bound = v]
              IN /\ DOMAIN d = BrokerFields /\ d.routed = broker.routed
                 /\ d.refusals = broker.refusals /\ d.closed = broker.closed
                 /\ d.queues = broker.queues /\ d.last = broker.last /\ d.consumers = broker.consumers
           /\ LET d == [broker EXCEPT !.consumers = v]
              IN /\ DOMAIN d = BrokerFields /\ d.routed = broker.routed
                 /\ d.refusals = broker.refusals /\ d.closed = broker.closed
                 /\ d.queues = broker.queues /\ d.last = broker.last /\ d.consumers = v
BY DEF Serving, BrokerFields

\* The queue that is consumed exists.
LEMMA QueueOfIs ==
    ASSUME NEW n, Serving(broker, n), NEW c, Declared(broker, c)
    PROVE  QueueOf(c) \in 1..Len(broker.queues)
<1>1. /\ broker.queues \in Seq(Seq(1..broker.routed))
      /\ \A x \in DOMAIN broker.last : broker.last[x] \in 1..Len(broker.queues)
  BY Zenon DEF Serving
<1>2. CASE ServerNamed
  BY <1>1, <1>2 DEF Declared, QueueOf
<1>3. CASE ~ServerNamed
  <2>1. broker.queues # <<>> /\ QueueOf(c) = Len(broker.queues)
    BY <1>3, Zenon DEF Declared, QueueOf
  <2>2. QED
    BY <1>1, <2>1, EmptySeq
<1>4. QED
  BY <1>2, <1>3

LEMMA ServeStep ==
    ASSUME IInv, NEW c \in DOMAIN chan, Serve(c)
    PROVE  IInv'
<1> DEFINE op == Head(chan[c].req)
<1>1. /\ Serves(c) /\ op \in SetupOps \cup {"open"} /\ Serving(broker, Len(chan))
      /\ IF op = "open" THEN Takes(c) /\ Answers(c, "open-ok") ELSE Succeeds(c)
  BY Parts, Zenon DEF Serve, Accept
<1>2. broker' =
         CASE op = "exchange" -> [broker EXCEPT !.exchange = TRUE]
           [] op = "queue" ->
                IF ServerNamed \/ broker.queues = <<>>
                THEN [broker EXCEPT !.queues = Append(@, <<>>),
                                    !.last = [x \in DOMAIN @ \cup {c} |->
                                                IF x = c THEN Len(broker.queues) + 1 ELSE @[x]]]
                ELSE broker
           [] op = "bind" -> [broker EXCEPT !.bound = @ \cup {QueueOf(c)}]
           [] op = "consume" -> [broker EXCEPT !.consumers = @ \cup {<<c, QueueOf(c)>>}]
           [] OTHER -> broker
  BY Zenon DEF Serve, Accept
<1>3. /\ c \in 1..Len(chan) /\ chan[c].req # <<>> /\ chan[c].req \in Seq(Ops)
      /\ Tail(chan[c].req) \in Seq(Ops)
      /\ Fine(chan[c], c, main, pub, broker) /\ c \notin broker.closed
  BY <1>1, ServedChannel, Zenon
<1>4. op # "close"
  BY <1>1 DEF SetupOps
<1>5. Left(c, Tail(chan[c].req))
  <2>1. CASE op = "open"
    <3>1. chan' = [chan EXCEPT ![c].req = Tail(chan[c].req)]
      BY <1>1, <2>1 DEF Takes
    <3>2. QED
      BY <1>3, <3>1, TakesLeaves, Zenon
  <2>2. CASE op # "open"
    BY <1>1, <2>2, SucceedsLeaves, Zenon
  <2>3. QED
    BY <2>1, <2>2
<1>6. inbox' = inbox \/ inbox' = Append(inbox, [ch |-> c, ans |-> "open-ok"])
  BY <1>1 DEF Answers, Succeeds
<1>7. /\ \A x : Declared(broker, x) => Declared(broker, x)
      /\ 1..broker.routed \subseteq 1..broker.routed
  OBVIOUS
<1>8. CASE op = "open" \/ (op = "queue" /\ ~(ServerNamed \/ broker.queues = <<>>))
  <2>1. broker' = broker
    BY <1>2, <1>8
  <2>2. \A x : Declared(broker, x) \/ (x = c /\ op = "queue") => Declared(broker, x)
    BY <1>8 DEF Declared
  <2>3. QED
    BY <1>1, <1>4, <1>5, <1>6, <1>7, <2>1, <2>2, ServesStep, Zenon
<1>9. CASE op = "exchange"
  <2> DEFINE d == [broker EXCEPT !.exchange = TRUE]
  <2>1. broker' = d /\ op # "queue"
    BY <1>2, <1>9
  <2>2. /\ DOMAIN d = BrokerFields /\ d.routed = broker.routed
        /\ d.refusals = broker.refusals /\ d.closed = broker.closed
        /\ d.queues = broker.queues /\ d.last = broker.last /\ d.consumers = broker.consumers
    BY <1>1, Untouched, Zenon
  <2> HIDE DEF d
  <2>3. Serving(d, Len(chan))
    BY <1>1, <2>2, Zenon DEF Serving
  <2>4. \A x : (Declared(broker, x) => Declared(d, x)) /\ (Consumes(d, x) => Consumes(broker, x))
    BY <2>2, Zenon DEF Declared, Consumes
  <2>5. 1..broker.routed \subseteq 1..d.routed
    BY <2>2, Zenon
  <2>6. QED
    BY <1>1, <1>4, <1>5, <1>6, <2>1, <2>2, <2>3, <2>4, <2>5, ServesStep, Zenon
<1>10. CASE op = "bind"
  <2> DEFINE v == broker.bound \cup {QueueOf(c)}
             d == [broker EXCEPT !.bound = v]
  <2>1. broker' = d /\ op # "queue"
    BY <1>2, <1>10
  <2> HIDE DEF v
  <2>2. /\ DOMAIN d = BrokerFields /\ d.routed = broker.routed
        /\ d.refusals = broker.refusals /\ d.closed = broker.closed
        /\ d.queues = broker.queues /\ d.last = broker.last /\ d.consumers = broker.consumers
    BY <1>1, Untouched, Zenon
  <2> HIDE DEF d
  <2>3. Serving(d, Len(chan))
    BY <1>1, <2>2, Zenon DEF Serving
  <2>4. \A x : (Declared(broker, x) => Declared(d, x)) /\ (Consumes(d, x) => Consumes(broker, x))
    BY <2>2, Zenon DEF Declared, Consumes
  <2>5. 1..broker.routed \subseteq 1..d.routed
    BY <2>2, Zenon
  <2>6. QED
    BY <1>1, <1>4, <1>5, <1>6, <2>1, <2>2, <2>3, <2>4, <2>5, ServesStep, Zenon
<1>11. CASE op = "consume"
  <2> DEFINE e == <<c, QueueOf(c)>>
             v == broker.consumers \cup {e}
             d == [broker EXCEPT !.consumers = v]
  <2>1. broker' = d /\ op # "queue"
    BY <1>2, <1>11
  <2>2. Declared(broker, c)
    <3>1. 1 \in 1..Len(chan[c].req) /\ chan[c].req[1] = "consume"
      BY <1>3, <1>11, SequenceTail
    <3>2. ~ \E j \in 1..(1 - 1) : chan[c].req[j] = "queue"
      OBVIOUS
    <3>3. Declares(chan[c].req, c, broker)
      BY <1>3, Zenon DEF Fine
    <3>4. QED
      BY <3>1, <3>2, <3>3, Zenon DEF Declares
  <2>3. QueueOf(c) \in 1..Len(broker.queues)
    BY <1>1, <2>2, QueueOfIs, Zenon
  <2>4. e[1] = c /\ e[2] = QueueOf(c)
    OBVIOUS
  <2> HIDE DEF v, e
  <2>5. /\ DOMAIN d = BrokerFields /\ d.routed = broker.routed
        /\ d.refusals = broker.refusals /\ d.closed = broker.closed
        /\ d.queues = broker.queues /\ d.last = broker.last /\ d.consumers = v
    BY <1>1, Untouched, Zenon
  <2> HIDE DEF d
  <2>6. \A x \in d.consumers : x \in broker.consumers \/ x = e
    BY <2>5, Zenon DEF v
  <2>7. \A x \in d.consumers : x[1] \in (1..Len(chan)) \ d.closed /\ x[2] \in 1..Len(d.queues)
    <3>1. \A x \in broker.consumers :
             x[1] \in (1..Len(chan)) \ broker.closed /\ x[2] \in 1..Len(broker.queues)
      BY <1>1, Zenon DEF Serving
    <3>2. e[1] \in (1..Len(chan)) \ broker.closed /\ e[2] \in 1..Len(broker.queues)
      BY <1>3, <2>3, <2>4, Zenon
    <3>3. QED
      BY <2>5, <2>6, <3>1, <3>2, Zenon
  <2>8. Serving(d, Len(chan))
    BY <1>1, <2>5, <2>7, Zenon DEF Serving
  <2>9. /\ \A x : Declared(broker, x) => Declared(d, x)
        /\ \A x : Consumes(d, x) => Consumes(broker, x) \/ (x = c /\ op = "consume")
    BY <1>11, <2>4, <2>5, <2>6, Zenon DEF Declared, Consumes
  <2>10. 1..broker.routed \subseteq 1..d.routed
    BY <2>5, Zenon
  <2>11. QED
    BY <1>1, <1>4, <1>5, <1>6, <2>1, <2>5, <2>8, <2>9, <2>10, ServesStep, Zenon
<1>12. CASE op = "queue" /\ (ServerNamed \/ broker.queues = <<>>)
  <2> DEFINE last == [x \in DOMAIN broker.last \cup {c} |->
                         IF x = c THEN Len(broker.queues) + 1 ELSE broker.last[x]]
             qs == Append(broker.queues, <<>>)
             d == [broker EXCEPT !.queues = qs, !.last = last]
  <2>1. broker' = d
    BY <1>2, <1>12
  <2> HIDE DEF qs, last
  <2>2. /\ DOMAIN d = BrokerFields /\ d.routed = broker.routed
        /\ d.refusals = broker.refusals /\ d.closed = broker.closed
        /\ d.queues = qs /\ d.last = last /\ d.consumers = broker.consumers
    BY <1>1 DEF Serving, BrokerFields
  <2> HIDE DEF d
  <2>3. Serving(d, Len(chan)) /\ Declared(d, c) /\ \A x : Declared(broker, x) => Declared(d, x)
    BY <1>1, <2>2, DeclaredServing, Zenon DEF qs, last
  <2>4. \A x : Consumes(d, x) => Consumes(broker, x)
    BY <2>2, Zenon DEF Consumes
  <2>5. 1..broker.routed \subseteq 1..d.routed
    BY <2>2, Zenon
  <2>6. QED
    BY <1>1, <1>4, <1>5, <1>6, <2>1, <2>2, <2>3, <2>4, <2>5, ServesStep, Zenon
<1>13. QED
  BY <1>1, <1>8, <1>9, <1>10, <1>11, <1>12 DEF SetupOps

-----------------------------------------------------------------------------
(* The theorems *)

LEMMA InitIInv == Init => IInv
<1> SUFFICES ASSUME Init PROVE IInv
  OBVIOUS
<1>1. /\ pc = "login" /\ login = FALSE /\ chan = <<>> /\ main = 0 /\ pub = 0 /\ connOpen = TRUE
      /\ status = FALSE /\ cbs = <<>> /\ inbox = <<>> /\ received = {} /\ pubs = 0
      /\ DOMAIN broker = BrokerFields
      /\ broker.queues = <<>> /\ broker.last = <<>> /\ broker.consumers = {}
      /\ broker.refusals = 0 /\ broker.routed = 0
  BY DEF Init, BrokerFields
<1>2. Len(<<>>) = 0 /\ \A i \in 1..0 : FALSE
  OBVIOUS
<1>3. Control
  <2>1. pc \in {"login", "failed"} /\ pc \in Pcs
    BY <1>1 DEF Pcs
  <2>2. pubs \in 0..MaxPubs
    BY <1>1, SessionAssumption
  <2>3. QED
    BY <1>1, <1>2, <2>1, <2>2 DEF Control
<1>4. Client(chan, main, pub, broker)
  <2>1. chan \in Seq(Chan) /\ main \in 0..Len(chan) /\ pub \in 0..Len(chan)
    BY <1>1
  <2>2. QED
    BY <1>1, <1>2, <2>1, Zenon DEF Client
<1>5. Serving(broker, Len(chan))
  <2>1. broker.refusals \in 0..MaxRefusals /\ broker.routed \in Nat
    BY <1>1, SessionAssumption
  <2>2. broker.queues \in Seq(Seq(1..broker.routed))
    BY <1>1
  <2>3. DOMAIN broker.last = {}
    BY <1>1
  <2>4. QED
    BY <1>1, <2>1, <2>2, <2>3, Zenon DEF Serving
<1>6. Frames(inbox, Len(chan), broker) /\ Callbacks(cbs, Len(chan))
  <2>1. <<>> \in Seq(Frame) /\ <<>> \in Seq(Cb)
    OBVIOUS
  <2>2. QED
    BY <1>1, <1>2, <2>1, Zenon DEF Frames, Callbacks
<1>7. QED
  BY <1>3, <1>4, <1>5, <1>6, Zenon DEF IInv

LEMMA NextIInv == IInv /\ [Next]_vars => IInv'
<1> SUFFICES ASSUME IInv, [Next]_vars PROVE IInv'
  OBVIOUS
<1>1. CASE Worker
  BY <1>1, OpenOkStep, RefusedStep, ClosedStep, ConsumeRecvedStep, CallbackStep, Zenon DEF Worker
<1>2. CASE LoginOk
  BY <1>2, LoginStep
<1>3. CASE User
  BY <1>3, WaitTimesOutStep, CreatesStep, StoresStep, ChecksStep, PublishStep, ReleaseStep, Zenon
     DEF User, Starts
<1>4. CASE Broker
  BY <1>4, ServeStep, RefuseStep, RouteStep, TakeAckStep, CloseChannelStep, DeliverStep, Zenon
     DEF Broker
<1>5. CASE LinkLost
  BY <1>5, LinkLostStep
<1>6. CASE UNCHANGED vars
  BY <1>6, Zenon DEF vars, IInv, Control
<1>7. QED
  BY <1>1, <1>2, <1>3, <1>4, <1>5, <1>6, Zenon DEF Next

\* The invariant holds, for any number of messages, refusals and channels.
THEOREM Inductive == Spec => []IInv
<1>1. QED
  BY InitIInv, NextIInv, PTL DEF Spec

\* Whatever the broker refuses and however its answers, the callbacks and the two
\* threads interleave, every variable of the session keeps its type; m_channel and
\* m_channelPub name channels that were made, and a consumer a queue that exists.
THEOREM SessionTypes == Spec => []TypeOK
<1>1. IInv => TypeOK
  <2> SUFFICES ASSUME IInv PROVE TypeOK
    OBVIOUS
  <2>1. /\ Control /\ Serving(broker, Len(chan)) /\ Callbacks(cbs, Len(chan))
        /\ Frames(inbox, Len(chan), broker) /\ Len(chan) \in Nat
        /\ main \in 0..Len(chan) /\ pub \in 0..Len(chan) /\ Channels = 1..Len(chan)
    BY Parts, Zenon DEF Channels
  <2>2. ASSUME NEW c \in Channels
        PROVE  /\ chan[c].role \in {"main", "pub"} /\ chan[c].ready \in BOOLEAN
               /\ chan[c].st \in {"connected", "ready", "closing", "closed"}
               /\ chan[c].req \in Seq(Ops) /\ chan[c].todo \in Seq(SetupOps \cup {"close"})
    <3>1. chan[c] \in Chan
      BY <2>1, Parts, ElementIsFine, Zenon
    <3>2. QED
      BY <3>1, ChanFields, Zenon DEF Roles, States, Todos
  <2>3. {main, pub} \subseteq Channels \cup {0}
    BY <2>1
  <2>4. \A i \in DOMAIN cbs : cbs[i].cb \in {"ready", "error", "puberror"}
    <3>1. cbs \in Seq(Cb)
      BY <2>1, Zenon DEF Callbacks
    <3>2. \A i \in DOMAIN cbs : cbs[i] \in Cb
      BY <3>1, ElementOfSeq, LenProperties, Zenon
    <3>3. QED
      BY <3>2, Zenon DEF Cb, Calls
  <2>5. \A i \in DOMAIN inbox : inbox[i].ch \in Channels
    <3>1. inbox \in Seq(Frame) /\ \A i \in 1..Len(inbox) : Sent(inbox[i], Len(chan), broker)
      BY <2>1, Zenon DEF Frames
    <3>2. DOMAIN inbox = 1..Len(inbox)
      BY <3>1, LenProperties
    <3>3. QED
      BY <2>1, <3>1, <3>2, Zenon DEF Sent
  <2>6. \A x \in broker.consumers : x[1] \in Channels /\ x[2] \in DOMAIN broker.queues
    <3>1. broker.queues \in Seq(Seq(1..broker.routed))
      BY <2>1, Zenon DEF Serving
    <3>2. DOMAIN broker.queues = 1..Len(broker.queues)
      BY <3>1, LenProperties
    <3>3. QED
      BY <2>1, <3>2, Zenon DEF Serving
  <2>7. /\ pc \in Pcs /\ {login, connOpen, status} \subseteq BOOLEAN /\ pubs \in 0..MaxPubs
        /\ broker.refusals \in 0..MaxRefusals /\ received \subseteq 1..broker.routed
    BY <2>1 DEF Control, Serving
  <2>8. QED
    BY <2>2, <2>3, <2>4, <2>5, <2>6, <2>7, Zenon DEF TypeOK, Pcs
<1>2. QED
  BY Inductive, <1>1, PTL

\* However often the error callbacks and ChannelOkCb replace m_channel and
\* m_channelPub, on either thread, the channel that either held is closed.
THEOREM ChannelsClosed == Spec => []NoChannelLeaks
<1>1. IInv => NoChannelLeaks
  <2> SUFFICES ASSUME IInv, NEW c \in Channels, Usable(c) PROVE c \in {main, pub}
    BY Zenon DEF NoChannelLeaks
  <2>1. Fine(chan[c], c, main, pub, broker)
    BY Parts, ElementIsFine, Zenon DEF Channels
  <2>2. QED
    BY <2>1, Zenon DEF Fine, Usable
<1>2. QED
  BY Inductive, <1>1, PTL

\* Every consumer the broker feeds is on m_channel, or the request to close its
\* channel is on the way, however many times m_channel was replaced while the
\* requests of StartConsumeMsg were.
THEOREM ConsumersKept == Spec => []ConsumersOnMain
<1>1. IInv => ConsumersOnMain
  <2> SUFFICES ASSUME IInv, NEW x \in broker.consumers
               PROVE  x[1] = main \/ \E i \in DOMAIN chan[x[1]].req : chan[x[1]].req[i] = "close"
    BY Zenon DEF ConsumersOnMain
  <2> DEFINE c == x[1]
  <2>1. c \in 1..Len(chan) /\ c \notin broker.closed /\ Consumes(broker, c)
    BY Parts, Zenon DEF Serving, Consumes
  <2>2. Fine(chan[c], c, main, pub, broker) /\ chan[c] \in Chan
    BY <2>1, Parts, ElementIsFine, Zenon
  <2>3. c = main \/ Has(chan[c].req, "close")
    BY <2>1, <2>2, Zenon DEF Fine
  <2>4. DOMAIN chan[c].req = 1..Len(chan[c].req)
    BY <2>2, ChanFields, LenProperties, Zenon
  <2>5. QED
    BY <2>3, <2>4, Zenon DEF Has
<1>2. QED
  BY Inductive, <1>1, PTL

-----------------------------------------------------------------------------
(* Where the processor keeps the order of the two threads' stores and loads,  *)
(* the start does not miss that its channel is ready                          *)

\* The callback for m_channel is among those that have still to run.
Waits == \E i \in 1..Len(cbs) : cbs[i].cb = "ready" /\ cbs[i].ch = main

\* onReady's callback is on every m_channel but the first while it is being
\* registered; while nothing is published on, a channel that is ready is seen to
\* be by the start, or its callback waits.
Noticed ==
    /\ ~connOpen => pc \in {"closing", "stopped"}
    /\ pc # "storing"
    /\ main # 0 /\ ~chan[main].ready => main = 1 /\ pc = "registering"
    /\ main # 0 /\ connOpen /\ pub = 0 /\ chan[main].st = "ready" =>
          (main = 1 /\ pc \in {"registering", "checking"}) \/ Waits

\* What the operations keep of the record of a channel.
LEMMA ReqKeeps ==
    ASSUME NEW cs \in Seq(Chan), NEW c \in 1..Len(cs), NEW req, NEW todo, NEW d \in 1..Len(cs)
    PROVE  /\ [cs EXCEPT ![c].req = req][d].st = cs[d].st
           /\ [cs EXCEPT ![c].req = req][d].ready = cs[d].ready
           /\ [cs EXCEPT ![c].todo = todo][d].st = cs[d].st
           /\ [cs EXCEPT ![c].todo = todo][d].ready = cs[d].ready
           /\ [cs EXCEPT ![c].req = req, ![c].todo = todo][d].st = cs[d].st
           /\ [cs EXCEPT ![c].req = req, ![c].todo = todo][d].ready = cs[d].ready
BY DEF Chan

LEMMA SendKeeps ==
    ASSUME NEW cs \in Seq(Chan), NEW c \in 1..Len(cs), NEW op, NEW d \in 1..Len(cs)
    PROVE  Send(cs, c, op)[d].st = cs[d].st /\ Send(cs, c, op)[d].ready = cs[d].ready
<1>1. CASE cs[c].st \in {"connected", "ready"}
  <2>1. Send(cs, c, op) = [cs EXCEPT ![c].req = Append(cs[c].req, op)]
    BY <1>1 DEF Send
  <2>2. QED
    BY <2>1, ReqKeeps
<1>2. CASE cs[c].st \notin {"connected", "ready"}
  BY <1>2, Zenon DEF Send
<1>3. QED
  BY <1>1, <1>2

LEMMA RequestKeeps ==
    ASSUME NEW cs \in Seq(Chan), NEW c \in 1..Len(cs), NEW ops, NEW d \in 1..Len(cs)
    PROVE  Request(cs, c, ops)[d].st = cs[d].st /\ Request(cs, c, ops)[d].ready = cs[d].ready
<1>1. CASE cs[c].st = "closing"
  <2>1. Request(cs, c, ops) = [cs EXCEPT ![c].todo = cs[c].todo \o ops]
    BY <1>1 DEF Request
  <2>2. QED
    BY <2>1, ReqKeeps
<1>2. CASE cs[c].st # "closing"
  <2>1. Request(cs, c, ops)
          = [cs EXCEPT ![c].req = cs[c].req \o ops, ![c].todo = cs[c].todo \o ops]
    BY <1>2 DEF Request, Chan
  <2>2. QED
    BY <2>1, ReqKeeps
<1>3. QED
  BY <1>1, <1>2

LEMMA CloseKeeps ==
    ASSUME NEW cs \in Seq(Chan), NEW c \in 0..Len(cs), NEW d \in 1..Len(cs)
    PROVE  Close(cs, c)[d].ready = cs[d].ready /\ (d = c => Close(cs, c)[d].st # "ready")
<1>1. CASE c # 0 /\ cs[c].st \in {"connected", "ready"}
  <2>1. c \in 1..Len(cs)
    BY <1>1
  <2>2. Close(cs, c) = [cs EXCEPT ![c].st = "closing", ![c].req = Append(cs[c].req, "close"),
                                  ![c].todo = Append(cs[c].todo, "close")]
    BY <1>1, <2>1 DEF Close, Chan
  <2>3. QED
    BY <2>1, <2>2 DEF Chan
<1>2. CASE ~(c # 0 /\ cs[c].st \in {"connected", "ready"})
  <2>1. Close(cs, c) = cs
    BY <1>2, Zenon DEF Close
  <2>2. d = c => cs[d].st # "ready"
    BY <1>2
  <2>3. QED
    BY <2>1, <2>2
<1>3. QED
  BY <1>1, <1>2

LEMMA RenewKeeps ==
    ASSUME NEW cs \in Seq(Chan), NEW old \in 0..Len(cs), NEW role \in Roles, NEW ready \in BOOLEAN
    PROVE  /\ \A d \in 1..Len(cs) : Renew(cs, old, role, ready)[d].ready = cs[d].ready
           /\ Renew(cs, old, role, ready)[Len(cs) + 1].ready = ready
<1> DEFINE o == Open(cs, role, ready)
           L == Len(cs)
           new == [role |-> role, st |-> "connected", ready |-> ready,
                   req |-> <<"open">>, todo |-> <<>>]
<1>1. /\ o \in Seq(Chan) /\ Len(o) = L + 1 /\ L \in Nat /\ old \in 0..L
      /\ \A d \in 1..L : o[d] = cs[d]
  BY OpenIs, LenProperties
<1>2. o = Append(cs, new) /\ new.ready = ready
  BY DEF Open
<1> HIDE DEF new
<1>3. o[L + 1] = new
  BY <1>2, AppendProperties
<1>4. Renew(cs, old, role, ready) = Close(o, old)
  BY DEF Renew
<1> HIDE DEF o, L
<1>5. old \in 0..(L + 1) /\ L + 1 \in 1..(L + 1) /\ \A d \in 1..L : d \in 1..(L + 1)
  BY <1>1
<1>6. \A d \in 1..(L + 1) : Close(o, old)[d].ready = o[d].ready
  BY <1>1, <1>5, CloseKeeps
<1>7. Close(o, old)[L + 1].ready = ready /\ \A d \in 1..L : Close(o, old)[d].ready = cs[d].ready
  BY <1>1, <1>2, <1>3, <1>5, <1>6, Zenon
<1>8. QED
  BY <1>4, <1>7, Zenon DEF L

LEMMA ChannelOkCbNotices ==
    ASSUME IInv, main # 0, ChannelOkCb
    PROVE  /\ connOpen => pub' # 0
           /\ \/ chan'[main'].ready
              \/ main' = main /\ chan'[main].ready = chan[main].ready
<1> DEFINE cs == IF connOpen THEN Renew(chan, pub, "pub", FALSE) ELSE chan
           n == Len(cs)
           works == chan[main].st # "closed"
<1>1. /\ chan \in Seq(Chan) /\ Len(chan) \in Nat /\ main \in 1..Len(chan) /\ pub \in 0..Len(chan)
      /\ connOpen \in BOOLEAN
  <2>1. chan \in Seq(Chan) /\ Len(chan) \in Nat /\ main \in 0..Len(chan) /\ pub \in 0..Len(chan)
        /\ connOpen \in BOOLEAN
    BY Parts, ControlNow, Zenon
  <2>2. QED
    BY <2>1
<1>2. /\ pub' = IF connOpen THEN Len(chan) + 1 ELSE pub
      /\ main' = IF connOpen /\ ~works THEN n + 1 ELSE main
      /\ chan' = IF works THEN Request(cs, main, Setup)
                 ELSE IF connOpen
                 THEN Request(Renew(cs, main, "main", TRUE), n + 1, Tail(Setup))
                 ELSE cs
  BY Zenon DEF ChannelOkCb
<1>3. connOpen => pub' # 0
  BY <1>1, <1>2
<1>4. cs \in Seq(Chan) /\ main \in 1..n /\ cs[main].ready = chan[main].ready
  <2>1. CASE connOpen
    <3>1. cs = Renew(chan, pub, "pub", FALSE)
      BY <2>1
    <3>2. FALSE \in BOOLEAN
      OBVIOUS
    <3> DEFINE R == Renew(chan, pub, "pub", FALSE)
    <3>3. Renewed(R, chan, pub)
      BY <1>1, <3>2, RenewIs, Words, Zenon
    <3>4. \A d \in 1..Len(chan) : R[d].ready = chan[d].ready
      BY <1>1, <3>2, RenewKeeps, Words, Zenon
    <3>5. cs = R
      BY <3>1
    <3> HIDE DEF R, cs
    <3>6. cs \in Seq(Chan) /\ n = Len(chan) + 1 /\ \A d \in 1..Len(chan) : cs[d].ready = chan[d].ready
      BY <3>3, <3>4, <3>5, Zenon DEF Renewed
    <3> HIDE DEF n
    <3>7. QED
      BY <1>1, <3>6
  <2>2. CASE ~connOpen
    BY <1>1, <2>2, Zenon
  <2>3. QED
    BY <2>1, <2>2
<1> HIDE DEF cs, works
<1>5. CASE works
  <2>1. chan' = Request(cs, main, Setup) /\ main' = main
    BY <1>2, <1>5, Zenon
  <2>2. chan'[main].ready = cs[main].ready
    BY <1>4, <2>1, RequestKeeps
  <2>3. QED
    BY <1>3, <1>4, <2>1, <2>2, Zenon
<1>6. CASE ~works /\ connOpen
  <2> DEFINE R == Renew(cs, main, "main", TRUE)
  <2>1. chan' = Request(R, n + 1, Tail(Setup)) /\ main' = n + 1
    BY <1>2, <1>6, Zenon
  <2>2. main \in 0..n /\ n \in Nat /\ TRUE \in BOOLEAN
    BY <1>4, LenProperties
  <2>3. Renewed(R, cs, main) /\ R[n + 1].ready = TRUE
    BY <1>4, <2>2, RenewIs, RenewKeeps, Words, Zenon
  <2>4. R \in Seq(Chan) /\ Len(R) = n + 1
    BY <2>3, Zenon DEF Renewed
  <2> HIDE DEF R, n
  <2>5. n + 1 \in 1..Len(R)
    BY <2>2, <2>4
  <2>6. chan'[n + 1].ready = R[n + 1].ready
    BY <2>1, <2>4, <2>5, RequestKeeps
  <2>7. QED
    BY <1>3, <2>1, <2>3, <2>6, Zenon
<1>7. CASE ~works /\ ~connOpen
  <2>1. chan' = cs /\ main' = main
    BY <1>2, <1>7, Zenon
  <2>2. QED
    BY <1>3, <1>4, <2>1, Zenon
<1>8. QED
  BY <1>5, <1>6, <1>7

LEMMA ErrCbNotices ==
    ASSUME IInv, main # 0, ErrCb
    PROVE  IF connOpen THEN chan'[main'].ready /\ chan'[main'].st = "connected"
                       ELSE main' = main /\ chan' = chan
<1>1. chan \in Seq(Chan) /\ Len(chan) \in Nat /\ main \in 0..Len(chan) /\ TRUE \in BOOLEAN
  BY Parts, Zenon
<1>2. CASE connOpen
  <2>1. main' = Len(chan) + 1 /\ chan' = Renew(chan, main, "main", TRUE)
    BY <1>2, Zenon DEF ErrCb, CreateMqChannel
  <2>2. Renewed(chan', chan, main) /\ chan'[Len(chan) + 1].ready = TRUE
    BY <1>1, <2>1, RenewIs, RenewKeeps, Words, Zenon
  <2>3. QED
    BY <1>2, <2>1, <2>2, Zenon DEF Renewed
<1>3. CASE ~connOpen
  BY <1>3, Zenon DEF ErrCb, CreateMqChannel
<1>4. QED
  BY <1>2, <1>3

\* A step that leaves m_channel, what is known of it and the callbacks alone.
LEMMA NoticesStill ==
    ASSUME IInv, Noticed, main' = main, pub' = pub, cbs' = cbs,
           main # 0 => chan'[main].ready = chan[main].ready /\ chan'[main].st = chan[main].st,
           ~connOpen' => pc' \in {"closing", "stopped"}, connOpen' => connOpen,
           \/ pc' = pc
           \/ pc \notin {"registering", "checking"} /\ pc' # "storing"
    PROVE  Noticed'
<1>1. pc' # "storing"
  BY Zenon DEF Noticed
<1>2. main' # 0 /\ ~chan'[main'].ready => main' = 1 /\ pc' = "registering"
  <2>1. main # 0 /\ ~chan[main].ready => main = 1 /\ pc = "registering"
    BY Zenon DEF Noticed
  <2>2. pc = "registering" => pc' = pc
    OBVIOUS
  <2>3. QED
    BY <2>1, <2>2, Zenon
<1>3. ASSUME main' # 0, connOpen', pub' = 0, chan'[main'].st = "ready"
      PROVE  (main' = 1 /\ pc' \in {"registering", "checking"}) \/ Waits'
  <2>1. (main = 1 /\ pc \in {"registering", "checking"}) \/ Waits
    BY <1>3, Zenon DEF Noticed
  <2>2. Waits => Waits'
    BY Zenon DEF Waits
  <2>3. pc \in {"registering", "checking"} => pc' = pc
    OBVIOUS
  <2>4. QED
    BY <2>1, <2>2, <2>3, Zenon
<1>4. QED
  BY <1>1, <1>2, <1>3, Zenon DEF Noticed

\* m_channel is not ready, or has been noticed for good.
LEMMA NoticesIf ==
    ASSUME IInv, Noticed, pc' = pc, connOpen' = connOpen,
           main' # 0 => chan'[main'].ready \/ (main' = main /\ chan'[main].ready = chan[main].ready),
           main' # 0 => \/ pub' # 0 \/ ~connOpen \/ chan'[main'].st # "ready" \/ Waits'
                        \/ main' = 1 /\ pc \in {"registering", "checking"}
    PROVE  Noticed'
BY Zenon DEF Noticed

\* It is one of them in every step.
LEMMA MainNow ==
    ASSUME IInv
    PROVE  main # 0 => main \in 1..Len(chan)
BY Parts

LEMMA WorkerNotices ==
    ASSUME IInv, Noticed, Worker
    PROVE  Noticed'
<1>1. CASE OpenOk
  <2>1. /\ Parses("open-ok")
        /\ chan' = [chan EXCEPT ![From].st = IF @ = "connected" THEN "ready" ELSE @]
        /\ cbs' = <<[cb |-> "ready", ch |-> From]>>
        /\ pc' = pc /\ main' = main /\ pub' = pub /\ connOpen' = connOpen
    BY <1>1 DEF OpenOk
  <2>2. cbs = <<>> /\ From \in 1..Len(chan) /\ main # 0 /\ main \in 1..Len(chan)
        /\ chan \in Seq(Chan)
    BY <2>1, FrameParsed, MainNow, Parts, Zenon DEF Parses
  <2>3. chan'[main].ready = chan[main].ready /\ (From # main => chan'[main].st = chan[main].st)
    BY <2>1, <2>2 DEF Chan
  <2>4. From = main => Waits'
    <3>1. 1 \in 1..Len(cbs') /\ cbs'[1].cb = "ready" /\ cbs'[1].ch = From
      BY <2>1
    <3>2. QED
      BY <2>1, <3>1, Zenon DEF Waits
  <2>5. ~Waits
    BY <2>2 DEF Waits
  <2>6. QED
    BY <2>1, <2>2, <2>3, <2>4, <2>5, NoticesIf, Zenon DEF Noticed
<1>2. CASE Refused \/ Closed
  <2>1. /\ Parses("refused") \/ Parses("closed")
        /\ chan' = [chan EXCEPT ![From].st = "closed", ![From].todo = <<>>]
        /\ pc' = pc /\ main' = main /\ pub' = pub /\ connOpen' = connOpen
    BY <1>2 DEF Refused, Closed
  <2>2. cbs = <<>> /\ From \in 1..Len(chan) /\ main # 0 /\ main \in 1..Len(chan)
        /\ chan \in Seq(Chan)
    BY <2>1, FrameParsed, MainNow, Parts, Zenon DEF Parses
  <2>3. /\ chan'[main].ready = chan[main].ready
        /\ chan'[main].st = chan[main].st \/ chan'[main].st # "ready"
    BY <2>1, <2>2 DEF Chan
  <2>4. ~Waits
    BY <2>2 DEF Waits
  <2>5. QED
    BY <2>1, <2>2, <2>3, <2>4, NoticesIf, Zenon DEF Noticed
<1>3. CASE ConsumeRecvedCb
  <2>1. /\ Parses("deliver") /\ chan' = Send(chan, main, "ack") /\ cbs' = cbs
        /\ pc' = pc /\ main' = main /\ pub' = pub /\ connOpen' = connOpen
    BY <1>3 DEF ConsumeRecvedCb
  <2>2. main \in 1..Len(chan) /\ chan \in Seq(Chan)
    BY <2>1, FrameParsed, MainNow, Parts, Zenon
  <2>3. chan'[main].ready = chan[main].ready /\ chan'[main].st = chan[main].st
    BY <2>1, <2>2, SendKeeps
  <2>4. QED
    BY <2>1, <2>3, NoticesStill, Zenon DEF Noticed
<1>4. CASE Callback
  <2>1. /\ cbs # <<>> /\ cbs' = Tail(cbs)
        /\ CASE Head(cbs).cb = "ready" ->
                  IF chan[Head(cbs).ch].ready THEN ChannelOkCb
                  ELSE UNCHANGED <<chan, main, pub, status>>
             [] Head(cbs).cb = "error" -> ErrCb
             [] Head(cbs).cb = "puberror" -> PubErrCb
        /\ pc' = pc /\ connOpen' = connOpen
    BY <1>4, Zenon DEF Callback
  <2>2. cbs \in Seq(Cb) /\ Head(cbs) \in Cb /\ Head(cbs).ch \in 1..Len(chan)
    BY <2>1, Parts, CallbacksTail, Zenon DEF Callbacks
  <2>3. main # 0 /\ Head(cbs).cb \in Calls
    BY <2>2, Parts, Started DEF Cb
  <2>4. Waits => Waits' \/ main' # main \/ (Head(cbs).cb = "ready" /\ Head(cbs).ch = main)
    <3>1. SUFFICES ASSUME NEW i \in 1..Len(cbs), cbs[i].cb = "ready", cbs[i].ch = main,
                          ~(Head(cbs).cb = "ready" /\ Head(cbs).ch = main)
                   PROVE  \E k \in 1..Len(Tail(cbs)) :
                              Tail(cbs)[k].cb = "ready" /\ Tail(cbs)[k].ch = main
      BY <2>1, Zenon DEF Waits
    <3>2. Head(cbs) = cbs[1] /\ Len(cbs) \in Nat /\ Len(Tail(cbs)) = Len(cbs) - 1
      BY <2>1, <2>2, HeadTailProperties, EmptySeq
    <3>3. i # 1
      BY <3>1, <3>2
    <3>4. i - 1 \in 1..Len(Tail(cbs)) /\ (i - 1) + 1 = i
      BY <3>2, <3>3
    <3>5. Tail(cbs)[i - 1] = cbs[i]
      <4>1. \A k \in 1..Len(Tail(cbs)) : Tail(cbs)[k] = cbs[k + 1]
        BY <2>1, <2>2, SequenceTail, Zenon
      <4>2. QED
        BY <3>4, <4>1, Zenon
    <3>6. QED
      BY <3>1, <3>4, <3>5, Zenon
  <2>5. CASE Head(cbs).cb = "ready"
    <3>1. CASE chan[Head(cbs).ch].ready
      <4>1. ChannelOkCb
        BY <2>1, <2>5, <3>1
      <4>2. QED
        BY <2>1, <2>3, <4>1, ChannelOkCbNotices, NoticesIf, Zenon
    <3>2. CASE ~chan[Head(cbs).ch].ready
      <4>1. chan' = chan /\ main' = main /\ pub' = pub
        BY <2>1, <2>5, <3>2
      <4>2. Head(cbs).ch = main => main = 1 /\ pc = "registering"
        BY <2>3, <3>2, Zenon DEF Noticed
      <4>3. QED
        BY <2>1, <2>3, <2>4, <4>1, <4>2, NoticesIf, Zenon DEF Noticed
    <3>3. QED
      BY <3>1, <3>2
  <2>6. CASE Head(cbs).cb = "error"
    <3>1. ErrCb /\ Head(cbs).cb # "ready"
      BY <2>1, <2>6
    <3>2. IF connOpen THEN chan'[main'].ready /\ chan'[main'].st = "connected"
                      ELSE main' = main /\ chan' = chan
      BY <2>3, <3>1, ErrCbNotices, Zenon
    <3>3. CASE connOpen
      <4>1. chan'[main'].ready /\ chan'[main'].st # "ready"
        BY <3>2, <3>3
      <4>2. QED
        BY <2>1, <4>1, NoticesIf, Zenon
    <3>4. CASE ~connOpen
      BY <2>1, <3>2, <3>4, NoticesIf, Zenon
    <3>5. QED
      BY <3>3, <3>4
  <2>7. CASE Head(cbs).cb = "puberror"
    <3>1. PubErrCb /\ Head(cbs).cb # "ready"
      BY <2>1, <2>7
    <3>2. chan' = chan /\ main' = main /\ pub' = pub
      BY <3>1 DEF PubErrCb
    <3>3. QED
      BY <2>1, <2>3, <2>4, <3>1, <3>2, NoticesIf, Zenon DEF Noticed
  <2>8. QED
    BY <2>3, <2>5, <2>6, <2>7 DEF Calls
<1>5. QED
  BY <1>1, <1>2, <1>3, <1>4, Zenon DEF Worker

LEMMA UserNotices ==
    ASSUME IInv, Noticed, ~MayReorder, User
    PROVE  Noticed'
<1>1. CASE WaitTimesOut
  <2>1. /\ pc = "login" /\ pc' = "failed" /\ connOpen' = connOpen /\ cbs' = cbs
        /\ chan' = chan /\ main' = main /\ pub' = pub
    BY <1>1 DEF WaitTimesOut, UserOnly
  <2>2. connOpen /\ pc \notin {"registering", "checking"} /\ pc' # "storing"
    BY <2>1 DEF Noticed
  <2>3. QED
    BY <2>1, <2>2, NoticesStill, Zenon
<1>2. CASE StartCreatesChannel
  <2>1. /\ pc = "login" /\ pc' = "registering" /\ connOpen' = connOpen
        /\ main' = Len(chan) + 1 /\ chan' = Open(chan, "main", FALSE)
    BY <1>2 DEF StartCreatesChannel, UserOnly
  <2>2. connOpen /\ Len(chan) = 0 /\ chan \in Seq(Chan) /\ FALSE \in BOOLEAN
    BY <2>1, ControlNow, Parts DEF Noticed
  <2>3. main' = 1 /\ main' = Len(chan) + 1
    BY <2>1, <2>2
  <2>4. chan'[main'].st = "connected"
    <3>1. Open(chan, "main", FALSE)[Len(chan) + 1].st = "connected"
      BY <2>2, OpenIs, Words
    <3>2. QED
      BY <2>1, <3>1, Zenon
  <2>5. chan'[main'].st # "ready" /\ pc' # "storing"
    BY <2>1, <2>4
  <2>6. QED
    BY <2>1, <2>2, <2>3, <2>5, Zenon DEF Noticed
<1>3. CASE StoresCallback
  <2>1. /\ pc = "registering" /\ pc' = "checking" /\ connOpen' = connOpen /\ cbs' = cbs
        /\ chan' = [chan EXCEPT ![1].ready = TRUE] /\ main' = main /\ pub' = pub
    BY <1>3 DEF StoresCallback, UserOnly
  <2>2. connOpen /\ main # 0 /\ chan \in Seq(Chan) /\ main \in 1..Len(chan) /\ Len(chan) \in Nat
    BY <2>1, ControlNow, MainNow, Parts DEF Noticed
  <2>3. 1 \in 1..Len(chan)
    BY <2>2
  <2>4. /\ chan'[main].st = chan[main].st
        /\ main # 1 => chan'[main] = chan[main]
        /\ main = 1 => chan'[main] = [chan[1] EXCEPT !.ready = TRUE]
    BY <2>1, <2>2, <2>3 DEF Chan
  <2>5. chan'[main].ready
    <3>1. CASE main = 1
      <4>1. chan[1] \in Chan
        BY <2>2, <2>3, ElementOfSeq, Zenon
      <4>2. [chan[1] EXCEPT !.ready = TRUE].ready
        BY <4>1 DEF Chan
      <4>3. QED
        BY <2>4, <3>1, <4>2, Zenon
    <3>2. CASE main # 1
      <4>1. chan[main].ready
        BY <2>2, <3>2, Zenon DEF Noticed
      <4>2. QED
        BY <2>4, <3>2, <4>1, Zenon
    <3>3. QED
      BY <3>1, <3>2
  <2>6. Waits => Waits'
    BY <2>1, Zenon DEF Waits
  <2>7. pc' # "storing" /\ pc' \in {"registering", "checking"}
    BY <2>1
  <2>8. QED
    BY <2>1, <2>2, <2>4, <2>5, <2>6, <2>7, Zenon DEF Noticed
<1>4. CASE ChecksReady
  <2>1. /\ pc = "checking" /\ pc' = "started" /\ connOpen' = connOpen /\ cbs' = cbs
        /\ IF chan[1].st = "ready" THEN ChannelOkCb ELSE UNCHANGED <<chan, main, pub, status>>
    BY <1>4, Zenon DEF ChecksReady, UserOnly
  <2>2. connOpen /\ main # 0 /\ pc' # "storing" /\ chan[main].ready
    BY <2>1, ControlNow DEF Noticed
  <2>3. CASE chan[1].st = "ready"
    <3>1. ChannelOkCb
      BY <2>1, <2>3
    <3>2. pub' # 0 /\ chan'[main'].ready
      BY <2>2, <3>1, ChannelOkCbNotices, Zenon
    <3>3. QED
      BY <2>1, <2>2, <3>2, Zenon DEF Noticed
  <2>4. CASE chan[1].st # "ready"
    <3>1. chan' = chan /\ main' = main /\ pub' = pub
      BY <2>1, <2>4
    <3>2. Waits => Waits'
      BY <2>1, <3>1, Zenon DEF Waits
    <3>3. QED
      BY <2>1, <2>2, <2>4, <3>1, <3>2, Zenon DEF Noticed
  <2>5. QED
    BY <2>3, <2>4
<1>5. CASE ChecksEarly
  BY <1>5, Zenon DEF ChecksEarly
<1>6. CASE StoresLate
  BY <1>6, Zenon DEF StoresLate, Noticed
<1>7. CASE PublishMsg
  <2>1. /\ pc = "started" /\ connOpen' = connOpen /\ cbs' = cbs
        /\ IF pub = 0
           THEN pc' = "crashed" /\ UNCHANGED chan
           ELSE chan' = Send(chan, pub, "publish") /\ UNCHANGED pc
        /\ main' = main /\ pub' = pub
    BY <1>7 DEF PublishMsg, UserOnly
  <2>2. connOpen /\ pc \notin {"registering", "checking"} /\ pc' # "storing"
    BY <2>1 DEF Noticed
  <2>3. main # 0 => chan'[main].ready = chan[main].ready /\ chan'[main].st = chan[main].st
    <3>1. CASE pub = 0
      BY <2>1, <3>1
    <3>2. CASE pub # 0
      <4>1. pub \in 1..Len(chan) /\ chan \in Seq(Chan) /\ chan' = Send(chan, pub, "publish")
        BY <2>1, <3>2, Parts
      <4>2. QED
        BY <4>1, MainNow, SendKeeps
    <3>3. QED
      BY <3>1, <3>2
  <2>4. QED
    BY <2>1, <2>2, <2>3, NoticesStill, Zenon
<1>8. CASE ReleaseMain
  <2>1. /\ pc = "started" /\ pc' = "releasing" /\ connOpen' = connOpen /\ cbs' = cbs
        /\ chan' = Close(chan, main) /\ main' = main /\ pub' = pub
    BY <1>8 DEF ReleaseMain, UserOnly
  <2>2. connOpen /\ main # 0 /\ main \in 1..Len(chan) /\ main \in 0..Len(chan) /\ chan \in Seq(Chan)
        /\ pc' # "storing" /\ chan[main].ready
    BY <2>1, ControlNow, MainNow, Parts DEF Noticed
  <2>3. chan'[main].ready /\ chan'[main].st # "ready"
    BY <2>1, <2>2, CloseKeeps
  <2>4. QED
    BY <2>1, <2>2, <2>3, Zenon DEF Noticed
<1>9. CASE ReleasePub
  <2>1. /\ pc = "releasing" /\ connOpen' = connOpen /\ cbs' = cbs
        /\ IF pub = 0
           THEN pc' = "crashed" /\ UNCHANGED chan
           ELSE pc' = "closing" /\ chan' = Close(chan, pub)
        /\ main' = main /\ pub' = pub
    BY <1>9 DEF ReleasePub, UserOnly
  <2>2. connOpen /\ main # 0 /\ main \in 1..Len(chan) /\ pub \in 0..Len(chan) /\ chan \in Seq(Chan)
        /\ pc' # "storing" /\ pc \notin {"registering", "checking"}
    BY <2>1, ControlNow, MainNow, Parts DEF Noticed
  <2>3. CASE pub = 0
    <3>1. chan' = chan
      BY <2>1, <2>3
    <3>2. QED
      BY <2>1, <2>2, <3>1, NoticesStill, Zenon
  <2>4. CASE pub # 0
    <3>1. chan' = Close(chan, pub)
      BY <2>1, <2>4
    <3>2. chan'[main].ready = chan[main].ready
      BY <2>2, <3>1, CloseKeeps
    <3>3. chan[main].ready
      BY <2>2, Zenon DEF Noticed
    <3>4. QED
      BY <2>1, <2>2, <2>4, <3>2, <3>3, Zenon DEF Noticed
  <2>5. QED
    BY <2>3, <2>4
<1>10. CASE ReleaseConnection \/ ReleaseFinit
  <2>1. /\ pc = "closing" /\ pc' \in {"closing", "stopped"} /\ ~connOpen' /\ cbs' = cbs
        /\ chan' = chan /\ main' = main /\ pub' = pub
    BY <1>10 DEF ReleaseConnection, ReleaseFinit, UserOnly
  <2>2. pc \notin {"registering", "checking"} /\ pc' # "storing"
    BY <2>1
  <2>3. QED
    BY <2>1, <2>2, NoticesStill, Zenon
<1>11. QED
  BY <1>1, <1>2, <1>3, <1>4, <1>5, <1>6, <1>7, <1>8, <1>9, <1>10, Zenon DEF User, Starts, Releases

\* The broker only takes requests from the channels.
LEMMA BrokerNotices ==
    ASSUME IInv, Noticed, Broker
    PROVE  Noticed'
<1>1. ASSUME NEW c \in DOMAIN chan, Serves(c), NEW req, NEW todo,
             \/ chan' = [chan EXCEPT ![c].req = req]
             \/ chan' = [chan EXCEPT ![c].req = req, ![c].todo = todo]
      PROVE  Noticed'
  <2>1. /\ pc' = pc /\ main' = main /\ pub' = pub /\ connOpen' = connOpen /\ cbs' = cbs
        /\ c \in 1..Len(chan) /\ chan \in Seq(Chan)
    BY <1>1, ServedChannel, Parts, Zenon
  <2>2. main # 0 => chan'[main].ready = chan[main].ready /\ chan'[main].st = chan[main].st
    <3>1. SUFFICES ASSUME main \in 1..Len(chan)
                   PROVE  chan'[main].ready = chan[main].ready /\ chan'[main].st = chan[main].st
      BY MainNow, Zenon
    <3>2. CASE chan' = [chan EXCEPT ![c].req = req]
      BY <2>1, <3>1, <3>2, ReqKeeps
    <3>3. CASE chan' = [chan EXCEPT ![c].req = req, ![c].todo = todo]
      BY <2>1, <3>1, <3>3, ReqKeeps
    <3>4. QED
      BY <1>1, <3>2, <3>3
  <2>3. QED
    BY <2>1, <2>2, NoticesStill, Zenon DEF Noticed
<1>2. ASSUME NEW c \in DOMAIN chan, Serve(c) PROVE Noticed'
  <2>1. /\ Serves(c)
        /\ IF Head(chan[c].req) = "open" THEN Takes(c) /\ Answers(c, "open-ok") ELSE Succeeds(c)
    BY <1>2, Zenon DEF Serve, Accept
  <2>2. \/ chan' = [chan EXCEPT ![c].req = Tail(chan[c].req)]
        \/ chan' = [chan EXCEPT ![c].req = Tail(chan[c].req), ![c].todo = Rest(chan[c].todo)]
    <3>1. CASE Takes(c)
      BY <3>1 DEF Takes
    <3>2. CASE Succeeds(c)
      <4>1. chan' = [chan EXCEPT ![c].req = Tail(@), ![c].todo = Rest(@)]
        BY <3>2, Zenon DEF Succeeds
      <4>2. c \in DOMAIN chan /\ chan[c] \in Chan /\ chan \in Seq(Chan)
        BY Parts, ElementIsFine, Zenon
      <4>3. QED
        BY <4>1, <4>2 DEF Chan
    <3>3. QED
      BY <2>1, <3>1, <3>2
  <2>3. QED
    BY <1>1, <2>1, <2>2, Zenon
<1>3. ASSUME NEW c \in DOMAIN chan, Refuse(c) \/ Route(c) \/ TakeAck(c) \/ CloseChannel(c)
      PROVE  Noticed'
  <2>1. /\ Serves(c)
        /\ \/ chan' = [chan EXCEPT ![c].req = Tail(chan[c].req)]
           \/ chan' = [chan EXCEPT ![c].req = <<>>]
    BY <1>3 DEF Refuse, Route, TakeAck, CloseChannel, Takes
  <2>2. QED
    BY <1>1, <2>1, Zenon
<1>4. ASSUME NEW x \in broker.consumers, Deliver(x[1], x[2]) PROVE Noticed'
  <2>1. /\ pc' = pc /\ main' = main /\ pub' = pub /\ connOpen' = connOpen /\ cbs' = cbs
        /\ chan' = chan
    BY <1>4 DEF Deliver
  <2>2. QED
    BY <2>1, NoticesStill, Zenon DEF Noticed
<1>5. QED
  BY <1>2, <1>3, <1>4, Zenon DEF Broker

\* Where the processor may reorder, nothing is claimed.
InOrder == ~MayReorder => Noticed

LEMMA InitInOrder == Init => InOrder
BY DEF Init, InOrder, Noticed

LEMMA NextInOrder == IInv /\ InOrder /\ [Next]_vars => InOrder'
<1> SUFFICES ASSUME IInv, Noticed, ~MayReorder, [Next]_vars PROVE Noticed'
  BY DEF InOrder
<1>1. CASE LoginOk \/ LinkLost \/ UNCHANGED vars
  <2>1. /\ pc' = pc /\ main' = main /\ pub' = pub /\ connOpen' = connOpen /\ cbs' = cbs
        /\ chan' = chan
    BY <1>1 DEF LoginOk, LinkLost, vars
  <2>2. QED
    BY <2>1, NoticesStill, Zenon DEF Noticed
<1>2. QED
  BY <1>1, WorkerNotices, UserNotices, BrokerNotices, Zenon DEF Next

\* A channel that gets ready while StartMqInstance registers its callback is never
\* missed, and ChannelOkCb makes the channel to publish on, unless a processor
\* moves the check of onReady before its store.
THEOREM ReadyNoticed == ASSUME ~MayReorder PROVE Spec => []ReadyNotMissed
<1>1. IInv /\ InOrder => ReadyNotMissed
  <2> SUFFICES ASSUME IInv, Noticed, pc = "started", cbs = <<>>, chan[main].st = "ready"
               PROVE  pub # 0
    BY Zenon DEF ReadyNotMissed, InOrder
  <2>1. main # 0 /\ connOpen /\ pc \notin {"registering", "checking"}
    BY ControlNow DEF Noticed
  <2>2. ~Waits
    BY DEF Waits
  <2>3. QED
    BY <2>1, <2>2, Zenon DEF Noticed
<1>2. QED
  BY Inductive, InitInOrder, NextInOrder, <1>1, PTL DEF Spec

-----------------------------------------------------------------------------
(* Deliveries are acknowledged where they come from: only m_channel asks the   *)
(* broker for anything of ChannelOkCb's, and feeds a consumer                   *)

Live == {"connected", "ready"}

\* None of ChannelOkCb's requests is in s.
Bare(s) == \A op \in SetupOps : ~Has(s, op)

\* What is on its way from channel c in the frames s.
AnswersOf(s, c) == {a \in Answer \cup {"deliver"} : \E i \in 1..Len(s) : s[i].ch = c /\ s[i].ans = a}

\* The queue that channel c means by the name it gives, to broker b.
QueueFor(b, c) ==
    IF ~ServerNamed THEN Len(b.queues) ELSE IF c \in DOMAIN b.last THEN b.last[c] ELSE 0

\* The queue that is consumed is bound, by then.
Binds(s, c, b) ==
    \A i \in 1..Len(s) :
        s[i] = "consume" => IF i = 1 THEN QueueFor(b, c) \in b.bound ELSE s[i - 1] = "bind"

\* Nothing that channel c asked for can fail any more, or feed a consumer.
Idle(r, c, A, b) ==
    /\ Bare(r.todo)
    /\ c \notin b.closed => Bare(r.req)
    /\ ~Consumes(b, c)
    /\ "deliver" \notin A
    /\ r.role = "main" => "refused" \notin A

\* The record r of channel c, from which the answers A are on their way.  Of all
\* channels only k has anything under way.
Owned(r, c, m, k, p, A, b) ==
    /\ c = m => r.role = "main"
    /\ c = p => r.role = "pub"
    /\ r.role = "main" => ~Has(r.req, "publish")
    /\ c = k \/ Idle(r, c, A, b)
    /\ r.st = "closed" => Bare(r.todo) /\ A = {}
    /\ r.st \in Live => ~Has(r.req, "close") /\ "closed" \notin A
    /\ Binds(r.req, c, b)

Own(cs, m, k, p, s, b) == \A c \in 1..Len(cs) : Owned(cs[c], c, m, k, p, AnswersOf(s, c), b)

\* Nothing follows the last frame of a channel.
LastWords(s) ==
    \A i \in 1..Len(s) : s[i].ans \in {"refused", "closed"} =>
        \A j \in (i + 1)..Len(s) : s[j].ch # s[i].ch

Runs(s, cb) == \E i \in 1..Len(s) : s[i].cb = cb

\* m_channel, or none while the error callbacks that replace it run.
Keeper == IF Runs(cbs, "error") THEN 0 ELSE main

Orderly ==
    /\ Own(chan, main, Keeper, pub, inbox, broker)
    /\ LastWords(inbox)
    /\ Runs(cbs, "error") => chan[1].st \notin Live
    /\ Runs(cbs, "ready") => Len(cbs) = 1
    /\ Len(chan) # 0 => chan[1].role = "main"

-----------------------------------------------------------------------------
(* Frames, callbacks and requests in order *)

LEMMA NoSetups ==
    /\ "ack" \notin SetupOps /\ "publish" \notin SetupOps /\ "close" \notin SetupOps
    /\ "open" \notin SetupOps
BY DEF SetupOps

LEMMA FrameIs ==
    ASSUME NEW f \in Frame
    PROVE  f.ch \in Nat /\ f.ans \in Answer \cup {"deliver"}
BY DEF Frame

LEMMA AnswersAppend ==
    ASSUME NEW s \in Seq(Frame), NEW f \in Frame, NEW c, NEW a
    PROVE  a \in AnswersOf(Append(s, f), c) <=> a \in AnswersOf(s, c) \/ (f.ch = c /\ f.ans = a)
<1> DEFINE L == Len(s)
           t == Append(s, f)
<1>1. L \in Nat /\ Len(t) = L + 1 /\ t[L + 1] = f /\ \A i \in 1..L : t[i] = s[i]
  BY AppendProperties, LenProperties
<1> HIDE DEF t, L
<1>2. L + 1 \in 1..(L + 1) /\ (\A i \in 1..(L + 1) : i = L + 1 \/ i \in 1..L)
      /\ \A i \in 1..L : i \in 1..(L + 1)
  BY <1>1
<1>3. f.ans \in Answer \cup {"deliver"}
  BY FrameIs
<1>4. QED
  BY <1>1, <1>2, <1>3, Zenon DEF AnswersOf, L, t

LEMMA AnswersTail ==
    ASSUME NEW s \in Seq(Frame), s # <<>>
    PROVE  /\ \A c : AnswersOf(Tail(s), c) \subseteq AnswersOf(s, c)
           /\ Head(s).ans \in AnswersOf(s, Head(s).ch)
           /\ LastWords(s) => LastWords(Tail(s))
           /\ LastWords(s) /\ Head(s).ans \in {"refused", "closed"} => AnswersOf(Tail(s), Head(s).ch) = {}
<1> DEFINE L == Len(s)
           t == Tail(s)
           M == Len(t)
<1>1. /\ t \in Seq(Frame) /\ Head(s) \in Frame /\ 1 \in 1..L /\ Head(s) = s[1]
      /\ \A i \in 1..M : i + 1 \in 1..L /\ t[i] = s[i + 1]
  BY SequenceTail, Zenon
<1>2. L \in Nat /\ M \in Nat /\ L = M + 1
  BY HeadTailProperties, LenProperties, EmptySeq
<1> HIDE DEF t, L, M
<1>3. \A c : AnswersOf(t, c) \subseteq AnswersOf(s, c)
  BY <1>1, Zenon DEF AnswersOf, L, M
<1>4. Head(s).ans \in AnswersOf(s, Head(s).ch)
  <2>1. Head(s).ans \in Answer \cup {"deliver"}
    BY <1>1, FrameIs
  <2>2. QED
    BY <1>1, <2>1, Zenon DEF AnswersOf, L
<1>5. ASSUME LastWords(s) PROVE LastWords(t)
  <2> SUFFICES ASSUME NEW i \in 1..M, t[i].ans \in {"refused", "closed"}, NEW j \in (i + 1)..M
               PROVE  t[j].ch # t[i].ch
    BY Zenon DEF LastWords, M
  <2>1. j \in 1..M /\ j + 1 \in ((i + 1) + 1)..L
    BY <1>2
  <2>2. s[i + 1].ans \in {"refused", "closed"} /\ i + 1 \in 1..L
    BY <1>1, Zenon
  <2>3. s[j + 1].ch # s[i + 1].ch
    BY <1>5, <2>1, <2>2, Zenon DEF LastWords, L
  <2>4. QED
    BY <1>1, <2>1, <2>3, Zenon
<1>6. ASSUME LastWords(s), Head(s).ans \in {"refused", "closed"} PROVE AnswersOf(t, Head(s).ch) = {}
  <2>1. \A i \in 1..M : i + 1 \in (1 + 1)..L
    BY <1>2
  <2>2. \A j \in (1 + 1)..L : s[j].ch # s[1].ch
    BY <1>1, <1>6, Zenon DEF LastWords, L
  <2>3. \A i \in 1..M : t[i].ch # Head(s).ch
    BY <1>1, <2>1, <2>2, Zenon
  <2>4. QED
    BY <2>3, Zenon DEF AnswersOf, M
<1>7. QED
  BY <1>3, <1>4, <1>5, <1>6, Zenon DEF t

LEMMA LastWordsAppend ==
    ASSUME NEW s \in Seq(Frame), LastWords(s), NEW f \in Frame,
           "refused" \notin AnswersOf(s, f.ch), "closed" \notin AnswersOf(s, f.ch)
    PROVE  LastWords(Append(s, f))
<1> DEFINE L == Len(s)
           t == Append(s, f)
<1>1. L \in Nat /\ Len(t) = L + 1 /\ t[L + 1] = f /\ \A i \in 1..L : t[i] = s[i]
  BY AppendProperties, LenProperties
<1> HIDE DEF t, L
<1>2. SUFFICES ASSUME NEW i \in 1..(L + 1), t[i].ans \in {"refused", "closed"}, NEW j \in (i + 1)..(L + 1)
               PROVE  t[j].ch # t[i].ch
  BY <1>1, Zenon DEF LastWords, t
<1>3. i \in 1..L /\ (j = L + 1 \/ (j \in (i + 1)..L /\ j \in 1..L))
  BY <1>1
<1>4. s[i].ans \in {"refused", "closed"} /\ s[i].ans \in Answer
  <2>1. s[i].ans \in {"refused", "closed"}
    BY <1>1, <1>2, <1>3, Zenon
  <2>2. QED
    BY <2>1 DEF Answer
<1>5. CASE j = L + 1
  <2>1. s[i].ch # f.ch
    BY <1>3, <1>4, Zenon DEF AnswersOf, L
  <2>2. QED
    BY <1>1, <1>3, <1>5, <2>1, Zenon
<1>6. CASE j \in (i + 1)..L /\ j \in 1..L
  <2>1. s[j].ch # s[i].ch
    BY <1>3, <1>4, <1>6, Zenon DEF LastWords, L
  <2>2. QED
    BY <1>1, <1>3, <1>6, <2>1, Zenon
<1>7. QED
  BY <1>3, <1>5, <1>6

\* A channel that is not closed yet has not been told so, and a new one nothing.
LEMMA AnswersNow ==
    ASSUME NEW s, NEW n \in Nat, NEW b, Frames(s, n, b)
    PROVE  /\ \A c : c \notin b.closed => "refused" \notin AnswersOf(s, c) /\ "closed" \notin AnswersOf(s, c)
           /\ AnswersOf(s, n + 1) = {}
<1>1. \A i \in 1..Len(s) : s[i].ch \in 1..n /\ (s[i].ans \in {"refused", "closed"} => s[i].ch \in b.closed)
  BY Zenon DEF Frames, Sent
<1>2. n + 1 \notin 1..n
  OBVIOUS
<1>3. QED
  BY <1>1, <1>2, Zenon DEF AnswersOf

LEMMA AnswersNone == \A c : AnswersOf(<<>>, c) = {}
BY DEF AnswersOf

LEMMA BindsAppend ==
    ASSUME NEW S, NEW s \in Seq(S), NEW x \in S, x # "consume", NEW c, NEW b, Binds(s, c, b)
    PROVE  Binds(Append(s, x), c, b)
<1> DEFINE L == Len(s)
           t == Append(s, x)
<1>1. L \in Nat /\ Len(t) = L + 1 /\ t[L + 1] = x /\ \A i \in 1..L : t[i] = s[i]
  BY AppendProperties, LenProperties
<1> HIDE DEF t, L
<1>2. SUFFICES ASSUME NEW i \in 1..(L + 1), t[i] = "consume"
               PROVE  IF i = 1 THEN QueueFor(b, c) \in b.bound ELSE t[i - 1] = "bind"
  BY <1>1, Zenon DEF Binds, t
<1>3. i \in 1..L /\ (i # 1 => i - 1 \in 1..L)
  BY <1>1, <1>2
<1>4. s[i] = "consume"
  BY <1>1, <1>2, <1>3, Zenon
<1>5. IF i = 1 THEN QueueFor(b, c) \in b.bound ELSE s[i - 1] = "bind"
  BY <1>3, <1>4, Zenon DEF Binds, L
<1>6. QED
  BY <1>1, <1>3, <1>5, Zenon

\* The requests of ChannelOkCb are added, or all but the first.
LEMMA BindsSetup ==
    ASSUME NEW S, NEW s \in Seq(S), NEW ops \in {Setup, Tail(Setup)}, ops \in Seq(S),
           NEW c, NEW b, Binds(s, c, b)
    PROVE  Binds(s \o ops, c, b) /\ \A op : Has(s \o ops, op) <=> Has(s, op) \/ (op \in SetupOps /\ Has(ops, op))
<1> DEFINE L == Len(s)
           M == Len(ops)
           u == s \o ops
<1>1. /\ L \in Nat /\ M \in Nat /\ Len(u) = L + M
      /\ \A i \in 1..(L + M) : u[i] = IF i <= L THEN s[i] ELSE ops[i - L]
  BY ConcatProperties, LenProperties
<1>2. /\ \A i \in 1..M : ops[i] = "consume" => i # 1 /\ i - 1 \in 1..M /\ ops[i - 1] = "bind"
      /\ \A i \in 1..M : ops[i] \in SetupOps
  <2>1. CASE ops = Setup
    BY <2>1 DEF Setup, SetupOps
  <2>2. CASE ops = Tail(Setup)
    <3>1. ops = <<"queue", "bind", "consume">>
      BY <2>2 DEF Setup
    <3>2. QED
      BY <3>1 DEF SetupOps
  <2>3. QED
    BY <2>1, <2>2
<1>3. \A op : Has(u, op) <=> Has(s, op) \/ Has(ops, op)
  BY HasConcat, Zenon
<1>4. \A op : Has(ops, op) => op \in SetupOps
  BY <1>2, Zenon DEF Has
<1> HIDE DEF u, L, M
<1>5. ASSUME NEW i \in 1..(L + M), u[i] = "consume"
      PROVE  IF i = 1 THEN QueueFor(b, c) \in b.bound ELSE u[i - 1] = "bind"
  <2>1. CASE i <= L
    <3>1. i \in 1..L /\ (i # 1 => i - 1 \in 1..(L + M) /\ i - 1 <= L)
      BY <1>1, <2>1
    <3>2. u[i] = s[i] /\ (i # 1 => u[i - 1] = s[i - 1])
      BY <1>1, <2>1, <3>1
    <3>3. s[i] = "consume"
      BY <1>5, <3>2
    <3>4. IF i = 1 THEN QueueFor(b, c) \in b.bound ELSE s[i - 1] = "bind"
      BY <3>1, <3>3, Zenon DEF Binds, L
    <3>5. QED
      BY <3>2, <3>4, Zenon
  <2>2. CASE ~(i <= L)
    <3>1. i - L \in 1..M /\ ops[i - L] = "consume"
      BY <1>1, <1>5, <2>2
    <3>2. i - L # 1 /\ ops[(i - L) - 1] = "bind"
      BY <1>2, <3>1, Zenon
    <3>3. i # 1 /\ i - 1 \in 1..(L + M) /\ ~(i - 1 <= L) /\ (i - 1) - L = (i - L) - 1
      BY <1>1, <2>2, <3>1, <3>2
    <3>4. QED
      BY <1>1, <3>2, <3>3
  <2>3. QED
    BY <2>1, <2>2
<1>6. Binds(u, c, b)
  BY <1>1, <1>5, Zenon DEF Binds, u
<1>7. \A op : Has(u, op) <=> Has(s, op) \/ (op \in SetupOps /\ Has(ops, op))
  <2> TAKE op
  <2>1. Has(u, op) <=> Has(s, op) \/ Has(ops, op)
    BY <1>3
  <2>2. Has(ops, op) => op \in SetupOps
    BY <1>4
  <2>3. QED
    BY <2>1, <2>2, Zenon
<1>8. QED
  BY <1>6, <1>7 DEF u

\* The first request is served, and a binding makes the bound.
LEMMA BindsTail ==
    ASSUME NEW S, NEW s \in Seq(S), s # <<>>, NEW c, NEW b, Binds(s, c, b),
           NEW d, Head(s) = "bind" => QueueFor(d, c) \in d.bound
    PROVE  Binds(Tail(s), c, d)
<1> DEFINE L == Len(s)
           t == Tail(s)
<1>1. L \in Nat \ {0} /\ Head(s) = s[1] /\ Len(t) = L - 1
  BY EmptySeq, HeadTailProperties
<1>2. \A i \in 1..(L - 1) : t[i] = s[i + 1]
  BY <1>1, HeadTailProperties
<1> HIDE DEF t, L
<1>3. ASSUME NEW i \in 1..(L - 1), t[i] = "consume"
      PROVE  IF i = 1 THEN QueueFor(d, c) \in d.bound ELSE t[i - 1] = "bind"
  <2>1. /\ i + 1 \in 1..L /\ i + 1 # 1 /\ (i + 1) - 1 = i
        /\ (i # 1 => i - 1 \in 1..(L - 1) /\ (i - 1) + 1 = i)
    BY <1>1
  <2>2. s[i + 1] = "consume"
    BY <1>2, <1>3, Zenon
  <2>3. s[i] = "bind"
    BY <2>1, <2>2, Zenon DEF Binds, L
  <2>4. CASE i = 1
    BY <1>1, <2>3, <2>4, Zenon
  <2>5. CASE i # 1
    BY <1>2, <2>1, <2>3, <2>5, Zenon
  <2>6. QED
    BY <2>4, <2>5
<1>4. QED
  BY <1>1, <1>3, Zenon DEF Binds, t

\* Another broker that has bound what was declared.
LEMMA BindsStill ==
    ASSUME NEW S, NEW s \in Seq(S), NEW c, NEW b, Binds(s, c, b), Declares(s, c, b), NEW d,
           Declared(b, c) /\ QueueFor(b, c) \in b.bound => QueueFor(d, c) \in d.bound
    PROVE  Binds(s, c, d)
<1> SUFFICES ASSUME NEW i \in 1..Len(s), s[i] = "consume"
             PROVE  IF i = 1 THEN QueueFor(d, c) \in d.bound ELSE s[i - 1] = "bind"
  BY Zenon DEF Binds
<1>1. IF i = 1 THEN QueueFor(b, c) \in b.bound ELSE s[i - 1] = "bind"
  BY Zenon DEF Binds
<1>2. i = 1 => Declared(b, c)
  <2>1. \A j \in 1..(1 - 1) : FALSE
    OBVIOUS
  <2>2. QED
    BY <2>1, Zenon DEF Declares
<1>3. QED
  BY <1>1, <1>2, Zenon

LEMMA BindsEmpty == \A c, b : Binds(<<>>, c, b) /\ Binds(<<"open">>, c, b)
BY DEF Binds

-----------------------------------------------------------------------------
(* What the operations do to a channel *)

\* What may become of a channel and its answers, while the broker goes from b to d.
LEMMA OwnedFrom ==
    ASSUME NEW r, NEW c, NEW m, NEW k, NEW p, NEW A, NEW b, Owned(r, c, m, k, p, A, b),
           NEW x, x.role = r.role, NEW B, NEW d,
           \A op : Has(x.req, op) =>
               \/ Has(r.req, op)
               \/ op = "ack"
               \/ op = "publish" /\ r.role # "main"
               \/ op = "close" /\ x.st \notin Live
               \/ op \in SetupOps /\ c = k,
           \A op \in SetupOps : Has(x.todo, op) => Has(r.todo, op) \/ (c = k /\ x.st # "closed"),
           c \in b.closed => c \in d.closed,
           Consumes(d, c) => Consumes(b, c) \/ c = k,
           "deliver" \in B => "deliver" \in A \/ c = k,
           "refused" \in B => "refused" \in A \/ c = k \/ r.role # "main",
           x.st \in Live => r.st \in Live /\ ("closed" \in B => "closed" \in A),
           x.st = "closed" => B = {} /\ (r.st = "closed" \/ Bare(x.todo)),
           Binds(x.req, c, d)
    PROVE  Owned(x, c, m, k, p, B, d)
<1>1. /\ c = m => x.role = "main"
      /\ c = p => x.role = "pub"
  BY Zenon DEF Owned
<1>2. x.role = "main" => ~Has(x.req, "publish")
  <2>1. r.role = "main" => ~Has(r.req, "publish")
    BY Zenon DEF Owned
  <2>2. "publish" # "ack" /\ "publish" # "close"
    OBVIOUS
  <2>3. QED
    BY <2>1, <2>2, NoSetups, Zenon
<1>3. c = k \/ Idle(x, c, B, d)
  <2> SUFFICES ASSUME c # k PROVE Idle(x, c, B, d)
    OBVIOUS
  <2>1. Idle(r, c, A, b)
    BY Zenon DEF Owned
  <2>2. Bare(x.todo)
    BY <2>1, Zenon DEF Idle, Bare
  <2>3. c \notin d.closed => Bare(x.req)
    <3> SUFFICES ASSUME c \notin d.closed, NEW op \in SetupOps, Has(x.req, op) PROVE FALSE
      BY Zenon DEF Bare
    <3>1. ~Has(r.req, op)
      BY <2>1, Zenon DEF Idle, Bare
    <3>2. op # "ack" /\ op # "publish" /\ op # "close"
      BY NoSetups
    <3>3. QED
      BY <3>1, <3>2, Zenon
  <2>4. ~Consumes(d, c) /\ "deliver" \notin B /\ (x.role = "main" => "refused" \notin B)
    BY <2>1, Zenon DEF Idle
  <2>5. QED
    BY <2>2, <2>3, <2>4, Zenon DEF Idle
<1>4. x.st = "closed" => Bare(x.todo) /\ B = {}
  <2> SUFFICES ASSUME x.st = "closed", r.st = "closed" PROVE Bare(x.todo)
    BY Zenon
  <2>1. Bare(r.todo)
    BY Zenon DEF Owned
  <2>2. QED
    BY <2>1, Zenon DEF Bare
<1>5. x.st \in Live => ~Has(x.req, "close") /\ "closed" \notin B
  <2>1. r.st \in Live => ~Has(r.req, "close") /\ "closed" \notin A
    BY Zenon DEF Owned
  <2>2. "close" # "ack" /\ "close" # "publish"
    OBVIOUS
  <2>3. QED
    BY <2>1, <2>2, NoSetups, Zenon
<1>6. QED
  BY <1>1, <1>2, <1>3, <1>4, <1>5, Zenon DEF Owned

\* A channel that the step leaves alone.
LEMMA OwnedStill ==
    ASSUME NEW r, NEW c, NEW m, NEW k, NEW p, NEW A, NEW b, Owned(r, c, m, k, p, A, b),
           NEW B, B \subseteq A, NEW d, c \in b.closed => c \in d.closed,
           Consumes(d, c) => Consumes(b, c), Binds(r.req, c, d)
    PROVE  Owned(r, c, m, k, p, B, d)
<1>1. r.st = "closed" => A = {}
  BY Zenon DEF Owned
<1>2. r.st = "closed" => B = {}
  BY <1>1
<1>3. QED
  BY <1>2, OwnedFrom, Zenon

\* close().
Shutting(x, r) ==
    /\ x \in Chan /\ x.role = r.role /\ x.st = "closing"
    /\ x.req = Append(r.req, "close") /\ x.todo = Append(r.todo, "close")

LEMMA CloseMakes ==
    ASSUME NEW cs \in Seq(Chan), NEW c \in 0..Len(cs)
    PROVE  /\ Close(cs, c) \in Seq(Chan) /\ Len(Close(cs, c)) = Len(cs)
           /\ \A d \in 1..Len(cs) : Close(cs, c)[d] = cs[d] \/ (d = c /\ Shutting(Close(cs, c)[d], cs[d]))
<1>1. CASE c # 0 /\ cs[c].st \in {"connected", "ready"}
  <2> DEFINE r == cs[c]
             req == Append(r.req, "close")
             todo == Append(r.todo, "close")
             x == [r EXCEPT !.st = "closing", !.req = req, !.todo = todo]
  <2>1. c \in 1..Len(cs) /\ DOMAIN cs = 1..Len(cs)
    BY <1>1, LenProperties
  <2>2. r \in Chan
    BY <2>1, ElementOfSeq, Zenon
  <2>3. req \in Seq(Ops) /\ todo \in Seq(Todos)
    BY <2>2, ChanFields, Words, AppendProperties, Zenon
  <2>4. Close(cs, c) = [cs EXCEPT ![c] = x]
    BY <1>1, <2>1, <2>2 DEF Close, Chan
  <2> HIDE DEF req, todo
  <2>5. /\ x \in Chan /\ x.role = r.role /\ x.st = "closing" /\ x.req = req /\ x.todo = todo
    BY <2>2, <2>3, Words DEF Chan
  <2> HIDE DEF x
  <2>6. Shutting(x, r)
    BY <2>5, Zenon DEF Shutting, req, todo
  <2> HIDE DEF r
  <2>7. /\ [cs EXCEPT ![c] = x] \in Seq(Chan) /\ Len([cs EXCEPT ![c] = x]) = Len(cs)
        /\ \A d \in 1..Len(cs) : [cs EXCEPT ![c] = x][d] = IF d = c THEN x ELSE cs[d]
    BY <2>1, <2>5, ExceptSeq
  <2>8. QED
    BY <2>4, <2>6, <2>7, Zenon DEF r
<1>2. CASE ~(c # 0 /\ cs[c].st \in {"connected", "ready"})
  BY <1>2, Zenon DEF Close
<1>3. QED
  BY <1>1, <1>2

\* The record of a new channel.
Opened(x, role) ==
    /\ x \in Chan /\ x.role = role /\ x.st = "connected" /\ x.req = <<"open">> /\ x.todo = <<>>

LEMMA OpenMakes ==
    ASSUME NEW cs \in Seq(Chan), NEW role \in Roles, NEW ready \in BOOLEAN
    PROVE  /\ Open(cs, role, ready) \in Seq(Chan) /\ Len(Open(cs, role, ready)) = Len(cs) + 1
           /\ \A d \in 1..Len(cs) : Open(cs, role, ready)[d] = cs[d]
           /\ Opened(Open(cs, role, ready)[Len(cs) + 1], role)
<1> DEFINE new == [role |-> role, st |-> "connected", ready |-> ready,
                   req |-> <<"open">>, todo |-> <<>>]
<1>1. <<"open">> \in Seq(Ops) /\ <<>> \in Seq(Todos)
  BY DEF Ops
<1>2. Opened(new, role)
  BY <1>1, Words DEF Chan, Opened
<1>3. Open(cs, role, ready) = Append(cs, new)
  BY DEF Open
<1> HIDE DEF new
<1>4. new \in Chan
  BY <1>2, Zenon DEF Opened
<1>5. /\ Append(cs, new) \in Seq(Chan) /\ Len(Append(cs, new)) = Len(cs) + 1
      /\ \A d \in 1..Len(cs) : Append(cs, new)[d] = cs[d]
      /\ Append(cs, new)[Len(cs) + 1] = new
  BY <1>4, AppendProperties
<1>6. QED
  BY <1>2, <1>3, <1>5, Zenon

\* Channel old is replaced by a new one.
Replaced(R, cs, old, role) ==
    /\ R \in Seq(Chan) /\ Len(R) = Len(cs) + 1
    /\ \A d \in 1..Len(cs) : R[d] = cs[d] \/ (d = old /\ Shutting(R[d], cs[d]))
    /\ Opened(R[Len(cs) + 1], role)

LEMMA RenewMakes ==
    ASSUME NEW cs \in Seq(Chan), NEW old \in 0..Len(cs), NEW role \in Roles, NEW ready \in BOOLEAN
    PROVE  Replaced(Renew(cs, old, role, ready), cs, old, role)
<1> DEFINE o == Open(cs, role, ready)
           L == Len(cs)
<1>1. /\ o \in Seq(Chan) /\ Len(o) = L + 1 /\ L \in Nat
      /\ \A d \in 1..L : o[d] = cs[d]
      /\ Opened(o[L + 1], role)
  BY OpenMakes, LenProperties
<1>2. Renew(cs, old, role, ready) = Close(o, old)
  BY DEF Renew
<1> HIDE DEF o, L
<1>3. old \in 0..L
  BY DEF L
<1>4. old \in 0..(L + 1) /\ L + 1 \in 1..(L + 1) /\ L + 1 # old /\ \A d \in 1..L : d \in 1..(L + 1)
  BY <1>1, <1>3
<1>5. /\ Close(o, old) \in Seq(Chan) /\ Len(Close(o, old)) = L + 1
      /\ \A d \in 1..(L + 1) : Close(o, old)[d] = o[d] \/ (d = old /\ Shutting(Close(o, old)[d], o[d]))
  <2>1. old \in 0..Len(o)
    BY <1>1, <1>4, Zenon
  <2>2. /\ Close(o, old) \in Seq(Chan) /\ Len(Close(o, old)) = Len(o)
        /\ \A d \in 1..Len(o) : Close(o, old)[d] = o[d] \/ (d = old /\ Shutting(Close(o, old)[d], o[d]))
    BY <1>1, <2>1, CloseMakes, Zenon
  <2>3. QED
    BY <1>1, <2>2, Zenon
<1>6. Close(o, old)[L + 1] = o[L + 1]
  BY <1>4, <1>5, Zenon
<1>7. \A d \in 1..L : Close(o, old)[d] = cs[d] \/ (d = old /\ Shutting(Close(o, old)[d], cs[d]))
  BY <1>1, <1>4, <1>5, Zenon
<1>8. QED
  BY <1>1, <1>2, <1>5, <1>6, <1>7, Zenon DEF L, Replaced

\* send(), and a request with a Deferred.
Asks(x, r, ops) ==
    /\ x \in Chan /\ x.role = r.role /\ x.st = r.st
    /\ \/ x.req = r.req /\ r.st = "closing"
       \/ x.req = r.req \o ops
    /\ x.todo = r.todo \o ops

LEMMA RequestMakes ==
    ASSUME NEW cs \in Seq(Chan), NEW c \in 1..Len(cs), NEW ops \in {Setup, Tail(Setup)}
    PROVE  /\ Request(cs, c, ops) \in Seq(Chan) /\ Len(Request(cs, c, ops)) = Len(cs)
           /\ \A d \in 1..Len(cs) : d # c => Request(cs, c, ops)[d] = cs[d]
           /\ Asks(Request(cs, c, ops)[c], cs[c], ops)
<1> DEFINE r == cs[c]
           req == r.req \o ops
           todo == r.todo \o ops
           x == IF r.st = "closing" THEN [r EXCEPT !.todo = todo] ELSE [r EXCEPT !.req = req, !.todo = todo]
<1>1. r \in Chan /\ DOMAIN cs = 1..Len(cs)
  BY ElementOfSeq, LenProperties, Zenon
<1>2. req \in Seq(Ops) /\ todo \in Seq(Todos)
  <2>1. r.req \in Seq(Ops) /\ r.todo \in Seq(Todos) /\ ops \in Seq(Ops) /\ ops \in Seq(Todos)
    BY <1>1, ChanFields, SetupRequests, Zenon
  <2>2. QED
    BY <2>1, ConcatProperties, Zenon
<1>3. Request(cs, c, ops) = [cs EXCEPT ![c] = x]
  BY <1>1 DEF Request, Chan
<1> HIDE DEF req, todo
<1>4. /\ x \in Chan /\ x.role = r.role /\ x.st = r.st /\ x.todo = todo
      /\ \/ x.req = r.req /\ r.st = "closing"
         \/ x.req = req
  <2>1. CASE r.st = "closing"
    BY <1>1, <1>2, <2>1 DEF Chan
  <2>2. CASE r.st # "closing"
    BY <1>1, <1>2, <2>2 DEF Chan
  <2>3. QED
    BY <2>1, <2>2
<1> HIDE DEF x
<1>5. Asks(x, r, ops)
  BY <1>4, Zenon DEF Asks, req, todo
<1> HIDE DEF r
<1>6. /\ [cs EXCEPT ![c] = x] \in Seq(Chan) /\ Len([cs EXCEPT ![c] = x]) = Len(cs)
      /\ \A d \in 1..Len(cs) : d # c => [cs EXCEPT ![c] = x][d] = cs[d]
      /\ [cs EXCEPT ![c] = x][c] = x
  BY <1>4, LeftBy
<1>7. QED
  BY <1>3, <1>5, <1>6, Zenon DEF r

Sends(x, r, op) ==
    /\ x \in Chan /\ x.role = r.role /\ x.st = r.st /\ x.todo = r.todo
    /\ x.req = r.req \/ x.req = Append(r.req, op)

LEMMA SendMakes ==
    ASSUME NEW cs \in Seq(Chan), NEW c \in 1..Len(cs), NEW op \in Ops
    PROVE  /\ Send(cs, c, op) \in Seq(Chan) /\ Len(Send(cs, c, op)) = Len(cs)
           /\ \A d \in 1..Len(cs) : d # c => Send(cs, c, op)[d] = cs[d]
           /\ Sends(Send(cs, c, op)[c], cs[c], op)
<1>1. cs[c] \in Chan /\ DOMAIN cs = 1..Len(cs)
  BY ElementOfSeq, LenProperties, Zenon
<1>2. CASE cs[c].st \in {"connected", "ready"}
  <2> DEFINE r == cs[c]
             req == Append(r.req, op)
             x == [r EXCEPT !.req = req]
  <2>1. req \in Seq(Ops)
    BY <1>1, ChanFields, AppendProperties, Zenon
  <2>2. Send(cs, c, op) = [cs EXCEPT ![c] = x]
    BY <1>1, <1>2 DEF Send
  <2> HIDE DEF req
  <2>3. x \in Chan /\ x.role = r.role /\ x.st = r.st /\ x.todo = r.todo /\ x.req = req
    BY <1>1, <2>1 DEF Chan
  <2> HIDE DEF x
  <2>4. Sends(x, r, op)
    BY <2>3, Zenon DEF Sends, req
  <2> HIDE DEF r
  <2>5. /\ [cs EXCEPT ![c] = x] \in Seq(Chan) /\ Len([cs EXCEPT ![c] = x]) = Len(cs)
        /\ \A d \in 1..Len(cs) : d # c => [cs EXCEPT ![c] = x][d] = cs[d]
        /\ [cs EXCEPT ![c] = x][c] = x
    BY <2>3, LeftBy
  <2>6. QED
    BY <2>2, <2>4, <2>5, Zenon DEF r
<1>3. CASE cs[c].st \notin {"connected", "ready"}
  <2>1. Send(cs, c, op) = cs
    BY <1>3, Zenon DEF Send
  <2>2. QED
    BY <1>1, <2>1, Zenon DEF Sends
<1>4. QED
  BY <1>2, <1>3

\* Each of these does to a channel what it may.
LEMMA ShutOwned ==
    ASSUME NEW r \in Chan, NEW c, NEW m, NEW k, NEW p, NEW A, NEW b, Owned(r, c, m, k, p, A, b),
           NEW x, Shutting(x, r)
    PROVE  Owned(x, c, m, k, p, A, b)
<1>1. r.req \in Seq(Ops) /\ r.todo \in Seq(Todos) /\ "close" \in Ops /\ "close" \in Todos
  BY ChanFields, Words, Zenon
<1>2. /\ x.role = r.role /\ x.st = "closing"
      /\ x.req = Append(r.req, "close") /\ x.todo = Append(r.todo, "close")
  BY Zenon DEF Shutting
<1>3. \A op : Has(x.req, op) => Has(r.req, op) \/ op = "close"
  <2>1. \A op : Has(Append(r.req, "close"), op) <=> Has(r.req, op) \/ "close" = op
    BY <1>1, HasAppend
  <2>2. QED
    BY <1>2, <2>1, Zenon
<1>4. \A op \in SetupOps : Has(x.todo, op) => Has(r.todo, op)
  <2>1. \A op : Has(Append(r.todo, "close"), op) <=> Has(r.todo, op) \/ "close" = op
    BY <1>1, HasAppend
  <2>2. QED
    BY <1>2, <2>1, NoSetups, Zenon
<1>5. Binds(x.req, c, b)
  <2>1. Binds(r.req, c, b) /\ "close" # "consume"
    BY Zenon DEF Owned
  <2>2. QED
    BY <1>1, <1>2, <2>1, BindsAppend, Zenon
<1>6. x.st \notin Live /\ x.st # "closed"
  BY <1>2 DEF Live
<1>7. QED
  BY <1>2, <1>3, <1>4, <1>5, <1>6, OwnedFrom, Zenon

LEMMA OpenOwned ==
    ASSUME NEW x, NEW role, Opened(x, role), NEW c, NEW m, c = m => role = "main",
           NEW p, c = p => role = "pub", NEW k, NEW b, ~Consumes(b, c)
    PROVE  Owned(x, c, m, k, p, {}, b)
<1>1. /\ x.role = role /\ x.st = "connected" /\ x.req = <<"open">> /\ x.todo = <<>>
  BY Zenon DEF Opened
<1>2. \A op : Has(x.req, op) => op = "open"
  BY <1>1 DEF Has
<1>3. Bare(x.req) /\ Bare(x.todo) /\ ~Has(x.req, "publish") /\ ~Has(x.req, "close")
  BY <1>1, <1>2, NoSetups, HasEmpty DEF Bare
<1>4. Idle(x, c, {}, b)
  BY <1>3 DEF Idle
<1>5. Binds(x.req, c, b) /\ x.st # "closed"
  BY <1>1, BindsEmpty
<1>6. QED
  BY <1>1, <1>3, <1>4, <1>5 DEF Owned

LEMMA AskedOwned ==
    ASSUME NEW r \in Chan, NEW c, NEW m, NEW p, NEW A, NEW b, Owned(r, c, m, c, p, A, b),
           r.st # "closed", NEW ops \in {Setup, Tail(Setup)}, NEW x, Asks(x, r, ops)
    PROVE  Owned(x, c, m, c, p, A, b)
<1>1. r.req \in Seq(Ops) /\ ops \in Seq(Ops)
  BY ChanFields, SetupRequests, Zenon
<1>2. x.role = r.role /\ x.st = r.st /\ (x.req = r.req \/ x.req = r.req \o ops)
  BY Zenon DEF Asks
<1>3. Binds(r.req, c, b)
  BY Zenon DEF Owned
<1>4. Binds(x.req, c, b) /\ \A op : Has(x.req, op) => Has(r.req, op) \/ op \in SetupOps
  <2>1. /\ Binds(r.req \o ops, c, b)
        /\ \A op : Has(r.req \o ops, op) <=> Has(r.req, op) \/ (op \in SetupOps /\ Has(ops, op))
    BY <1>1, <1>3, BindsSetup
  <2>2. QED
    BY <1>2, <1>3, <2>1, Zenon
<1>5. QED
  BY <1>2, <1>4, OwnedFrom, Zenon

LEMMA SentOwned ==
    ASSUME NEW r \in Chan, NEW c, NEW m, NEW k, NEW p, NEW A, NEW b, Owned(r, c, m, k, p, A, b),
           NEW op, op = "ack" \/ (op = "publish" /\ r.role = "pub"), NEW x, Sends(x, r, op)
    PROVE  Owned(x, c, m, k, p, A, b)
<1>1. r.req \in Seq(Ops) /\ op \in Ops /\ op # "consume"
  BY ChanFields, Words
<1>2. x.role = r.role /\ x.st = r.st /\ x.todo = r.todo /\ (x.req = r.req \/ x.req = Append(r.req, op))
  BY Zenon DEF Sends
<1>3. \A o : Has(x.req, o) => Has(r.req, o) \/ o = op
  <2>1. \A o : Has(Append(r.req, op), o) <=> Has(r.req, o) \/ op = o
    BY <1>1, HasAppend
  <2>2. QED
    BY <1>2, <2>1, Zenon
<1>4. Binds(x.req, c, b)
  <2>1. Binds(r.req, c, b)
    BY Zenon DEF Owned
  <2>2. QED
    BY <1>1, <1>2, <2>1, BindsAppend, Zenon
<1>5. x.st = "closed" => A = {}
  BY <1>2, Zenon DEF Owned
<1>6. "pub" # "main"
  OBVIOUS
<1>7. QED
  BY <1>2, <1>3, <1>4, <1>5, <1>6, OwnedFrom, Zenon

LEMMA CloseOwn ==
    ASSUME NEW cs \in Seq(Chan), NEW m, NEW k, NEW p, NEW s, NEW b, Own(cs, m, k, p, s, b),
           NEW c \in 0..Len(cs)
    PROVE  Own(Close(cs, c), m, k, p, s, b)
<1>1. Len(Close(cs, c)) = Len(cs)
  BY CloseMakes
<1>2. ASSUME NEW d \in 1..Len(cs) PROVE Owned(Close(cs, c)[d], d, m, k, p, AnswersOf(s, d), b)
  <2>1. Owned(cs[d], d, m, k, p, AnswersOf(s, d), b) /\ cs[d] \in Chan
    BY ElementOfSeq, Zenon DEF Own
  <2>2. Close(cs, c)[d] = cs[d] \/ Shutting(Close(cs, c)[d], cs[d])
    BY CloseMakes, Zenon
  <2>3. QED
    BY <2>1, <2>2, ShutOwned, Zenon
<1>3. QED
  BY <1>1, <1>2, Zenon DEF Own

\* A step that changes channel c only.
LEMMA OwnWith ==
    ASSUME NEW cs \in Seq(Chan), NEW m, NEW k, NEW p, NEW s, NEW b, Own(cs, m, k, p, s, b),
           NEW c \in 1..Len(cs), NEW t, Len(t) = Len(cs),
           \A d \in 1..Len(cs) : d # c => t[d] = cs[d],
           Owned(t[c], c, m, k, p, AnswersOf(s, c), b)
    PROVE  Own(t, m, k, p, s, b)
BY Zenon DEF Own

LEMMA RequestOwn ==
    ASSUME NEW cs \in Seq(Chan), NEW c \in 1..Len(cs), NEW m, NEW p, NEW s, NEW b, Own(cs, m, c, p, s, b),
           cs[c].st # "closed", NEW ops \in {Setup, Tail(Setup)}
    PROVE  Own(Request(cs, c, ops), m, c, p, s, b)
<1>1. Owned(cs[c], c, m, c, p, AnswersOf(s, c), b) /\ cs[c] \in Chan
  BY ElementOfSeq, Zenon DEF Own
<1>2. /\ Len(Request(cs, c, ops)) = Len(cs)
      /\ \A d \in 1..Len(cs) : d # c => Request(cs, c, ops)[d] = cs[d]
      /\ Asks(Request(cs, c, ops)[c], cs[c], ops)
  BY RequestMakes, Zenon
<1>3. Owned(Request(cs, c, ops)[c], c, m, c, p, AnswersOf(s, c), b)
  BY <1>1, <1>2, AskedOwned, Zenon
<1>4. QED
  BY <1>2, <1>3, OwnWith, Zenon

LEMMA SendOwn ==
    ASSUME NEW cs \in Seq(Chan), NEW c \in 1..Len(cs), NEW m, NEW k, NEW p, NEW s, NEW b,
           Own(cs, m, k, p, s, b), NEW op, op = "ack" \/ (op = "publish" /\ cs[c].role = "pub")
    PROVE  Own(Send(cs, c, op), m, k, p, s, b)
<1>1. Owned(cs[c], c, m, k, p, AnswersOf(s, c), b) /\ cs[c] \in Chan
  BY ElementOfSeq, Zenon DEF Own
<1>2. op \in Ops
  BY Words, Zenon
<1>3. /\ Len(Send(cs, c, op)) = Len(cs)
      /\ \A d \in 1..Len(cs) : d # c => Send(cs, c, op)[d] = cs[d]
      /\ Sends(Send(cs, c, op)[c], cs[c], op)
  BY <1>2, SendMakes, Zenon
<1>4. Owned(Send(cs, c, op)[c], c, m, k, p, AnswersOf(s, c), b)
  BY <1>1, <1>3, SentOwned, Zenon
<1>5. QED
  BY <1>3, <1>4, OwnWith, Zenon

\* A channel is replaced: the one for publishing, or m_channel when it is idle.
LEMMA RenewPubOwn ==
    ASSUME NEW cs \in Seq(Chan), NEW m \in 0..Len(cs), NEW k \in {0, m}, NEW p \in 0..Len(cs),
           NEW s, NEW b, Own(cs, m, k, p, s, b), AnswersOf(s, Len(cs) + 1) = {},
           ~Consumes(b, Len(cs) + 1)
    PROVE  Own(Renew(cs, p, "pub", FALSE), m, k, Len(cs) + 1, s, b)
<1> DEFINE R == Renew(cs, p, "pub", FALSE)
           L == Len(cs)
<1>1. Replaced(R, cs, p, "pub")
  <2>1. FALSE \in BOOLEAN
    OBVIOUS
  <2>2. QED
    BY <2>1, RenewMakes, Words, Zenon
<1>2. L \in Nat /\ L + 1 \notin 1..L /\ (\A d \in 1..(L + 1) : d \in 1..L \/ d = L + 1) /\ L + 1 # m
  BY LenProperties
<1> HIDE DEF R
<1>3. ASSUME NEW d \in 1..L PROVE Owned(R[d], d, m, k, L + 1, AnswersOf(s, d), b)
  <2>1. Owned(cs[d], d, m, k, p, AnswersOf(s, d), b) /\ cs[d] \in Chan
    BY ElementOfSeq, Zenon DEF Own
  <2>2. R[d] = cs[d] \/ Shutting(R[d], cs[d])
    BY <1>1, Zenon DEF Replaced
  <2>3. Owned(R[d], d, m, k, p, AnswersOf(s, d), b)
    BY <2>1, <2>2, ShutOwned, Zenon
  <2>4. d # L + 1
    BY <1>2
  <2>5. QED
    BY <2>3, <2>4, Zenon DEF Owned
<1>4. Owned(R[L + 1], L + 1, m, k, L + 1, AnswersOf(s, L + 1), b)
  <2>1. Opened(R[L + 1], "pub")
    BY <1>1, Zenon DEF Replaced
  <2>2. Owned(R[L + 1], L + 1, m, k, L + 1, {}, b)
    BY <1>2, <2>1, OpenOwned
  <2>3. QED
    BY <2>2, Zenon
<1>5. Len(R) = L + 1
  BY <1>1, Zenon DEF Replaced
<1> HIDE DEF L
<1>6. QED
  BY <1>2, <1>3, <1>4, <1>5, Zenon DEF Own, R, L

LEMMA RenewMainOwn ==
    ASSUME NEW cs \in Seq(Chan), NEW m \in 0..Len(cs), NEW p \in 0..Len(cs),
           NEW s, NEW b, Own(cs, m, 0, p, s, b), AnswersOf(s, Len(cs) + 1) = {},
           ~Consumes(b, Len(cs) + 1), NEW k
    PROVE  Own(Renew(cs, m, "main", TRUE), Len(cs) + 1, k, p, s, b)
<1> DEFINE R == Renew(cs, m, "main", TRUE)
           L == Len(cs)
<1>1. Replaced(R, cs, m, "main")
  <2>1. TRUE \in BOOLEAN
    OBVIOUS
  <2>2. QED
    BY <2>1, RenewMakes, Words, Zenon
<1>2. L \in Nat /\ L + 1 \notin 1..L /\ (\A d \in 1..(L + 1) : d \in 1..L \/ d = L + 1) /\ L + 1 # p
  BY LenProperties
<1> HIDE DEF R
<1>3. ASSUME NEW d \in 1..L PROVE Owned(R[d], d, L + 1, k, p, AnswersOf(s, d), b)
  <2>1. Owned(cs[d], d, m, 0, p, AnswersOf(s, d), b) /\ cs[d] \in Chan
    BY ElementOfSeq, Zenon DEF Own
  <2>2. R[d] = cs[d] \/ Shutting(R[d], cs[d])
    BY <1>1, Zenon DEF Replaced
  <2>3. Owned(R[d], d, m, 0, p, AnswersOf(s, d), b)
    BY <2>1, <2>2, ShutOwned, Zenon
  <2>4. d # L + 1 /\ d # 0
    BY <1>2
  <2>5. QED
    BY <2>3, <2>4, Zenon DEF Owned
<1>4. Owned(R[L + 1], L + 1, L + 1, k, p, AnswersOf(s, L + 1), b)
  <2>1. Opened(R[L + 1], "main")
    BY <1>1, Zenon DEF Replaced
  <2>2. QED
    BY <1>2, <2>1, OpenOwned, Zenon
<1>5. Len(R) = L + 1
  BY <1>1, Zenon DEF Replaced
<1> HIDE DEF L
<1>6. QED
  BY <1>2, <1>3, <1>4, <1>5, Zenon DEF Own, R, L

\* m_channel is idle.
LEMMA OwnIdle ==
    ASSUME NEW cs \in Seq(Chan), NEW m, NEW p, NEW s, NEW b, Own(cs, m, m, p, s, b),
           m \in 1..Len(cs) => Idle(cs[m], m, AnswersOf(s, m), b)
    PROVE  Own(cs, m, 0, p, s, b)
BY Zenon DEF Own, Owned

LEMMA OwnAny ==
    ASSUME NEW cs \in Seq(Chan), NEW m, NEW k, NEW p, NEW s, NEW b, Own(cs, m, 0, p, s, b)
    PROVE  Own(cs, m, k, p, s, b)
<1>1. \A d \in 1..Len(cs) : d # 0
  OBVIOUS
<1>2. QED
  BY <1>1, Zenon DEF Own, Owned

-----------------------------------------------------------------------------
(* The callbacks *)

\* No answers are on their way from channels that do not exist, and they consume
\* nothing.
LEMMA NewSilent ==
    ASSUME IInv, NEW n \in {Len(chan), Len(chan) + 1}
    PROVE  n \in Nat /\ AnswersOf(inbox, n + 1) = {} /\ ~Consumes(broker, n + 1)
<1>1. n \in Nat /\ Len(chan) <= n /\ Len(chan) \in Nat /\ n + 1 \in Nat /\ n + 1 > n
  BY Parts
<1>2. Frames(inbox, n, broker) /\ Serving(broker, n)
  BY <1>1, Parts, MoreChannels, Zenon
<1>3. QED
  BY <1>1, <1>2, AnswersNow, NewConsumesNothing, Zenon

\* m_channel and m_channelPub are not the same channel.
LEMMA TwoChannels ==
    ASSUME NEW cs, NEW m, NEW k, NEW p, NEW s, NEW b, Own(cs, m, k, p, s, b)
    PROVE  /\ m \in 1..Len(cs) => cs[m].role = "main" /\ m # p
           /\ p \in 1..Len(cs) => cs[p].role = "pub"
<1>1. "main" # "pub"
  OBVIOUS
<1>2. QED
  BY <1>1, Zenon DEF Own, Owned

\* A channel that is closed is idle.
LEMMA ClosedIdle ==
    ASSUME NEW cs, NEW m, NEW k, NEW p, NEW s, NEW b, Own(cs, m, k, p, s, b),
           NEW n, Serving(b, n), NEW c \in 1..Len(cs), cs[c].st = "closed", c \in b.closed
    PROVE  Idle(cs[c], c, AnswersOf(s, c), b)
<1>1. Bare(cs[c].todo) /\ AnswersOf(s, c) = {}
  BY Zenon DEF Own, Owned
<1>2. ~Consumes(b, c)
  BY Zenon DEF Serving, Consumes
<1>3. QED
  BY <1>1, <1>2 DEF Idle

\* What ChannelOkCb says and asks for.
OkTells ==
    /\ connOpen => pub' # 0 /\ chan'[pub'].st = "connected"
    /\ chan'[main'].st = "connected" \/ (main' = main /\ chan'[main].st = chan[main].st)
    /\ status' =>
          /\ connOpen /\ main' = main /\ chan[main].st # "closed"
          /\ chan[main].st # "closing" => Has(chan'[main].req, "consume")

LEMMA AskedConsumes ==
    ASSUME NEW r \in Chan, NEW x, Asks(x, r, Setup), r.st # "closing"
    PROVE  Has(x.req, "consume")
<1>1. Has(Setup, "consume")
  <2>1. Len(Setup) = 4 /\ Setup[4] = "consume" /\ 4 \in 1..4
    BY DEF Setup
  <2>2. QED
    BY <2>1, Zenon DEF Has
<1>2. r.req \in Seq(Ops) /\ Setup \in Seq(Ops) /\ x.req = r.req \o Setup
  BY ChanFields, SetupRequests, Zenon DEF Asks
<1>3. Has(r.req \o Setup, "consume")
  BY <1>1, <1>2, HasConcat
<1>4. QED
  BY <1>2, <1>3

LEMMA ChannelOkCbOrders ==
    ASSUME IInv, Orderly, main # 0, ~Runs(cbs, "error"), ChannelOkCb
    PROVE  /\ Own(chan', main', main', pub', inbox, broker)
           /\ chan'[1].role = "main" /\ OkTells
<1> DEFINE cs == IF connOpen THEN Renew(chan, pub, "pub", FALSE) ELSE chan
           n == Len(cs)
           works == chan[main].st # "closed"
           L == Len(chan)
<1>1. /\ chan \in Seq(Chan) /\ L \in Nat /\ main \in 1..L /\ main \in 0..L /\ pub \in 0..L
      /\ connOpen \in BOOLEAN /\ 1 \in 1..L /\ Serving(broker, L)
      /\ Client(chan, main, pub, broker)
  <2>1. chan \in Seq(Chan) /\ L \in Nat /\ main \in 0..L /\ pub \in 0..L
        /\ connOpen \in BOOLEAN /\ Serving(broker, L) /\ Client(chan, main, pub, broker)
    BY Parts, ControlNow, Zenon
  <2>2. main \in 1..L /\ 1 \in 1..L
    BY <2>1
  <2>3. QED
    BY <2>1, <2>2
<1>2. /\ pub' = IF connOpen THEN L + 1 ELSE pub
      /\ main' = IF connOpen /\ ~works THEN n + 1 ELSE main
      /\ status' = (connOpen /\ works)
      /\ chan' = IF works THEN Request(cs, main, Setup)
                 ELSE IF connOpen
                 THEN Request(Renew(cs, main, "main", TRUE), n + 1, Tail(Setup))
                 ELSE cs
  BY Zenon DEF ChannelOkCb
<1>3. Own(chan, main, main, pub, inbox, broker) /\ chan[1].role = "main"
  <2>1. L # 0
    BY <1>1
  <2>2. QED
    BY <2>1, Zenon DEF Orderly, Keeper
<1>4. main # pub /\ chan[main] \in Chan
  <2>1. main # pub
    BY <1>1, <1>3, TwoChannels
  <2>2. chan[main] \in Chan
    BY <1>1, ElementOfSeq
  <2>3. QED
    BY <2>1, <2>2
<1>5. CASE ~connOpen
  <2>1. CASE works
    <3>1. chan' = Request(chan, main, Setup) /\ main' = main /\ pub' = pub /\ ~status'
      BY <1>2, <1>5, <2>1, Zenon
    <3>2. Own(chan', main', main', pub', inbox, broker)
      BY <1>1, <1>3, <2>1, <3>1, RequestOwn
    <3>3. /\ \A d \in 1..L : d # main => chan'[d] = chan[d]
          /\ Asks(chan'[main], chan[main], Setup)
      BY <1>1, <3>1, RequestMakes, Zenon
    <3>4. chan'[1].role = "main" /\ chan'[main].st = chan[main].st
      BY <1>1, <1>3, <3>3, Zenon DEF Asks
    <3>5. QED
      BY <1>5, <3>1, <3>2, <3>4, Zenon DEF OkTells
  <2>2. CASE ~works
    <3>1. chan' = chan /\ main' = main /\ pub' = pub /\ ~status'
      BY <1>2, <1>5, <2>2, Zenon
    <3>2. QED
      BY <1>3, <1>5, <3>1, Zenon DEF OkTells
  <2>3. QED
    BY <2>1, <2>2
<1>6. CASE connOpen
  <2> DEFINE R == Renew(chan, pub, "pub", FALSE)
  <2>1. Replaced(R, chan, pub, "pub")
    <3>1. FALSE \in BOOLEAN
      OBVIOUS
    <3>2. QED
      BY <1>1, <3>1, RenewMakes, Words, Zenon
  <2>2. Own(R, main, main, L + 1, inbox, broker)
    <3>1. AnswersOf(inbox, L + 1) = {} /\ ~Consumes(broker, L + 1)
      BY NewSilent
    <3>2. QED
      BY <1>1, <1>3, <3>1, RenewPubOwn
  <2>3. cs = R /\ pub' = L + 1
    BY <1>2, <1>6
  <2> HIDE DEF R, cs
  <2>4. /\ R \in Seq(Chan) /\ Len(R) = L + 1 /\ R[main] = chan[main]
        /\ R[L + 1].st = "connected" /\ R[1].role = "main"
    BY <1>1, <1>3, <1>4, <2>1, Zenon DEF Replaced, Opened, Shutting
  <2>5. L + 1 # 0 /\ L + 1 # main /\ L + 1 \in 1..(L + 1) /\ main \in 1..(L + 1)
        /\ main \in 0..(L + 1) /\ 1 \in 1..(L + 1) /\ L + 1 \in 0..(L + 1)
    BY <1>1
  <2>6. CASE works
    <3>1. chan' = Request(R, main, Setup) /\ main' = main
      BY <1>2, <2>3, <2>6, Zenon
    <3>2. main \in 1..Len(R)
      BY <2>4, <2>5, Zenon
    <3>3. Own(chan', main', main', pub', inbox, broker)
      <4>1. R[main].st # "closed"
        BY <2>4, <2>6, Zenon
      <4>2. Own(Request(R, main, Setup), main, main, L + 1, inbox, broker)
        BY <2>2, <2>4, <3>2, <4>1, RequestOwn
      <4>3. QED
        BY <2>3, <3>1, <4>2, Zenon
    <3>4. /\ \A d \in 1..(L + 1) : d # main => chan'[d] = R[d]
          /\ Asks(chan'[main], R[main], Setup)
      BY <2>4, <3>1, <3>2, RequestMakes, Zenon
    <3>5. chan'[1].role = "main" /\ chan'[main].st = chan[main].st /\ chan'[L + 1].st = "connected"
      BY <2>4, <2>5, <3>4, Zenon DEF Asks
    <3>6. chan[main].st # "closing" => Has(chan'[main].req, "consume")
      BY <1>4, <2>4, <3>4, AskedConsumes, Zenon
    <3>7. QED
      BY <1>6, <2>3, <2>5, <2>6, <3>1, <3>3, <3>5, <3>6, Zenon DEF OkTells
  <2>7. CASE ~works
    <3> DEFINE Q == Renew(R, main, "main", TRUE)
               k == Len(R) + 1
    <3>1. chan' = Request(Q, k, Tail(Setup)) /\ main' = k /\ ~status'
      BY <1>2, <1>6, <2>3, <2>7, Zenon
    <3>2. main \in 0..Len(R) /\ main \in 1..Len(R) /\ L + 1 \in 0..Len(R) /\ L + 1 \in 1..Len(R)
          /\ 1 \in 1..Len(R)
      BY <2>4, <2>5, Zenon
    <3>3. Replaced(Q, R, main, "main")
      <4>1. TRUE \in BOOLEAN
        OBVIOUS
      <4>2. QED
        BY <2>4, <3>2, <4>1, RenewMakes, Words, Zenon
    <3>4. Own(R, main, 0, L + 1, inbox, broker)
      <4>1. main \in broker.closed
        <5>1. Fine(chan[main], main, main, pub, broker)
          BY <1>1, ElementIsFine, Zenon
        <5>2. QED
          BY <2>7, <5>1, Zenon DEF Fine
      <4>2. Idle(R[main], main, AnswersOf(inbox, main), broker)
        BY <1>1, <2>2, <2>4, <2>7, <3>2, <4>1, ClosedIdle, Zenon
      <4>3. QED
        BY <2>2, <2>4, <4>2, OwnIdle
    <3>5. Own(Q, k, k, L + 1, inbox, broker)
      <4>1. AnswersOf(inbox, k) = {} /\ ~Consumes(broker, k)
        <5>1. Len(R) \in {Len(chan), Len(chan) + 1}
          BY <2>4
        <5>2. QED
          BY <5>1, NewSilent
      <4>2. QED
        BY <2>4, <3>2, <3>4, <4>1, RenewMainOwn
    <3>6. k \in Nat /\ L + 1 # k /\ L + 1 # main /\ 1 # k
      BY <1>1, <2>4, <2>5
    <3> HIDE DEF Q
    <3>7. /\ Q \in Seq(Chan) /\ Len(Q) = k /\ Q[k].st = "connected"
          /\ Q[L + 1] = R[L + 1] /\ Q[1].role = "main"
      BY <2>4, <3>2, <3>3, <3>6, Zenon DEF Replaced, Opened, Shutting
    <3> HIDE DEF k
    <3>8. k \in 1..Len(Q) /\ L + 1 \in 1..Len(Q) /\ 1 \in 1..Len(Q) /\ Tail(Setup) \in {Setup, Tail(Setup)}
      BY <1>1, <2>4, <3>6, <3>7 DEF k
    <3>9. Own(chan', main', main', pub', inbox, broker)
      <4>1. Q[k].st # "closed"
        BY <3>7
      <4>2. Own(Request(Q, k, Tail(Setup)), k, k, L + 1, inbox, broker)
        BY <3>5, <3>7, <3>8, <4>1, RequestOwn
      <4>3. QED
        BY <2>3, <3>1, <4>2, Zenon
    <3>10. /\ \A d \in 1..Len(Q) : d # k => chan'[d] = Q[d]
           /\ Asks(chan'[k], Q[k], Tail(Setup))
      BY <3>1, <3>7, <3>8, RequestMakes, Zenon
    <3>11. chan'[1].role = "main" /\ chan'[k].st = "connected" /\ chan'[L + 1].st = "connected"
      BY <2>4, <3>6, <3>7, <3>8, <3>10, Zenon DEF Asks
    <3>12. QED
      BY <2>3, <2>5, <3>1, <3>9, <3>11, Zenon DEF OkTells
  <2>8. QED
    BY <2>6, <2>7
<1>7. QED
  BY <1>1, <1>5, <1>6

LEMMA ErrCbOrders ==
    ASSUME IInv, Orderly, main # 0, Runs(cbs, "error"), ErrCb
    PROVE  /\ \A k \in {0, main'} : Own(chan', main', k, pub', inbox, broker)
           /\ chan'[1].role = "main" /\ chan'[1].st \notin Live /\ ~status'
           /\ chan'[main'].st = "connected" \/ (main' = main /\ chan' = chan)
           /\ connOpen => main' = Len(chan) + 1 /\ chan'[main'].req = <<"open">>
           /\ pub' = pub /\ main' # 0
           /\ pub # 0 => chan'[pub].st = chan[pub].st
<1> DEFINE L == Len(chan)
<1>1. /\ chan \in Seq(Chan) /\ L \in Nat /\ main \in 1..L /\ main \in 0..L /\ pub \in 0..L
      /\ connOpen \in BOOLEAN /\ 1 \in 1..L
  <2>1. chan \in Seq(Chan) /\ L \in Nat /\ main \in 0..L /\ pub \in 0..L /\ connOpen \in BOOLEAN
    BY Parts, ControlNow, Zenon
  <2>2. main \in 1..L /\ 1 \in 1..L
    BY <2>1
  <2>3. QED
    BY <2>1, <2>2
<1>2. Own(chan, main, 0, pub, inbox, broker) /\ chan[1].role = "main" /\ chan[1].st \notin Live
  <2>1. L # 0
    BY <1>1
  <2>2. QED
    BY <2>1, Zenon DEF Orderly, Keeper
<1>3. ~status' /\ pub' = pub
  BY DEF ErrCb
<1>4. CASE connOpen
  <2> DEFINE R == Renew(chan, main, "main", TRUE)
  <2>1. main' = L + 1 /\ chan' = R
    BY <1>4, Zenon DEF ErrCb, CreateMqChannel
  <2>2. Replaced(R, chan, main, "main")
    <3>1. TRUE \in BOOLEAN
      OBVIOUS
    <3>2. QED
      BY <1>1, <3>1, RenewMakes, Words, Zenon
  <2>3. ASSUME NEW k PROVE Own(R, L + 1, k, pub, inbox, broker)
    <3>1. AnswersOf(inbox, L + 1) = {} /\ ~Consumes(broker, L + 1)
      BY NewSilent
    <3>2. QED
      BY <1>1, <1>2, <3>1, RenewMainOwn
  <2> HIDE DEF R
  <2>4. R[L + 1].st = "connected" /\ R[L + 1].req = <<"open">> /\ L + 1 # 0
    BY <1>1, <2>2 DEF Replaced, Opened
  <2>5. R[1].role = "main" /\ R[1].st \notin Live
    <3>1. "closing" \notin Live
      BY DEF Live
    <3>2. R[1] = chan[1] \/ Shutting(R[1], chan[1])
      BY <1>1, <2>2, Zenon DEF Replaced
    <3>3. QED
      BY <1>2, <3>1, <3>2, Zenon DEF Shutting
  <2>6. pub # 0 => R[pub] = chan[pub]
    <3>1. pub # 0 => pub \in 1..L
      BY <1>1
    <3>2. main # pub
      BY <1>1, <1>2, TwoChannels
    <3>3. QED
      BY <2>2, <3>1, <3>2, Zenon DEF Replaced
  <2>8. chan'[main'].req = <<"open">> /\ main' = Len(chan) + 1
    BY <2>1, <2>4
  <2> HIDE DEF L
  <2>7. QED
    BY <1>3, <2>1, <2>3, <2>4, <2>5, <2>6, <2>8, Zenon
<1>5. CASE ~connOpen
  <2>1. main' = main /\ chan' = chan
    BY <1>5, Zenon DEF ErrCb, CreateMqChannel
  <2>2. \A k \in {0, main} : Own(chan, main, k, pub, inbox, broker)
    BY <1>1, <1>2, OwnAny, Zenon
  <2>3. QED
    BY <1>2, <1>3, <1>5, <2>1, <2>2, Zenon
<1>6. QED
  BY <1>1, <1>4, <1>5

-----------------------------------------------------------------------------
(* The order is kept by the worker *)

\* The callbacks that a frame leaves.
LEMMA RunsConcat ==
    ASSUME NEW s \in Seq(Cb), NEW t \in Seq(Cb), NEW cb
    PROVE  Runs(s \o t, cb) => Runs(s, cb) \/ Runs(t, cb)
<1> DEFINE L == Len(s)
           M == Len(t)
           u == s \o t
<1>1. /\ L \in Nat /\ M \in Nat /\ Len(u) = L + M
      /\ \A i \in 1..(L + M) : u[i] = IF i <= L THEN s[i] ELSE t[i - L]
  BY ConcatProperties, LenProperties
<1> HIDE DEF u, L, M
<1>2. ASSUME NEW i \in 1..(L + M)
      PROVE  \/ i \in 1..L /\ u[i] = s[i]
             \/ i - L \in 1..M /\ u[i] = t[i - L]
  <2>1. L \in Nat /\ M \in Nat /\ u[i] = IF i <= L THEN s[i] ELSE t[i - L]
    BY <1>1
  <2>2. QED
    BY <2>1
<1>3. QED
  BY <1>1, <1>2, Zenon DEF Runs, L, M, u

LEMMA RunsOne ==
    ASSUME NEW x, NEW cb
    PROVE  Runs(<<x>>, cb) <=> x.cb = cb
<1>1. Len(<<x>>) = 1 /\ <<x>>[1] = x /\ 1 \in 1..1 /\ \A i \in 1..1 : i = 1
  OBVIOUS
<1>2. QED
  BY <1>1, Zenon DEF Runs

LEMMA RunsNone == \A cb : ~Runs(<<>>, cb)
BY DEF Runs

LEMMA RunsTail ==
    ASSUME NEW s \in Seq(Cb), s # <<>>, NEW cb
    PROVE  /\ Runs(Tail(s), cb) => Runs(s, cb) /\ Len(s) # 1
           /\ Runs(s, cb) => Head(s).cb = cb \/ Runs(Tail(s), cb)
           /\ Head(s).cb = cb => Runs(s, cb)
           /\ Len(s) = 1 /\ Runs(s, cb) => Head(s).cb = cb
<1> DEFINE L == Len(s)
           t == Tail(s)
           M == Len(t)
<1>1. /\ 1 \in 1..L /\ Head(s) = s[1]
      /\ \A i \in 1..M : i + 1 \in 1..L /\ t[i] = s[i + 1]
  BY SequenceTail, Zenon
<1>2. L \in Nat /\ M \in Nat /\ L = M + 1
  BY HeadTailProperties, LenProperties, EmptySeq
<1> HIDE DEF t, L, M
<1>3. /\ \A i \in 1..L : i = 1 \/ (i - 1 \in 1..M /\ (i - 1) + 1 = i)
      /\ L = 1 => \A i \in 1..M : FALSE
  BY <1>2
<1>4. Runs(t, cb) => Runs(s, cb) /\ L # 1
  BY <1>1, <1>3, Zenon DEF Runs, L, M
<1>5. Runs(s, cb) => Head(s).cb = cb \/ Runs(t, cb)
  <2> SUFFICES ASSUME NEW i \in 1..L, s[i].cb = cb PROVE Head(s).cb = cb \/ Runs(t, cb)
    BY Zenon DEF Runs, L
  <2>1. CASE i = 1
    BY <1>1, <2>1
  <2>2. CASE i - 1 \in 1..M /\ (i - 1) + 1 = i
    <3>1. t[i - 1] = s[i]
      BY <1>1, <2>2, Zenon
    <3>2. QED
      BY <2>2, <3>1, Zenon DEF Runs, M
  <2>3. QED
    BY <1>3, <2>1, <2>2, Zenon
<1>6. Head(s).cb = cb => Runs(s, cb)
  BY <1>1, Zenon DEF Runs, L
<1>7. QED
  BY <1>4, <1>5, <1>6, Zenon DEF t, L

\* Only requests of ChannelOkCb have error callbacks.
LEMMA FailingRuns ==
    ASSUME From \in Nat, NEW todo \in Seq(Todos)
    PROVE  Failing(todo) \in Seq(Cb) /\ \A cb : Runs(Failing(todo), cb) => cb = "error" /\ ~Bare(todo)
<1> DEFINE setups == {i \in DOMAIN todo : todo[i] \in SetupOps}
           k == Cardinality(setups)
           x == [cb |-> "error", ch |-> From]
           u == [i \in 1..k |-> x]
<1>1. k \in Nat /\ (setups = {} => k = 0)
  <2>1. IsFiniteSet(1..Len(todo))
    BY FS_Interval, LenProperties
  <2>2. setups \subseteq 1..Len(todo)
    BY LenProperties
  <2>3. IsFiniteSet(setups)
    BY <2>1, <2>2, FS_Subset, Zenon
  <2>4. k \in Nat
    BY <2>3, FS_CardinalityType, Zenon
  <2>5. setups = {} => k = 0
    BY FS_EmptySet
  <2>6. QED
    BY <2>4, <2>5
<1>2. Failing(todo) = u
  BY Zenon DEF Failing
<1>3. x \in Cb /\ x.cb = "error"
  BY DEF Cb, Calls
<1>4. Bare(todo) => setups = {}
  <2>1. DOMAIN todo = 1..Len(todo)
    BY LenProperties
  <2>2. QED
    BY <2>1, Zenon DEF Bare, Has
<1> HIDE DEF k, x, setups
<1>5. u \in Seq(Cb) /\ Len(u) = k /\ \A i \in 1..k : u[i] = x
  BY <1>1, <1>3, IsASeq
<1> HIDE DEF u
<1>6. \A i \in 1..0 : FALSE
  OBVIOUS
<1>7. QED
  BY <1>1, <1>2, <1>3, <1>4, <1>5, <1>6, Zenon DEF Runs

\* The Deferreds behind the oldest.
LEMMA RestHas ==
    ASSUME NEW todo \in Seq(Todos)
    PROVE  Rest(todo) \in Seq(Todos) /\ \A op : Has(Rest(todo), op) => Has(todo, op)
<1> DEFINE L == Len(todo)
           u == SubSeq(todo, 2, L)
<1>1. L \in Nat /\ Rest(todo) = u /\ todo = [i \in 1..L |-> todo[i]]
  BY LenProperties DEF Rest
<1>2. Rest(todo) \in Seq(Todos)
  BY RestOf
<1>3. Len(u) = (IF 2 <= L THEN L - 1 ELSE 0) /\ \A i \in 1..Len(u) : u[i] = todo[i + 1]
  BY <1>1
<1> HIDE DEF u, L
<1>4. \A i \in 1..Len(u) : i + 1 \in 1..L
  BY <1>1, <1>3
<1>5. QED
  BY <1>1, <1>2, <1>3, <1>4, Zenon DEF Has, L

\* A frame is parsed.
LEMMA OwnTail ==
    ASSUME NEW cs, NEW m, NEW k, NEW p, NEW s \in Seq(Frame), NEW b, Own(cs, m, k, p, s, b), s # <<>>
    PROVE  Own(cs, m, k, p, Tail(s), b)
<1> SUFFICES ASSUME NEW c \in 1..Len(cs) PROVE Owned(cs[c], c, m, k, p, AnswersOf(Tail(s), c), b)
  BY Zenon DEF Own
<1>1. Owned(cs[c], c, m, k, p, AnswersOf(s, c), b)
  BY Zenon DEF Own
<1>2. AnswersOf(Tail(s), c) \subseteq AnswersOf(s, c)
  BY AnswersTail
<1>3. Binds(cs[c].req, c, b)
  BY <1>1, Zenon DEF Owned
<1>4. QED
  BY <1>1, <1>2, <1>3, OwnedStill, Zenon

LEMMA OrderParts ==
    ASSUME IInv, Orderly
    PROVE  /\ Own(chan, main, Keeper, pub, inbox, broker) /\ LastWords(inbox)
           /\ inbox \in Seq(Frame) /\ cbs \in Seq(Cb)
           /\ Len(chan) # 0 => 1 \in 1..Len(chan) /\ chan[1].role = "main"
           /\ ~Runs(cbs, "error") => Keeper = main
           /\ Runs(cbs, "error") => Keeper = 0 /\ chan[1].st \notin Live
<1>1. inbox \in Seq(Frame) /\ cbs \in Seq(Cb)
  BY Parts, Zenon DEF Frames, Callbacks
<1>2. Len(chan) # 0 => 1 \in 1..Len(chan)
  BY Parts
<1>3. QED
  BY <1>1, <1>2, Zenon DEF Orderly, Keeper

\* The first channel is for consuming, so it is not used once it was replaced.
LEMMA FirstGone ==
    ASSUME IInv, Orderly, Len(chan) # 0, main # 1
    PROVE  chan[1].st \notin Live
<1>1. 1 \in 1..Len(chan) /\ chan[1].role = "main" /\ Own(chan, main, Keeper, pub, inbox, broker)
  BY OrderParts, Zenon
<1>2. 1 # pub
  <2>1. 1 \in 1..Len(chan) => chan[1].role = "main"
    BY <1>1
  <2>2. pub \in 1..Len(chan) => chan[pub].role = "pub"
    BY <1>1, TwoChannels
  <2>3. QED
    BY <1>1, <2>2
<1>3. Fine(chan[1], 1, main, pub, broker)
  BY <1>1, Parts, ElementIsFine, Zenon
<1>4. QED
  BY <1>2, <1>3, Zenon DEF Fine, Live

LEMMA OpenOkOrders ==
    ASSUME IInv, Orderly, OpenOk
    PROVE  Orderly'
<1> DEFINE x == [chan[From] EXCEPT !.st = IF @ = "connected" THEN "ready" ELSE @]
<1>1. /\ Parses("open-ok")
      /\ chan' = [chan EXCEPT ![From].st = IF @ = "connected" THEN "ready" ELSE @]
      /\ cbs' = <<[cb |-> "ready", ch |-> From]>> /\ inbox' = Tail(inbox)
      /\ main' = main /\ pub' = pub /\ broker' = broker
  BY DEF OpenOk
<1>2. /\ From \in 1..Len(chan) /\ Len(chan) # 0 /\ inbox # <<>> /\ cbs = <<>>
      /\ chan \in Seq(Chan) /\ chan[From] \in Chan
  BY <1>1, FrameParsed, Parts, ElementIsFine, Zenon DEF Parses
<1>3. /\ x \in Chan /\ x.role = chan[From].role /\ x.req = chan[From].req /\ x.todo = chan[From].todo
      /\ x.st \in Live => chan[From].st \in Live
      /\ x.st = "closed" => chan[From].st = "closed"
  BY <1>2 DEF Chan, Live, States
<1>4. chan' = [chan EXCEPT ![From] = x]
  BY <1>1
<1> HIDE DEF x
<1>5. /\ Len(chan') = Len(chan) /\ chan'[From] = x
      /\ \A d \in 1..Len(chan) : d # From => chan'[d] = chan[d]
  BY <1>2, <1>3, <1>4, LeftBy
<1>6. ~Runs(cbs, "error") /\ ~Runs(cbs', "error") /\ Len(cbs') = 1
  BY <1>1, <1>2, RunsNone, RunsOne
<1>7. Own(chan, main, main, pub, inbox', broker) /\ LastWords(inbox')
  <2>1. Own(chan, main, main, pub, inbox, broker) /\ LastWords(inbox) /\ inbox \in Seq(Frame)
    BY <1>6, OrderParts, Zenon
  <2>2. Own(chan, main, main, pub, inbox', broker)
    BY <1>1, <1>2, <2>1, OwnTail, Zenon
  <2>3. LastWords(inbox')
    BY <1>1, <1>2, <2>1, AnswersTail, Zenon
  <2>4. QED
    BY <2>2, <2>3
<1>8. Owned(x, From, main, main, pub, AnswersOf(inbox', From), broker)
  <2>1. Owned(chan[From], From, main, main, pub, AnswersOf(inbox', From), broker)
    BY <1>2, <1>7, Zenon DEF Own
  <2>2. Binds(chan[From].req, From, broker)
        /\ (chan[From].st = "closed" => AnswersOf(inbox', From) = {})
    BY <2>1, Zenon DEF Owned
  <2>3. QED
    BY <1>3, <2>1, <2>2, OwnedFrom, Zenon
<1>9. Own(chan', main, main, pub, inbox', broker)
  BY <1>2, <1>5, <1>7, <1>8, OwnWith, Zenon
<1>10. chan'[1].role = "main"
  BY <1>2, <1>3, <1>5, OrderParts, Zenon
<1>11. QED
  BY <1>1, <1>6, <1>7, <1>9, <1>10, Zenon DEF Orderly, Keeper

\* The channel that sent the frame is closed, and what waited for it fails.
LEMMA FailOrders ==
    ASSUME IInv, Orderly, NEW ans \in {"refused", "closed"}, Parses(ans),
           chan' = [chan EXCEPT ![From].st = "closed", ![From].todo = <<>>],
           inbox' = Tail(inbox), main' = main, pub' = pub, broker' = broker,
           ~Runs(cbs', "ready"),
           Runs(cbs', "error") => ~Bare(chan[From].todo) \/ (ans = "refused" /\ chan[From].role = "main")
    PROVE  Orderly' /\ (Runs(cbs', "error") => From = main)
<1> DEFINE x == [chan[From] EXCEPT !.st = "closed", !.todo = <<>>]
<1>1. /\ From \in 1..Len(chan) /\ Len(chan) # 0 /\ inbox # <<>> /\ cbs = <<>>
      /\ From \in broker.closed
      /\ chan \in Seq(Chan) /\ chan[From] \in Chan /\ Head(inbox).ans = ans
  BY FrameParsed, Parts, ElementIsFine, Zenon DEF Parses, Sent, From
<1>2. /\ x \in Chan /\ x.role = chan[From].role /\ x.req = chan[From].req /\ x.todo = <<>>
      /\ x.st = "closed"
  <2>1. <<>> \in Seq(Todos)
    OBVIOUS
  <2>2. QED
    BY <1>1, <2>1 DEF Chan, States
<1>3. chan' = [chan EXCEPT ![From] = x]
  BY <1>1, Parts DEF Chan
<1> HIDE DEF x
<1>4. /\ Len(chan') = Len(chan) /\ chan'[From] = x
      /\ \A d \in 1..Len(chan) : d # From => chan'[d] = chan[d]
  <2>1. /\ [chan EXCEPT ![From] = x] \in Seq(Chan) /\ Len([chan EXCEPT ![From] = x]) = Len(chan)
        /\ \A d \in 1..Len(chan) : d # From => [chan EXCEPT ![From] = x][d] = chan[d]
        /\ [chan EXCEPT ![From] = x][From] = x
    BY <1>1, <1>2, LeftBy
  <2>2. QED
    BY <1>3, <2>1
<1>5. ~Runs(cbs, "error")
  BY <1>1, RunsNone
<1>6. /\ Own(chan, main, main, pub, inbox, broker) /\ LastWords(inbox)
      /\ Own(chan, main, main, pub, inbox', broker) /\ LastWords(inbox')
      /\ AnswersOf(inbox', From) = {} /\ ans \in AnswersOf(inbox, From)
  <2>1. Own(chan, main, main, pub, inbox, broker) /\ LastWords(inbox) /\ inbox \in Seq(Frame)
    BY <1>5, OrderParts, Zenon
  <2>2. Own(chan, main, main, pub, inbox', broker)
    BY <1>1, <2>1, OwnTail, Zenon
  <2>3. LastWords(inbox') /\ AnswersOf(inbox', From) = {} /\ ans \in AnswersOf(inbox, From)
    BY <1>1, <2>1, AnswersTail, Zenon DEF From
  <2>4. QED
    BY <2>1, <2>2, <2>3
<1>7. Bare(x.todo) /\ x.st \notin Live
  BY <1>2, HasEmpty DEF Bare, Live
<1>8. Owned(x, From, main, main, pub, {}, broker)
  <2>1. Owned(chan[From], From, main, main, pub, {}, broker)
    BY <1>1, <1>6, Zenon DEF Own
  <2>2. Binds(chan[From].req, From, broker)
    BY <2>1, Zenon DEF Owned
  <2>3. \A op \in SetupOps : ~Has(x.todo, op)
    BY <1>7, Zenon DEF Bare
  <2>4. QED
    BY <1>2, <1>7, <2>1, <2>2, <2>3, OwnedFrom, Zenon
<1>9. Own(chan', main, main, pub, inbox', broker)
  <2> DEFINE t == chan'
  <2>1. /\ Owned(t[From], From, main, main, pub, AnswersOf(inbox', From), broker)
        /\ Len(t) = Len(chan) /\ \A d \in 1..Len(chan) : d # From => t[d] = chan[d]
    BY <1>4, <1>6, <1>8, Zenon
  <2>2. From \in 1..Len(chan) /\ chan \in Seq(Chan) /\ Own(chan, main, main, pub, inbox', broker)
    BY <1>1, <1>6
  <2> HIDE DEF t
  <2>3. Own(t, main, main, pub, inbox', broker)
    BY <2>1, <2>2, OwnWith
  <2>4. QED
    BY <2>3 DEF t
<1>10. Runs(cbs', "error") => From = main
  <2>1. Owned(chan[From], From, main, main, pub, AnswersOf(inbox, From), broker)
    BY <1>1, <1>6, Zenon DEF Own
  <2>2. QED
    BY <1>6, <2>1, Zenon DEF Owned, Idle
<1>11. chan'[1].role = "main"
  BY <1>1, <1>2, <1>4, OrderParts, Zenon
<1>12. CASE Runs(cbs', "error")
  <2>1. From = main /\ main \in 1..Len(chan)
    BY <1>1, <1>10, <1>12, Zenon
  <2>2. Idle(x, main, {}, broker)
    <3>1. Serving(broker, Len(chan))
      BY Parts, Zenon
    <3>2. ~Consumes(broker, main)
      BY <1>1, <2>1, <3>1, Zenon DEF Serving, Consumes
    <3>3. QED
      BY <1>1, <1>7, <2>1, <3>2 DEF Idle
  <2>3. Own(chan', main, 0, pub, inbox', broker)
    <3>1. Idle(chan'[main], main, AnswersOf(inbox', main), broker)
      BY <1>4, <1>6, <2>1, <2>2, Zenon
    <3>2. \A d \in 1..Len(chan') : d # main => Idle(chan'[d], d, AnswersOf(inbox', d), broker)
      BY <1>9, Zenon DEF Own, Owned
    <3>3. QED
      BY <1>9, <3>1, <3>2, Zenon DEF Own, Owned
  <2>4. chan'[1].st \notin Live
    <3>1. CASE main = 1
      BY <1>2, <1>4, <1>7, <2>1, <3>1, Zenon
    <3>2. CASE main # 1
      <4>1. chan[1].st \notin Live /\ 1 \in 1..Len(chan)
        BY <1>1, <3>2, FirstGone, OrderParts, Zenon
      <4>2. QED
        BY <1>4, <2>1, <3>2, <4>1, Zenon
    <3>3. QED
      BY <3>1, <3>2
  <2>5. QED
    BY <1>6, <1>10, <1>11, <1>12, <2>3, <2>4, Zenon DEF Orderly, Keeper
<1>13. CASE ~Runs(cbs', "error")
  BY <1>6, <1>9, <1>11, <1>13, Zenon DEF Orderly, Keeper
<1>14. QED
  BY <1>12, <1>13

LEMMA RefusedOrders ==
    ASSUME IInv, Orderly, Refused
    PROVE  Orderly'
<1> DEFINE cb == IF chan[From].role = "main" THEN "error" ELSE "puberror"
           todo == chan[From].todo
           last == [cb |-> cb, ch |-> From]
<1>1. /\ Parses("refused")
      /\ chan' = [chan EXCEPT ![From].st = "closed", ![From].todo = <<>>]
      /\ cbs' = Failing(todo) \o <<last>> /\ inbox' = Tail(inbox)
      /\ main' = main /\ pub' = pub /\ broker' = broker
  BY DEF Refused
<1>2. From \in 1..Len(chan) /\ From \in Nat /\ todo \in Seq(Todos)
  <2>1. From \in 1..Len(chan)
    BY <1>1, FrameParsed, Zenon
  <2>2. todo \in Seq(Todos)
    BY <2>1, Parts, ElementIsFine, ChanFields, Zenon
  <2>3. QED
    BY <2>1, <2>2
<1> HIDE DEF todo
<1>3. Failing(todo) \in Seq(Cb) /\ \A c : Runs(Failing(todo), c) => c = "error" /\ ~Bare(todo)
  BY <1>2, FailingRuns
<1>4. last \in Cb /\ last.cb = cb
  BY <1>2 DEF Cb, Calls
<1> HIDE DEF last
<1>5. \A c : Runs(cbs', c) => (c = "error" /\ ~Bare(todo)) \/ c = cb
  <2>1. <<last>> \in Seq(Cb)
    BY <1>4
  <2>2. \A c : Runs(<<last>>, c) <=> last.cb = c
    BY RunsOne
  <2>3. \A c : Runs(cbs', c) => Runs(Failing(todo), c) \/ Runs(<<last>>, c)
    BY <1>1, <1>3, <2>1, RunsConcat
  <2>4. QED
    BY <1>3, <1>4, <2>2, <2>3, Zenon
<1>6. cb # "ready" /\ (cb = "error" => chan[From].role = "main")
  OBVIOUS
<1> HIDE DEF cb
<1>7. ~Runs(cbs', "ready")
      /\ (Runs(cbs', "error") => ~Bare(chan[From].todo) \/ chan[From].role = "main")
  <2>1. "ready" # "error"
    OBVIOUS
  <2>2. QED
    BY <1>5, <1>6, <2>1, Zenon DEF todo
<1>8. QED
  BY <1>1, <1>7, FailOrders, Zenon

LEMMA ClosedOrders ==
    ASSUME IInv, Orderly, Closed
    PROVE  Orderly'
<1> DEFINE todo == chan[From].todo
<1>1. /\ Parses("closed")
      /\ chan' = [chan EXCEPT ![From].st = "closed", ![From].todo = <<>>]
      /\ cbs' = Failing(Rest(todo)) /\ inbox' = Tail(inbox)
      /\ main' = main /\ pub' = pub /\ broker' = broker
  BY DEF Closed
<1>2. From \in Nat /\ todo \in Seq(Todos)
  <2>1. From \in 1..Len(chan)
    BY <1>1, FrameParsed, Zenon
  <2>2. todo \in Seq(Todos)
    BY <2>1, Parts, ElementIsFine, ChanFields, Zenon
  <2>3. QED
    BY <2>1, <2>2
<1>3. Rest(todo) \in Seq(Todos) /\ (Bare(todo) => Bare(Rest(todo)))
  BY <1>2, RestHas, Zenon DEF Bare
<1>4. \A c : Runs(cbs', c) => c = "error" /\ ~Bare(todo)
  <2>1. \A c : Runs(Failing(Rest(todo)), c) => c = "error" /\ ~Bare(Rest(todo))
    BY <1>2, <1>3, FailingRuns
  <2>2. QED
    BY <1>1, <1>3, <2>1, Zenon
<1>5. ~Runs(cbs', "ready") /\ (Runs(cbs', "error") => ~Bare(chan[From].todo))
  <2>1. "ready" # "error"
    OBVIOUS
  <2>2. QED
    BY <1>4, <2>1, Zenon
<1>6. QED
  BY <1>1, <1>5, FailOrders, Zenon

\* A delivery is for m_channel, and nothing of it is undone by now.
LEMMA RecvedOnMain ==
    ASSUME IInv, Orderly, Parses("deliver")
    PROVE  From = main
<1>1. /\ From \in 1..Len(chan) /\ inbox # <<>> /\ cbs = <<>> /\ Head(inbox).ans = "deliver"
  BY FrameParsed, Zenon DEF Parses
<1>2. Own(chan, main, main, pub, inbox, broker) /\ inbox \in Seq(Frame)
  BY <1>1, RunsNone, OrderParts, Zenon
<1>3. "deliver" \in AnswersOf(inbox, From)
  <2>1. Head(inbox).ans \in AnswersOf(inbox, From)
    BY <1>1, <1>2, AnswersTail, Zenon DEF From
  <2>2. QED
    BY <1>1, <2>1
<1>4. QED
  BY <1>1, <1>2, <1>3, Zenon DEF Own, Owned, Idle

LEMMA ConsumeRecvedOrders ==
    ASSUME IInv, Orderly, ConsumeRecvedCb
    PROVE  Orderly'
<1>1. /\ Parses("deliver") /\ chan' = Send(chan, main, "ack") /\ inbox' = Tail(inbox)
      /\ cbs' = cbs /\ main' = main /\ pub' = pub /\ broker' = broker
  BY DEF ConsumeRecvedCb
<1>2. /\ From = main /\ main \in 1..Len(chan) /\ Len(chan) # 0 /\ inbox # <<>> /\ cbs = <<>>
      /\ chan \in Seq(Chan)
  BY <1>1, RecvedOnMain, FrameParsed, Parts, Zenon DEF Parses
<1>3. ~Runs(cbs, "error") /\ ~Runs(cbs, "ready")
  BY <1>2, RunsNone
<1>4. Own(chan, main, main, pub, inbox', broker) /\ LastWords(inbox')
  <2>1. Own(chan, main, main, pub, inbox, broker) /\ LastWords(inbox) /\ inbox \in Seq(Frame)
    BY <1>3, OrderParts, Zenon
  <2>2. Own(chan, main, main, pub, inbox', broker)
    BY <1>1, <1>2, <2>1, OwnTail, Zenon
  <2>3. LastWords(inbox')
    BY <1>1, <1>2, <2>1, AnswersTail, Zenon
  <2>4. QED
    BY <2>2, <2>3
<1>5. Own(chan', main, main, pub, inbox', broker)
  BY <1>1, <1>2, <1>4, SendOwn, Zenon
<1>6. chan'[1].role = "main"
  <2>1. /\ \A d \in 1..Len(chan) : d # main => chan'[d] = chan[d]
        /\ Sends(chan'[main], chan[main], "ack")
    BY <1>1, <1>2, Words, SendMakes, Zenon
  <2>2. 1 \in 1..Len(chan) /\ chan[1].role = "main"
    BY <1>2, OrderParts, Zenon
  <2>3. QED
    BY <2>1, <2>2, Zenon DEF Sends
<1>7. QED
  BY <1>1, <1>3, <1>4, <1>5, <1>6, Zenon DEF Orderly, Keeper

\* What a callback leaves of the order, when it runs before the others of its frame.
LEMMA CallbackOrders ==
    ASSUME IInv, Orderly, Callback
    PROVE  Orderly'
<1>1. /\ cbs # <<>> /\ cbs' = Tail(cbs) /\ inbox' = inbox /\ broker' = broker
      /\ CASE Head(cbs).cb = "ready" ->
                IF chan[Head(cbs).ch].ready THEN ChannelOkCb
                ELSE UNCHANGED <<chan, main, pub, status>>
           [] Head(cbs).cb = "error" -> ErrCb
           [] Head(cbs).cb = "puberror" -> PubErrCb
  BY Zenon DEF Callback
<1>2. Head(cbs) \in Cb /\ Head(cbs).ch \in 1..Len(chan)
  BY <1>1, Parts, CallbacksTail, Zenon
<1>3. Len(chan) # 0 /\ main # 0 /\ Head(cbs).cb \in Calls
  BY <1>2, Parts, Started DEF Cb
<1>4. /\ Own(chan, main, Keeper, pub, inbox, broker) /\ LastWords(inbox)
      /\ cbs \in Seq(Cb) /\ 1 \in 1..Len(chan) /\ chan[1].role = "main"
      /\ ~Runs(cbs, "error") => Keeper = main
      /\ Runs(cbs, "error") => Keeper = 0 /\ chan[1].st \notin Live
      /\ Runs(cbs, "ready") => Len(cbs) = 1
  BY <1>3, OrderParts, Zenon DEF Orderly
<1>5. \A cb : /\ Runs(cbs', cb) => Runs(cbs, cb) /\ Len(cbs) # 1
              /\ Runs(cbs, cb) => Head(cbs).cb = cb \/ Runs(cbs', cb)
              /\ Head(cbs).cb = cb => Runs(cbs, cb)
              /\ Len(cbs) = 1 /\ Runs(cbs, cb) => Head(cbs).cb = cb
  <2>1. \A cb : /\ Runs(Tail(cbs), cb) => Runs(cbs, cb) /\ Len(cbs) # 1
                /\ Runs(cbs, cb) => Head(cbs).cb = cb \/ Runs(Tail(cbs), cb)
                /\ Head(cbs).cb = cb => Runs(cbs, cb)
                /\ Len(cbs) = 1 /\ Runs(cbs, cb) => Head(cbs).cb = cb
    BY <1>1, <1>4, RunsTail
  <2>2. QED
    BY <1>1, <2>1, Zenon
<1>6. ~Runs(cbs', "ready")
  BY <1>4, <1>5, Zenon
<1>7. CASE Head(cbs).cb = "ready"
  <2>1. ~Runs(cbs, "error") /\ ~Runs(cbs', "error")
    <3>1. "ready" # "error"
      OBVIOUS
    <3>2. QED
      BY <1>4, <1>5, <1>7, <3>1, Zenon
  <2>2. IF chan[Head(cbs).ch].ready THEN ChannelOkCb ELSE UNCHANGED <<chan, main, pub, status>>
    BY <1>1, <1>7
  <2>3. CASE chan[Head(cbs).ch].ready
    <3>1. Own(chan', main', main', pub', inbox, broker) /\ chan'[1].role = "main"
      BY <1>3, <2>1, <2>2, <2>3, ChannelOkCbOrders
    <3>2. QED
      BY <1>1, <1>4, <1>6, <2>1, <3>1, Zenon DEF Orderly, Keeper
  <2>4. CASE ~chan[Head(cbs).ch].ready
    <3>1. chan' = chan /\ main' = main /\ pub' = pub
      BY <2>2, <2>4
    <3>2. QED
      BY <1>1, <1>4, <1>6, <2>1, <3>1, Zenon DEF Orderly, Keeper
  <2>5. QED
    BY <2>3, <2>4
<1>8. CASE Head(cbs).cb = "error"
  <2>1. ErrCb
    BY <1>1, <1>8
  <2>2. Runs(cbs, "error")
    BY <1>5, <1>8, Zenon
  <2>3. /\ Own(chan', main', 0, pub', inbox, broker) /\ Own(chan', main', main', pub', inbox, broker)
        /\ chan'[1].role = "main" /\ chan'[1].st \notin Live
    <3>1. /\ \A k \in {0, main'} : Own(chan', main', k, pub', inbox, broker)
          /\ chan'[1].role = "main" /\ chan'[1].st \notin Live
      BY <1>3, <2>1, <2>2, ErrCbOrders, Zenon
    <3>2. QED
      BY <3>1, Zenon
  <2>4. QED
    BY <1>1, <1>4, <1>6, <2>3, Zenon DEF Orderly, Keeper
<1>9. CASE Head(cbs).cb = "puberror"
  <2>1. chan' = chan /\ main' = main /\ pub' = pub
    BY <1>1, <1>9 DEF PubErrCb
  <2>2. Runs(cbs, "error") <=> Runs(cbs', "error")
    <3>1. "puberror" # "error"
      OBVIOUS
    <3>2. QED
      BY <1>5, <1>9, <3>1, Zenon
  <2>3. QED
    BY <1>1, <1>4, <1>6, <2>1, <2>2, Zenon DEF Orderly, Keeper
<1>10. QED
  BY <1>3, <1>7, <1>8, <1>9 DEF Calls

-----------------------------------------------------------------------------
(* The order is kept by the user's thread *)

\* It changes nothing of what is on its way to or from the broker.
LEMMA UserOrders ==
    ASSUME IInv, Orderly, Len(chan) # 0, main' = main, pub' = pub, cbs' = cbs, inbox' = inbox,
           broker' = broker, Own(chan', main, Keeper, pub, inbox, broker),
           chan'[1].role = chan[1].role, chan'[1].st \in Live => chan[1].st \in Live
    PROVE  Orderly'
BY Zenon DEF Orderly, Keeper

LEMMA SameOrders ==
    ASSUME Orderly, chan' = chan, main' = main, pub' = pub, cbs' = cbs, inbox' = inbox,
           broker' = broker
    PROVE  Orderly'
BY Zenon DEF Orderly, Keeper

LEMMA CreatesOrders ==
    ASSUME IInv, Orderly, StartCreatesChannel
    PROVE  Orderly'
<1>1. /\ pc = "login" /\ main' = Len(chan) + 1 /\ chan' = Open(chan, "main", FALSE)
      /\ cbs' = cbs /\ inbox' = inbox /\ broker' = broker /\ pub' = pub
  BY DEF StartCreatesChannel, UserOnly
<1>2. Len(chan) = 0 /\ chan \in Seq(Chan) /\ pub \in 0..0 /\ Callbacks(cbs, 0) /\ main' = 1
  BY <1>1, ControlNow, Parts
<1>3. \A cb : ~Runs(cbs, cb)
  <2>1. \A c : c \notin 1..0
    OBVIOUS
  <2>2. QED
    BY <1>2, <2>1, Zenon DEF Callbacks, Runs
<1>4. AnswersOf(inbox, 1) = {} /\ ~Consumes(broker, 1)
  <2>1. Len(chan) + 1 = 1
    BY <1>2
  <2>2. AnswersOf(inbox, Len(chan) + 1) = {} /\ ~Consumes(broker, Len(chan) + 1)
    BY NewSilent
  <2>3. QED
    BY <2>1, <2>2, Zenon
<1>5. Len(chan') = 1 /\ Opened(chan'[1], "main")
  <2>1. FALSE \in BOOLEAN /\ "main" \in Roles
    BY Words
  <2>2. Len(chan') = Len(chan) + 1 /\ Opened(chan'[Len(chan) + 1], "main")
    BY <1>1, <1>2, <2>1, OpenMakes, Zenon
  <2>3. QED
    BY <1>2, <2>2
<1>6. Owned(chan'[1], 1, 1, 1, pub, {}, broker)
  <2>1. 1 # pub
    BY <1>2
  <2>2. QED
    BY <1>4, <1>5, <2>1, OpenOwned, Zenon
<1>7. Own(chan', 1, 1, pub, inbox, broker)
  <2>1. \A d \in 1..1 : d = 1
    OBVIOUS
  <2>2. QED
    BY <1>4, <1>5, <1>6, <2>1, Zenon DEF Own
<1>8. LastWords(inbox) /\ chan'[1].role = "main"
  BY <1>5, Zenon DEF Orderly, Opened
<1>9. QED
  BY <1>1, <1>2, <1>3, <1>7, <1>8, Zenon DEF Orderly, Keeper

LEMMA StoresOrders ==
    ASSUME IInv, Orderly, StoresCallback \/ StoresLate
    PROVE  Orderly'
<1> DEFINE x == [chan[1] EXCEPT !.ready = TRUE]
<1>1. /\ pc \in {"registering", "storing"} /\ chan' = [chan EXCEPT ![1] = x]
      /\ cbs' = cbs /\ inbox' = inbox /\ broker' = broker /\ main' = main /\ pub' = pub
  BY DEF StoresCallback, StoresLate, UserOnly
<1>2. main # 0 /\ 1 \in 1..Len(chan) /\ Len(chan) # 0 /\ chan \in Seq(Chan) /\ chan[1] \in Chan
  <2>1. main # 0 /\ main \in 0..Len(chan) /\ Len(chan) \in Nat
    BY <1>1, ControlNow, Parts
  <2>2. 1 \in 1..Len(chan)
    BY <2>1
  <2>3. QED
    BY <2>1, <2>2, Parts, ElementIsFine
<1>3. /\ x \in Chan /\ x.role = chan[1].role /\ x.st = chan[1].st
      /\ x.req = chan[1].req /\ x.todo = chan[1].todo
  BY <1>2 DEF Chan
<1> HIDE DEF x
<1>4. /\ Len(chan') = Len(chan) /\ chan'[1] = x
      /\ \A d \in 1..Len(chan) : d # 1 => chan'[d] = chan[d]
  <2>1. /\ [chan EXCEPT ![1] = x] \in Seq(Chan) /\ Len([chan EXCEPT ![1] = x]) = Len(chan)
        /\ \A d \in 1..Len(chan) : d # 1 => [chan EXCEPT ![1] = x][d] = chan[d]
        /\ [chan EXCEPT ![1] = x][1] = x
    BY <1>2, <1>3, LeftBy
  <2>2. QED
    BY <1>1, <2>1
<1>5. Own(chan, main, Keeper, pub, inbox, broker)
  BY OrderParts, Zenon
<1>6. Owned(x, 1, main, Keeper, pub, AnswersOf(inbox, 1), broker)
  <2>1. Owned(chan[1], 1, main, Keeper, pub, AnswersOf(inbox, 1), broker)
    BY <1>2, <1>5, Zenon DEF Own
  <2>2. Binds(chan[1].req, 1, broker) /\ (chan[1].st = "closed" => AnswersOf(inbox, 1) = {})
    BY <2>1, Zenon DEF Owned
  <2>3. QED
    BY <1>3, <2>1, <2>2, OwnedFrom, Zenon
<1>7. Own(chan', main, Keeper, pub, inbox, broker)
  BY <1>2, <1>4, <1>5, <1>6, OwnWith, Zenon
<1>8. QED
  BY <1>1, <1>2, <1>3, <1>4, <1>7, UserOrders, Zenon

LEMMA ChecksOrders ==
    ASSUME IInv, Orderly, ChecksReady \/ ChecksEarly
    PROVE  Orderly'
<1>1. /\ pc \in {"registering", "checking"} /\ cbs' = cbs /\ inbox' = inbox /\ broker' = broker
  BY DEF ChecksReady, ChecksEarly, UserOnly
<1>2. IF chan[1].st = "ready" THEN ChannelOkCb ELSE UNCHANGED <<chan, main, pub, status>>
  BY Zenon DEF ChecksReady, ChecksEarly
<1>3. main # 0
  BY <1>1, ControlNow
<1>4. CASE chan[1].st = "ready"
  <2>1. ~Runs(cbs, "error")
    BY <1>4 DEF Orderly, Live
  <2>2. Own(chan', main', main', pub', inbox, broker) /\ chan'[1].role = "main"
    BY <1>2, <1>3, <1>4, <2>1, ChannelOkCbOrders
  <2>3. LastWords(inbox) /\ (Runs(cbs, "ready") => Len(cbs) = 1)
    BY DEF Orderly
  <2>4. QED
    BY <1>1, <2>1, <2>2, <2>3, Zenon DEF Orderly, Keeper
<1>5. CASE chan[1].st # "ready"
  <2>1. chan' = chan /\ main' = main /\ pub' = pub
    BY <1>2, <1>5
  <2>2. QED
    BY <1>1, <2>1, SameOrders, Zenon
<1>6. QED
  BY <1>4, <1>5

\* PublishMsg, CloseMqChannel: one channel, which the pointers hold, changes.
LEMMA HeldOrders ==
    ASSUME IInv, Orderly, NEW c \in {main, pub}, main # 0,
           \/ chan' = chan
           \/ chan' = Close(chan, c)
           \/ c # 0 /\ c = pub /\ chan' = Send(chan, c, "publish"),
           main' = main, pub' = pub, cbs' = cbs, inbox' = inbox, broker' = broker
    PROVE  Orderly'
<1>1. /\ chan \in Seq(Chan) /\ c \in 0..Len(chan) /\ Len(chan) # 0 /\ 1 \in 1..Len(chan)
      /\ Own(chan, main, Keeper, pub, inbox, broker)
  <2>1. chan \in Seq(Chan) /\ c \in 0..Len(chan) /\ Len(chan) # 0
    BY Parts
  <2>2. QED
    BY <2>1, OrderParts, Zenon
<1>2. CASE chan' = chan
  BY <1>2, SameOrders, Zenon
<1>3. CASE chan' = Close(chan, c)
  <2>1. Own(chan', main, Keeper, pub, inbox, broker)
    <3>1. Own(Close(chan, c), main, Keeper, pub, inbox, broker)
      BY <1>1, CloseOwn
    <3>2. QED
      BY <1>3, <3>1, Zenon
  <2>2. chan'[1] = chan[1] \/ Shutting(chan'[1], chan[1])
    BY <1>1, <1>3, CloseMakes, Zenon
  <2>3. "closing" \notin Live
    BY DEF Live
  <2>4. chan'[1].role = chan[1].role /\ (chan'[1].st \in Live => chan[1].st \in Live)
    BY <2>2, <2>3, Zenon DEF Shutting
  <2>5. QED
    BY <1>1, <2>1, <2>4, UserOrders, Zenon
<1>4. CASE c # 0 /\ c = pub /\ chan' = Send(chan, c, "publish")
  <2>1. c \in 1..Len(chan)
    BY <1>1, <1>4
  <2>2. chan[c].role = "pub"
    BY <1>1, <1>4, <2>1, TwoChannels
  <2>3. Own(chan', main, Keeper, pub, inbox, broker)
    <3>1. Own(Send(chan, c, "publish"), main, Keeper, pub, inbox, broker)
      BY <1>1, <2>1, <2>2, SendOwn
    <3>2. QED
      BY <1>4, <3>1, Zenon
  <2>4. /\ \A d \in 1..Len(chan) : d # c => chan'[d] = chan[d]
        /\ Sends(chan'[c], chan[c], "publish")
    BY <1>1, <1>4, <2>1, Words, SendMakes, Zenon
  <2>5. chan'[1].role = chan[1].role /\ chan'[1].st = chan[1].st
    BY <1>1, <2>4, Zenon DEF Sends
  <2>6. QED
    BY <1>1, <2>3, <2>5, UserOrders, Zenon
<1>5. QED
  BY <1>2, <1>3, <1>4

LEMMA PublishOrders ==
    ASSUME IInv, Orderly, PublishMsg
    PROVE  Orderly'
<1>1. /\ pc = "started"
      /\ IF pub = 0 THEN chan' = chan ELSE chan' = Send(chan, pub, "publish")
      /\ cbs' = cbs /\ inbox' = inbox /\ broker' = broker /\ main' = main /\ pub' = pub
  BY DEF PublishMsg, UserOnly
<1>2. main # 0 /\ pub \in {main, pub}
  BY <1>1, ControlNow
<1>3. chan' = chan \/ (pub # 0 /\ chan' = Send(chan, pub, "publish"))
  BY <1>1
<1>4. QED
  BY <1>1, <1>2, <1>3, HeldOrders, Zenon

LEMMA ReleaseOrders ==
    ASSUME IInv, Orderly, Releases
    PROVE  Orderly'
<1>1. /\ pc \in {"started", "releasing", "closing"}
      /\ chan' = chan \/ chan' = Close(chan, main) \/ chan' = Close(chan, pub)
      /\ cbs' = cbs /\ inbox' = inbox /\ broker' = broker /\ main' = main /\ pub' = pub
  BY DEF Releases, ReleaseMain, ReleasePub, ReleaseConnection, ReleaseFinit, UserOnly
<1>2. main # 0 /\ pub \in {main, pub} /\ main \in {main, pub}
  BY <1>1, ControlNow
<1>3. QED
  BY <1>1, <1>2, HeldOrders, Zenon

-----------------------------------------------------------------------------
(* The order is kept by the broker *)

\* Channel c has less to ask for and to wait for; no other channel changes.
Lessens(c) ==
    /\ Len(chan') = Len(chan)
    /\ \A x \in 1..Len(chan) : x # c => chan'[x] = chan[x]
    /\ chan'[c].role = chan[c].role /\ chan'[c].st = chan[c].st
    /\ \A op : Has(chan'[c].req, op) => Has(chan[c].req, op)
    /\ \A op : Has(chan'[c].todo, op) => Has(chan[c].todo, op)

LEMMA ReqLessens ==
    ASSUME IInv, NEW c \in 1..Len(chan), NEW req \in Seq(Ops), chan' = [chan EXCEPT ![c].req = req],
           \A op : Has(req, op) => Has(chan[c].req, op)
    PROVE  Lessens(c) /\ chan'[c].req = req
<1> DEFINE y == [chan[c] EXCEPT !.req = req]
<1>1. chan[c] \in Chan /\ chan \in Seq(Chan) /\ chan' = [chan EXCEPT ![c] = y]
  BY Parts, ElementIsFine
<1>2. y \in Chan /\ y.role = chan[c].role /\ y.st = chan[c].st /\ y.req = req /\ y.todo = chan[c].todo
  BY <1>1 DEF Chan
<1> HIDE DEF y
<1>3. Len(chan') = Len(chan) /\ (\A x \in 1..Len(chan) : x # c => chan'[x] = chan[x]) /\ chan'[c] = y
  <2>1. /\ Len([chan EXCEPT ![c] = y]) = Len(chan)
        /\ \A x \in 1..Len(chan) : x # c => [chan EXCEPT ![c] = y][x] = chan[x]
        /\ [chan EXCEPT ![c] = y][c] = y
    BY <1>1, <1>2, LeftBy
  <2>2. QED
    BY <1>1, <2>1
<1>4. QED
  BY <1>2, <1>3, Zenon DEF Lessens

LEMMA TakesLessens ==
    ASSUME IInv, NEW c \in DOMAIN chan, Serves(c), Takes(c)
    PROVE  Lessens(c) /\ chan'[c].req = Tail(chan[c].req)
<1>1. /\ c \in 1..Len(chan) /\ chan[c].req \in Seq(Ops) /\ chan[c].req # <<>>
      /\ Tail(chan[c].req) \in Seq(Ops)
  BY ServedChannel, Zenon
<1>2. \A op : Has(Tail(chan[c].req), op) => Has(chan[c].req, op)
  BY <1>1, HasTail
<1>3. chan' = [chan EXCEPT ![c].req = Tail(chan[c].req)]
  BY DEF Takes
<1>4. QED
  BY <1>1, <1>2, <1>3, ReqLessens, Zenon

LEMMA ForgetsLessens ==
    ASSUME IInv, NEW c \in DOMAIN chan, chan' = [chan EXCEPT ![c].req = <<>>]
    PROVE  Lessens(c) /\ chan'[c].req = <<>>
<1>1. c \in 1..Len(chan) /\ <<>> \in Seq(Ops)
  BY Parts
<1>2. QED
  BY <1>1, HasEmpty, ReqLessens, Zenon

LEMMA SucceedsLessens ==
    ASSUME IInv, NEW c \in DOMAIN chan, Serves(c), Succeeds(c)
    PROVE  Lessens(c) /\ chan'[c].req = Tail(chan[c].req)
<1> DEFINE r == chan[c]
           req == Tail(r.req)
           todo == Rest(r.todo)
           y == [r EXCEPT !.req = req, !.todo = todo]
<1>1. /\ r \in Chan /\ req \in Seq(Ops) /\ r.req \in Seq(Ops) /\ r.req # <<>>
      /\ r.todo \in Seq(Todos) /\ chan \in Seq(Chan) /\ c \in 1..Len(chan)
  BY ServedChannel, Parts, Zenon
<1>2. todo \in Seq(Todos) /\ \A op : Has(todo, op) => Has(r.todo, op)
  BY <1>1, RestHas
<1>3. \A op : Has(req, op) => Has(r.req, op)
  BY <1>1, HasTail
<1>4. chan' = [chan EXCEPT ![c] = y]
  BY <1>1, Parts DEF Succeeds, Chan
<1> HIDE DEF req, todo
<1>5. y \in Chan /\ y.role = r.role /\ y.st = r.st /\ y.req = req /\ y.todo = todo
  BY <1>1, <1>2 DEF Chan
<1> HIDE DEF y, r
<1>6. Len(chan') = Len(chan) /\ (\A x \in 1..Len(chan) : x # c => chan'[x] = chan[x]) /\ chan'[c] = y
  <2>1. /\ Len([chan EXCEPT ![c] = y]) = Len(chan)
        /\ \A x \in 1..Len(chan) : x # c => [chan EXCEPT ![c] = y][x] = chan[x]
        /\ [chan EXCEPT ![c] = y][c] = y
    BY <1>1, <1>5, LeftBy
  <2>2. QED
    BY <1>4, <2>1
<1>7. QED
  BY <1>2, <1>3, <1>5, <1>6, Zenon DEF Lessens, r, req

\* What the first request of a channel says about the channel.
LEMMA HeadTells ==
    ASSUME IInv, Orderly, NEW c \in DOMAIN chan, Serves(c)
    PROVE  /\ c \in 1..Len(chan) /\ c \notin broker.closed
           /\ Head(chan[c].req) \in SetupOps => c = Keeper
           /\ Head(chan[c].req) = "publish" => chan[c].role # "main"
           /\ Head(chan[c].req) = "close" => chan[c].st \notin Live
           /\ \A d : (Head(chan[c].req) = "bind" => QueueFor(d, c) \in d.bound)
                        => Binds(Tail(chan[c].req), c, d)
<1>1. c \in 1..Len(chan) /\ c \notin broker.closed /\ chan[c].req \in Seq(Ops) /\ chan[c].req # <<>>
  BY ServedChannel, Zenon
<1>2. Has(chan[c].req, Head(chan[c].req))
  <2>1. 1 \in 1..Len(chan[c].req) /\ Head(chan[c].req) = chan[c].req[1]
    BY <1>1, SequenceTail
  <2>2. QED
    BY <2>1, Zenon DEF Has
<1>3. Owned(chan[c], c, main, Keeper, pub, AnswersOf(inbox, c), broker)
  <2>1. Own(chan, main, Keeper, pub, inbox, broker)
    BY OrderParts, Zenon
  <2>2. QED
    BY <1>1, <2>1, Zenon DEF Own
<1>4. Head(chan[c].req) \in SetupOps => c = Keeper
  BY <1>1, <1>2, <1>3, Zenon DEF Owned, Idle, Bare
<1>5. /\ Head(chan[c].req) = "publish" => chan[c].role # "main"
      /\ Head(chan[c].req) = "close" => chan[c].st \notin Live
  BY <1>2, <1>3, Zenon DEF Owned
<1>6. \A d : (Head(chan[c].req) = "bind" => QueueFor(d, c) \in d.bound)
                => Binds(Tail(chan[c].req), c, d)
  <2>1. Binds(chan[c].req, c, broker)
    BY <1>3, Zenon DEF Owned
  <2>2. QED
    BY <1>1, <2>1, BindsTail
<1>7. QED
  BY <1>1, <1>4, <1>5, <1>6, Zenon

\* What channels other than c have had bound stays so.
Bounds(c, d) ==
    \A x : x # c /\ Declared(broker, x) /\ QueueFor(broker, x) \in broker.bound
              => QueueFor(d, x) \in d.bound

LEMMA BoundsSame ==
    ASSUME NEW d, d.last = broker.last, Len(d.queues) = Len(broker.queues),
           broker.bound \subseteq d.bound, NEW c
    PROVE  Bounds(c, d) /\ QueueFor(d, c) = QueueFor(broker, c)
<1>1. \A x : QueueFor(d, x) = QueueFor(broker, x)
  BY DEF QueueFor
<1>2. QED
  BY <1>1, Zenon DEF Bounds

\* What the broker may tell a channel.
Tells(f, c) ==
    /\ f \in Frame /\ f.ch = c
    /\ f.ans = "deliver" => c = Keeper
    /\ f.ans = "refused" => c = Keeper \/ chan[c].role # "main"
    /\ f.ans = "closed" => chan[c].st \notin Live

\* A step of the broker, for channel c.
LEMMA BrokerOrders ==
    ASSUME IInv, Orderly, NEW c \in 1..Len(chan), c \notin broker.closed, Lessens(c),
           main' = main, pub' = pub, cbs' = cbs, NEW d, broker' = d,
           broker.closed \subseteq d.closed, Bounds(c, d), Binds(chan'[c].req, c, d),
           \A x : Consumes(d, x) => Consumes(broker, x) \/ (x = c /\ c = Keeper),
           inbox' = inbox \/ \E f : Tells(f, c) /\ inbox' = Append(inbox, f)
    PROVE  Orderly'
<1>1. /\ Own(chan, main, Keeper, pub, inbox, broker) /\ LastWords(inbox) /\ inbox \in Seq(Frame)
      /\ Len(chan) # 0 /\ 1 \in 1..Len(chan) /\ chan[1].role = "main"
      /\ Runs(cbs, "error") => chan[1].st \notin Live
      /\ Runs(cbs, "ready") => Len(cbs) = 1
  <2>1. Len(chan) # 0
    BY Parts
  <2>2. QED
    BY <2>1, OrderParts, Zenon DEF Orderly
<1>2. \A x \in 1..Len(chan) : Fine(chan[x], x, main, pub, broker) /\ chan[x] \in Chan
  BY Parts, ElementIsFine, Zenon
<1>3. /\ Len(chan') = Len(chan)
      /\ \A x \in 1..Len(chan) : x # c => chan'[x] = chan[x]
      /\ chan'[c].role = chan[c].role /\ chan'[c].st = chan[c].st
      /\ \A op : Has(chan'[c].req, op) => Has(chan[c].req, op)
      /\ \A op : Has(chan'[c].todo, op) => Has(chan[c].todo, op)
  BY Zenon DEF Lessens
<1>4. "refused" \notin AnswersOf(inbox, c) /\ "closed" \notin AnswersOf(inbox, c)
  BY Parts, AnswersNow, Zenon
<1>5. /\ LastWords(inbox')
      /\ \A x : x # c => AnswersOf(inbox', x) \subseteq AnswersOf(inbox, x)
      /\ "deliver" \in AnswersOf(inbox', c) => "deliver" \in AnswersOf(inbox, c) \/ c = Keeper
      /\ "refused" \in AnswersOf(inbox', c) => c = Keeper \/ chan[c].role # "main"
      /\ "closed" \in AnswersOf(inbox', c) => chan[c].st \notin Live
  <2>1. CASE inbox' = inbox
    <3>1. \A x : AnswersOf(inbox', x) = AnswersOf(inbox, x)
      BY <2>1, Zenon
    <3>2. QED
      BY <1>1, <1>4, <2>1, <3>1, Zenon
  <2>2. CASE inbox' # inbox
    <3>1. PICK f : Tells(f, c) /\ inbox' = Append(inbox, f)
      BY <2>2, Zenon
    <3>2. /\ f \in Frame /\ f.ch = c
          /\ f.ans = "deliver" => c = Keeper
          /\ f.ans = "refused" => c = Keeper \/ chan[c].role # "main"
          /\ f.ans = "closed" => chan[c].st \notin Live
      BY <3>1, Zenon DEF Tells
    <3> DEFINE t == Append(inbox, f)
    <3>3. \A x, a : a \in AnswersOf(t, x) => a \in AnswersOf(inbox, x) \/ (f.ch = x /\ f.ans = a)
      BY <1>1, <3>2, AnswersAppend
    <3>4. LastWords(t)
      BY <1>1, <1>4, <3>2, LastWordsAppend
    <3> HIDE DEF t
    <3>5. inbox' = t
      BY <3>1, Zenon DEF t
    <3>6. \A x : x # c => AnswersOf(t, x) \subseteq AnswersOf(inbox, x)
      BY <3>2, <3>3, Zenon
    <3>7. QED
      BY <1>4, <3>2, <3>3, <3>4, <3>5, <3>6, Zenon
  <2>3. QED
    BY <2>1, <2>2
<1> DEFINE A(x) == AnswersOf(inbox', x)
<1>6. ASSUME NEW x \in 1..Len(chan), x # c PROVE Owned(chan'[x], x, main, Keeper, pub, A(x), d)
  <2>1. Owned(chan[x], x, main, Keeper, pub, AnswersOf(inbox, x), broker)
    BY <1>1, Zenon DEF Own
  <2>2. Binds(chan[x].req, x, d)
    <3>1. Binds(chan[x].req, x, broker)
      BY <2>1, Zenon DEF Owned
    <3>2. Declares(chan[x].req, x, broker) /\ chan[x] \in Chan
      BY <1>2, Zenon DEF Fine
    <3>3. chan[x].req \in Seq(Ops)
      BY <3>2, ChanFields, Zenon
    <3>4. Declared(broker, x) /\ QueueFor(broker, x) \in broker.bound => QueueFor(d, x) \in d.bound
      BY <1>6, Zenon DEF Bounds
    <3>5. QED
      BY <3>1, <3>2, <3>3, <3>4, BindsStill, Zenon
  <2>3. A(x) \subseteq AnswersOf(inbox, x) /\ (Consumes(d, x) => Consumes(broker, x))
        /\ (x \in broker.closed => x \in d.closed)
    <3>1. A(x) \subseteq AnswersOf(inbox, x)
      BY <1>5, <1>6
    <3>2. Consumes(d, x) => Consumes(broker, x)
      BY <1>6
    <3>3. QED
      BY <3>1, <3>2
  <2>4. Owned(chan[x], x, main, Keeper, pub, A(x), d)
    BY <2>1, <2>2, <2>3, OwnedStill, Zenon
  <2>5. QED
    BY <1>3, <1>6, <2>4, Zenon
<1>7. Owned(chan'[c], c, main, Keeper, pub, A(c), d)
  <2> DEFINE x == chan'[c]
             B == A(c)
  <2>1. Owned(chan[c], c, main, Keeper, pub, AnswersOf(inbox, c), broker)
    BY <1>1, Zenon DEF Own
  <2>2. chan[c].st # "closed"
    BY <1>2, Zenon DEF Fine
  <2>3. /\ x.role = chan[c].role /\ x.st = chan[c].st
        /\ \A op : Has(x.req, op) => Has(chan[c].req, op)
        /\ \A op : Has(x.todo, op) => Has(chan[c].todo, op)
        /\ Binds(x.req, c, d)
    BY <1>3
  <2>4. /\ "deliver" \in B => "deliver" \in AnswersOf(inbox, c) \/ c = Keeper
        /\ "refused" \in B => c = Keeper \/ chan[c].role # "main"
        /\ "closed" \in B => chan[c].st \notin Live
        /\ Consumes(d, c) => Consumes(broker, c) \/ c = Keeper
        /\ c \in broker.closed => c \in d.closed
    BY <1>5, Zenon
  <2> HIDE DEF x, B
  <2>5. Owned(x, c, main, Keeper, pub, B, d)
    BY <2>1, <2>2, <2>3, <2>4, OwnedFrom, Zenon
  <2>6. QED
    BY <2>5 DEF x, B
<1>8. Own(chan', main, Keeper, pub, inbox', d)
  <2>1. ASSUME NEW x \in 1..Len(chan) PROVE Owned(chan'[x], x, main, Keeper, pub, A(x), d)
    <3>1. CASE x = c
      BY <1>7, <3>1
    <3>2. CASE x # c
      BY <1>6, <3>2
    <3>3. QED
      BY <3>1, <3>2
  <2>2. QED
    BY <1>3, <2>1, Zenon DEF Own
<1>9. chan'[1].role = chan[1].role /\ chan'[1].st = chan[1].st
  BY <1>1, <1>3, Zenon
<1>10. Keeper' = Keeper
  BY Zenon DEF Keeper
<1> HIDE DEF A
<1>11. QED
  BY <1>1, <1>5, <1>8, <1>9, <1>10, Zenon DEF Orderly

LEMMA RefuseOrders ==
    ASSUME IInv, Orderly, NEW c \in DOMAIN chan, Refuse(c)
    PROVE  Orderly'
<1> DEFINE d == [Drop(c) EXCEPT !.refusals = @ + 1]
           f == [ch |-> c, ans |-> "refused"]
<1>1. /\ Serves(c) /\ Head(chan[c].req) \in SetupOps
      /\ chan' = [chan EXCEPT ![c].req = <<>>] /\ inbox' = Append(inbox, f) /\ broker' = d
  BY SessionAssumption DEF Refuse, Answers
<1>2. /\ c \in 1..Len(chan) /\ c \notin broker.closed /\ c = Keeper
      /\ main' = main /\ pub' = pub /\ cbs' = cbs
  BY <1>1, HeadTells, ServedChannel, Zenon
<1>3. /\ d.closed = broker.closed \cup {c} /\ d.consumers = {x \in broker.consumers : x[1] # c}
      /\ d.queues = broker.queues /\ d.last = broker.last /\ d.bound = broker.bound
  BY Parts DEF Serving, Drop, BrokerFields
<1> HIDE DEF d
<1>4. Lessens(c) /\ chan'[c].req = <<>>
  BY <1>1, ForgetsLessens, Zenon
<1>5. Bounds(c, d) /\ Binds(<<>>, c, d)
  BY <1>3, BoundsSame, BindsEmpty
<1>6. \A x : Consumes(d, x) => Consumes(broker, x)
  BY <1>3, Zenon DEF Consumes
<1>7. Tells(f, c)
  <2>1. f \in Frame /\ f.ch = c /\ f.ans = "refused"
    BY <1>2, Parts DEF Frame, Answer
  <2>2. QED
    BY <1>2, <2>1 DEF Tells
<1> HIDE DEF f
<1>8. QED
  BY <1>1, <1>2, <1>3, <1>4, <1>5, <1>6, <1>7, BrokerOrders

LEMMA RouteOrders ==
    ASSUME IInv, Orderly, NEW c \in DOMAIN chan, Route(c)
    PROVE  Orderly'
<1>1. /\ Serves(c) /\ Head(chan[c].req) = "publish"
      /\ IF broker.exchange
         THEN /\ broker' = [broker EXCEPT
                   !.routed = @ + 1,
                   !.queues = [q \in DOMAIN @ |-> IF q \in broker.bound
                                                   THEN Append(@[q], broker.routed + 1)
                                                   ELSE @[q]]]
              /\ Takes(c) /\ UNCHANGED inbox
         ELSE /\ broker' = Drop(c) /\ Answers(c, "refused")
              /\ chan' = [chan EXCEPT ![c].req = <<>>]
  BY DEF Route
<1>2. /\ c \in 1..Len(chan) /\ c \notin broker.closed /\ chan[c].role # "main"
      /\ main' = main /\ pub' = pub /\ cbs' = cbs
  BY <1>1, HeadTells, ServedChannel, Zenon
<1>3. CASE broker.exchange
  <2> DEFINE qs == [q \in DOMAIN broker.queues |-> IF q \in broker.bound
                                                   THEN Append(broker.queues[q], broker.routed + 1)
                                                   ELSE broker.queues[q]]
             d == [broker EXCEPT !.routed = broker.routed + 1, !.queues = qs]
  <2>1. broker' = d /\ inbox' = inbox
    BY <1>1, <1>3
  <2>2. Len(qs) = Len(broker.queues)
    <3>1. broker.queues \in Seq(Seq(1..broker.routed))
      BY Parts, Zenon DEF Serving
    <3>2. DOMAIN broker.queues = 1..Len(broker.queues) /\ Len(broker.queues) \in Nat
      BY <3>1, LenProperties
    <3>3. DOMAIN qs = 1..Len(broker.queues)
      BY <3>2
    <3> HIDE DEF qs
    <3>4. QED
      BY <3>2, <3>3
  <2> HIDE DEF qs
  <2>3. /\ d.last = broker.last /\ d.closed = broker.closed /\ d.bound = broker.bound
        /\ d.consumers = broker.consumers /\ d.queues = qs
    BY Parts DEF Serving, BrokerFields
  <2> HIDE DEF d
  <2>4. Lessens(c) /\ chan'[c].req = Tail(chan[c].req)
    BY <1>1, <1>3, TakesLessens, Zenon
  <2>5. Bounds(c, d)
    BY <2>2, <2>3, BoundsSame
  <2>6. Binds(chan'[c].req, c, d)
    <3>1. Head(chan[c].req) # "bind"
      BY <1>1
    <3>2. Binds(Tail(chan[c].req), c, d)
      BY <1>1, <3>1, HeadTells, Zenon
    <3>3. QED
      BY <2>4, <3>2
  <2>7. (\A x : Consumes(d, x) => Consumes(broker, x)) /\ broker.closed \subseteq d.closed
    BY <2>3, Zenon DEF Consumes
  <2>8. QED
    BY <1>2, <2>1, <2>4, <2>5, <2>6, <2>7, BrokerOrders
<1>4. CASE ~broker.exchange
  <2> DEFINE d == Drop(c)
             f == [ch |-> c, ans |-> "refused"]
  <2>1. chan' = [chan EXCEPT ![c].req = <<>>] /\ broker' = d /\ inbox' = Append(inbox, f)
    BY <1>1, <1>4 DEF Answers
  <2>2. /\ d.closed = broker.closed \cup {c} /\ d.consumers = {x \in broker.consumers : x[1] # c}
        /\ d.queues = broker.queues /\ d.last = broker.last /\ d.bound = broker.bound
    BY Parts DEF Serving, Drop, BrokerFields
  <2> HIDE DEF d
  <2>3. Lessens(c) /\ chan'[c].req = <<>>
    BY <2>1, ForgetsLessens, Zenon
  <2>4. Bounds(c, d) /\ Binds(<<>>, c, d)
    BY <2>2, BoundsSame, BindsEmpty
  <2>5. \A x : Consumes(d, x) => Consumes(broker, x)
    BY <2>2, Zenon DEF Consumes
  <2>6. Tells(f, c)
    <3>1. f \in Frame /\ f.ch = c /\ f.ans = "refused"
      BY <1>2, Parts DEF Frame, Answer
    <3>2. QED
      BY <1>2, <3>1 DEF Tells
  <2> HIDE DEF f
  <2>7. QED
    BY <1>2, <2>1, <2>2, <2>3, <2>4, <2>5, <2>6, BrokerOrders
<1>5. QED
  BY <1>3, <1>4

LEMMA TakeAckOrders ==
    ASSUME IInv, Orderly, NEW c \in DOMAIN chan, TakeAck(c)
    PROVE  Orderly'
<1>1. Serves(c) /\ Head(chan[c].req) = "ack" /\ Takes(c) /\ inbox' = inbox /\ broker' = broker
  BY DEF TakeAck
<1>2. /\ c \in 1..Len(chan) /\ c \notin broker.closed
      /\ main' = main /\ pub' = pub /\ cbs' = cbs
  BY <1>1, HeadTells, ServedChannel, Zenon
<1>3. Lessens(c) /\ chan'[c].req = Tail(chan[c].req)
  BY <1>1, TakesLessens, Zenon
<1>4. Bounds(c, broker)
  BY BoundsSame
<1>5. Binds(chan'[c].req, c, broker)
  <2>1. Head(chan[c].req) # "bind"
    BY <1>1
  <2>2. Binds(Tail(chan[c].req), c, broker)
    BY <1>1, <2>1, HeadTells, Zenon
  <2>3. QED
    BY <1>3, <2>2
<1>6. QED
  BY <1>1, <1>2, <1>3, <1>4, <1>5, BrokerOrders

LEMMA CloseChannelOrders ==
    ASSUME IInv, Orderly, NEW c \in DOMAIN chan, CloseChannel(c)
    PROVE  Orderly'
<1> DEFINE d == Drop(c)
           f == [ch |-> c, ans |-> "closed"]
<1>1. /\ Serves(c) /\ Head(chan[c].req) = "close" /\ Takes(c)
      /\ inbox' = Append(inbox, f) /\ broker' = d
  BY DEF CloseChannel, Answers
<1>2. /\ c \in 1..Len(chan) /\ c \notin broker.closed /\ chan[c].st \notin Live
      /\ main' = main /\ pub' = pub /\ cbs' = cbs
  BY <1>1, HeadTells, ServedChannel, Zenon
<1>3. /\ d.closed = broker.closed \cup {c} /\ d.consumers = {x \in broker.consumers : x[1] # c}
      /\ d.queues = broker.queues /\ d.last = broker.last /\ d.bound = broker.bound
  BY Parts DEF Serving, Drop, BrokerFields
<1> HIDE DEF d
<1>4. Lessens(c) /\ chan'[c].req = Tail(chan[c].req)
  BY <1>1, TakesLessens, Zenon
<1>5. Bounds(c, d)
  BY <1>3, BoundsSame
<1>6. Binds(chan'[c].req, c, d)
  <2>1. Head(chan[c].req) # "bind"
    BY <1>1
  <2>2. Binds(Tail(chan[c].req), c, d)
    BY <1>1, <2>1, HeadTells, Zenon
  <2>3. QED
    BY <1>4, <2>2
<1>7. \A x : Consumes(d, x) => Consumes(broker, x)
  BY <1>3, Zenon DEF Consumes
<1>8. Tells(f, c)
  <2>1. f \in Frame /\ f.ch = c /\ f.ans = "closed"
    BY <1>2, Parts DEF Frame, Answer
  <2>2. QED
    BY <1>2, <2>1 DEF Tells
<1> HIDE DEF f
<1>9. QED
  BY <1>1, <1>2, <1>3, <1>4, <1>5, <1>6, <1>7, <1>8, BrokerOrders

\* A message goes to m_channel, which alone consumes.
LEMMA DeliverOrders ==
    ASSUME IInv, Orderly, NEW x \in broker.consumers, Deliver(x[1], x[2])
    PROVE  Orderly'
<1> DEFINE c == x[1]
           q == x[2]
           d == [broker EXCEPT !.queues[q] = Tail(@)]
           f == [ch |-> c, ans |-> "deliver", msg |-> Head(broker.queues[q])]
<1>1. /\ broker.queues[q] # <<>> /\ inbox' = Append(inbox, f) /\ broker' = d
      /\ chan' = chan /\ main' = main /\ pub' = pub /\ cbs' = cbs
  BY DEF Deliver
<1>2. /\ c \in 1..Len(chan) /\ c \notin broker.closed /\ Consumes(broker, c)
      /\ q \in 1..Len(broker.queues) /\ broker.routed \in Nat /\ c \in Nat
      /\ broker.queues \in Seq(Seq(1..broker.routed))
  <2>1. /\ c \in 1..Len(chan) /\ c \notin broker.closed /\ Consumes(broker, c)
        /\ q \in 1..Len(broker.queues) /\ broker.routed \in Nat
        /\ broker.queues \in Seq(Seq(1..broker.routed))
    BY Parts, Zenon DEF Serving, Consumes
  <2>2. QED
    BY <2>1, Parts
<1>3. Head(broker.queues[q]) \in Nat
  <2>1. broker.queues[q] \in Seq(1..broker.routed)
    BY <1>2, ElementOfSeq, Zenon
  <2>2. Head(broker.queues[q]) \in 1..broker.routed
    BY <1>1, <2>1, SequenceTail, Zenon
  <2>3. QED
    BY <1>2, <2>2
<1>4. c = Keeper
  <2>1. Owned(chan[c], c, main, Keeper, pub, AnswersOf(inbox, c), broker)
    BY <1>2, OrderParts, Zenon DEF Own
  <2>2. QED
    BY <1>2, <2>1, Zenon DEF Owned, Idle
<1>5. /\ d.last = broker.last /\ d.closed = broker.closed /\ d.bound = broker.bound
      /\ d.consumers = broker.consumers /\ Len(d.queues) = Len(broker.queues)
  <2> DEFINE qs == [broker.queues EXCEPT ![q] = Tail(broker.queues[q])]
  <2>1. Len(qs) = Len(broker.queues)
    BY <1>2
  <2>2. d.queues = qs
    BY Parts DEF Serving, BrokerFields
  <2>3. /\ d.last = broker.last /\ d.closed = broker.closed /\ d.bound = broker.bound
        /\ d.consumers = broker.consumers
    BY Parts DEF Serving, BrokerFields
  <2>4. QED
    BY <2>1, <2>2, <2>3, Zenon
<1> HIDE DEF d, q
<1>6. Lessens(c) /\ Bounds(c, d)
  BY <1>1, <1>5, BoundsSame DEF Lessens
<1>7. Binds(chan'[c].req, c, d)
  <2>1. Binds(chan[c].req, c, broker)
    BY <1>2, OrderParts, Zenon DEF Own, Owned
  <2>2. QueueFor(d, c) = QueueFor(broker, c)
    BY <1>5, BoundsSame
  <2>3. Binds(chan[c].req, c, d)
    BY <1>5, <2>1, <2>2, Zenon DEF Binds
  <2>4. QED
    BY <1>1, <2>3
<1>8. \A y : Consumes(d, y) => Consumes(broker, y)
  BY <1>5, Zenon DEF Consumes
<1>9. Tells(f, c)
  <2>1. f \in Frame /\ f.ch = c /\ f.ans = "deliver"
    BY <1>2, <1>3 DEF Frame
  <2>2. QED
    BY <1>4, <2>1 DEF Tells
<1> HIDE DEF f, c
<1>10. QED
  BY <1>1, <1>2, <1>5, <1>6, <1>7, <1>8, <1>9, BrokerOrders

LEMMA LinkLostOrders ==
    ASSUME IInv, Orderly, LinkLost
    PROVE  Orderly'
<1> DEFINE d == [broker EXCEPT !.lost = TRUE]
<1>1. /\ broker' = d /\ inbox' = <<>> /\ chan' = chan /\ main' = main /\ pub' = pub /\ cbs' = cbs
  BY DEF LinkLost
<1>2. /\ d.last = broker.last /\ d.closed = broker.closed /\ d.bound = broker.bound
      /\ d.consumers = broker.consumers /\ d.queues = broker.queues
  BY Parts DEF Serving, BrokerFields
<1> HIDE DEF d
<1>3. \A c : QueueFor(d, c) = QueueFor(broker, c)
  BY <1>2, BoundsSame
<1>4. ASSUME NEW c \in 1..Len(chan)
      PROVE  Owned(chan[c], c, main, Keeper, pub, AnswersOf(<<>>, c), d)
  <2>1. Owned(chan[c], c, main, Keeper, pub, AnswersOf(inbox, c), broker)
    BY OrderParts, Zenon DEF Own
  <2>2. Binds(chan[c].req, c, broker)
    BY <2>1, Zenon DEF Owned
  <2>3. Binds(chan[c].req, c, d)
    BY <1>2, <1>3, <2>2, Zenon DEF Binds
  <2>4. AnswersOf(<<>>, c) \subseteq AnswersOf(inbox, c)
    BY AnswersNone, Zenon
  <2>5. Consumes(d, c) => Consumes(broker, c)
    BY <1>2, Zenon DEF Consumes
  <2>6. QED
    BY <1>2, <2>1, <2>3, <2>4, <2>5, OwnedStill, Zenon
<1>5. Own(chan, main, Keeper, pub, <<>>, d)
  BY <1>4, Zenon DEF Own
<1>6. LastWords(<<>>)
  BY DEF LastWords
<1>7. QED
  BY <1>1, <1>5, <1>6, Zenon DEF Orderly, Keeper

\* A request that is served: what the broker is to have done with it.
LEMMA ServedOrders ==
    ASSUME IInv, Orderly, NEW c \in DOMAIN chan, Serves(c), Lessens(c),
           chan'[c].req = Tail(chan[c].req), NEW d, broker' = d, d.closed = broker.closed,
           Bounds(c, d), Head(chan[c].req) = "bind" => QueueFor(d, c) \in d.bound,
           \A x : Consumes(d, x) =>
               Consumes(broker, x) \/ (x = c /\ Head(chan[c].req) \in SetupOps),
           inbox' = inbox \/ inbox' = Append(inbox, [ch |-> c, ans |-> "open-ok"])
    PROVE  Orderly'
<1> DEFINE f == [ch |-> c, ans |-> "open-ok"]
<1>1. /\ c \in 1..Len(chan) /\ c \notin broker.closed /\ main' = main /\ pub' = pub /\ cbs' = cbs
      /\ Head(chan[c].req) \in SetupOps => c = Keeper
  BY HeadTells, ServedChannel, Zenon
<1>2. Binds(chan'[c].req, c, d)
  <2>1. Binds(Tail(chan[c].req), c, d)
    BY HeadTells, Zenon
  <2>2. QED
    BY <2>1, Zenon
<1>3. Tells(f, c)
  <2>1. f \in Frame /\ f.ch = c /\ f.ans = "open-ok"
    BY <1>1, Parts DEF Frame, Answer
  <2>2. QED
    BY <2>1 DEF Tells
<1>4. inbox' = inbox \/ inbox' = Append(inbox, f)
  OBVIOUS
<1> HIDE DEF f
<1>5. \A x : Consumes(d, x) => Consumes(broker, x) \/ (x = c /\ c = Keeper)
  BY <1>1, Zenon
<1>6. QED
  BY <1>1, <1>2, <1>3, <1>4, <1>5, BrokerOrders

LEMMA ServeOrders ==
    ASSUME IInv, Orderly, NEW c \in DOMAIN chan, Serve(c)
    PROVE  Orderly'
<1> DEFINE op == Head(chan[c].req)
<1>1. /\ Serves(c) /\ op \in SetupOps \cup {"open"}
      /\ IF op = "open" THEN Takes(c) /\ Answers(c, "open-ok") ELSE Succeeds(c)
  BY Zenon DEF Serve, Accept
<1>2. broker' =
         CASE op = "exchange" -> [broker EXCEPT !.exchange = TRUE]
           [] op = "queue" ->
                IF ServerNamed \/ broker.queues = <<>>
                THEN [broker EXCEPT !.queues = Append(@, <<>>),
                                    !.last = [x \in DOMAIN @ \cup {c} |->
                                                IF x = c THEN Len(broker.queues) + 1 ELSE @[x]]]
                ELSE broker
           [] op = "bind" -> [broker EXCEPT !.bound = @ \cup {QueueOf(c)}]
           [] op = "consume" -> [broker EXCEPT !.consumers = @ \cup {<<c, QueueOf(c)>>}]
           [] OTHER -> broker
  BY Zenon DEF Serve, Accept
<1>3. Lessens(c) /\ chan'[c].req = Tail(chan[c].req)
  <2>1. CASE op = "open"
    BY <1>1, <2>1, TakesLessens, Zenon
  <2>2. CASE op # "open"
    BY <1>1, <2>2, SucceedsLessens, Zenon
  <2>3. QED
    BY <2>1, <2>2
<1>4. inbox' = inbox \/ inbox' = Append(inbox, [ch |-> c, ans |-> "open-ok"])
  BY <1>1 DEF Answers, Succeeds
<1>5. CASE op = "open" \/ (op = "queue" /\ ~(ServerNamed \/ broker.queues = <<>>))
  <2>1. broker' = broker
    BY <1>2, <1>5
  <2>2. op # "bind" /\ Bounds(c, broker)
    BY <1>5, BoundsSame
  <2>3. QED
    BY <1>1, <1>3, <1>4, <2>1, <2>2, ServedOrders, Zenon
<1>6. CASE op = "exchange"
  <2> DEFINE d == [broker EXCEPT !.exchange = TRUE]
  <2>1. broker' = d /\ op # "bind"
    BY <1>2, <1>6
  <2>2. /\ d.closed = broker.closed /\ d.queues = broker.queues /\ d.last = broker.last
        /\ d.consumers = broker.consumers /\ d.bound = broker.bound
    BY Parts DEF Serving, BrokerFields
  <2> HIDE DEF d
  <2>3. Bounds(c, d) /\ \A x : Consumes(d, x) => Consumes(broker, x)
    BY <2>2, BoundsSame DEF Consumes
  <2>4. QED
    BY <1>1, <1>3, <1>4, <2>1, <2>2, <2>3, ServedOrders, Zenon
<1>7. CASE op = "bind"
  <2> DEFINE d == [broker EXCEPT !.bound = @ \cup {QueueOf(c)}]
  <2>1. broker' = d
    BY <1>2, <1>7
  <2>2. /\ d.closed = broker.closed /\ d.queues = broker.queues /\ d.last = broker.last
        /\ d.consumers = broker.consumers /\ d.bound = broker.bound \cup {QueueOf(c)}
    BY Parts DEF Serving, BrokerFields
  <2> HIDE DEF d
  <2>3. Bounds(c, d) /\ QueueFor(d, c) = QueueFor(broker, c)
    BY <2>2, BoundsSame
  <2>4. QueueFor(d, c) \in d.bound
    <3>1. QueueFor(broker, c) = QueueOf(c)
      BY DEF QueueFor, QueueOf
    <3>2. QED
      BY <2>2, <2>3, <3>1
  <2>5. \A x : Consumes(d, x) => Consumes(broker, x)
    BY <2>2, Zenon DEF Consumes
  <2>6. QED
    BY <1>1, <1>3, <1>4, <2>1, <2>2, <2>3, <2>4, <2>5, ServedOrders, Zenon
<1>8. CASE op = "consume"
  <2> DEFINE d == [broker EXCEPT !.consumers = @ \cup {<<c, QueueOf(c)>>}]
  <2>1. broker' = d /\ op # "bind" /\ op \in SetupOps
    BY <1>2, <1>8 DEF SetupOps
  <2>2. /\ d.closed = broker.closed /\ d.queues = broker.queues /\ d.last = broker.last
        /\ d.consumers = broker.consumers \cup {<<c, QueueOf(c)>>} /\ d.bound = broker.bound
    BY Parts DEF Serving, BrokerFields
  <2> HIDE DEF d
  <2>3. Bounds(c, d)
    BY <2>2, BoundsSame
  <2>4. \A x : Consumes(d, x) => Consumes(broker, x) \/ x = c
    BY <2>2 DEF Consumes
  <2>5. QED
    BY <1>1, <1>3, <1>4, <2>1, <2>2, <2>3, <2>4, ServedOrders, Zenon
<1>9. CASE op = "queue" /\ (ServerNamed \/ broker.queues = <<>>)
  <2> DEFINE last == [x \in DOMAIN broker.last \cup {c} |->
                         IF x = c THEN Len(broker.queues) + 1 ELSE broker.last[x]]
             qs == Append(broker.queues, <<>>)
             d == [broker EXCEPT !.queues = qs, !.last = last]
  <2>1. broker' = d /\ op # "bind"
    BY <1>2, <1>9
  <2>2. \A x : x # c /\ x \in DOMAIN broker.last => x \in DOMAIN last /\ last[x] = broker.last[x]
    BY Zenon
  <2> HIDE DEF qs, last
  <2>3. /\ d.closed = broker.closed /\ d.last = last
        /\ d.consumers = broker.consumers /\ d.bound = broker.bound
    BY Parts DEF Serving, BrokerFields
  <2> HIDE DEF d
  <2>4. Bounds(c, d)
    <3> SUFFICES ASSUME NEW x, x # c, Declared(broker, x), QueueFor(broker, x) \in broker.bound
                 PROVE  QueueFor(d, x) \in d.bound
      BY Zenon DEF Bounds
    <3>1. ServerNamed /\ x \in DOMAIN broker.last
      BY <1>9 DEF Declared
    <3>2. QueueFor(broker, x) = broker.last[x]
      BY <3>1 DEF QueueFor
    <3>3. QueueFor(d, x) = broker.last[x]
      BY <2>2, <2>3, <3>1 DEF QueueFor
    <3>4. QED
      BY <2>3, <3>2, <3>3
  <2>5. \A x : Consumes(d, x) => Consumes(broker, x)
    BY <2>3, Zenon DEF Consumes
  <2>6. QED
    BY <1>1, <1>3, <1>4, <2>1, <2>3, <2>4, <2>5, ServedOrders, Zenon
<1>10. QED
  BY <1>1, <1>5, <1>6, <1>7, <1>8, <1>9 DEF SetupOps

LEMMA LoginOrders ==
    ASSUME Orderly, LoginOk
    PROVE  Orderly'
<1>1. /\ chan' = chan /\ main' = main /\ pub' = pub /\ cbs' = cbs /\ inbox' = inbox
      /\ broker' = broker
  BY DEF LoginOk
<1>2. QED
  BY <1>1, SameOrders, Zenon

LEMMA WaitOrders ==
    ASSUME Orderly, WaitTimesOut
    PROVE  Orderly'
<1>1. /\ chan' = chan /\ main' = main /\ pub' = pub /\ cbs' = cbs /\ inbox' = inbox
      /\ broker' = broker
  BY DEF WaitTimesOut, UserOnly
<1>2. QED
  BY <1>1, SameOrders, Zenon

LEMMA NextOrderly == IInv /\ Orderly /\ [Next]_vars => Orderly'
<1> SUFFICES ASSUME IInv, Orderly, [Next]_vars PROVE Orderly'
  OBVIOUS
<1>1. CASE Worker
  BY <1>1, OpenOkOrders, RefusedOrders, ClosedOrders, ConsumeRecvedOrders, CallbackOrders, Zenon
     DEF Worker
<1>2. CASE LoginOk
  BY <1>2, LoginOrders
<1>3. CASE User
  BY <1>3, WaitOrders, CreatesOrders, StoresOrders, ChecksOrders, PublishOrders, ReleaseOrders, Zenon
     DEF User, Starts
<1>4. CASE Broker
  BY <1>4, ServeOrders, RefuseOrders, RouteOrders, TakeAckOrders, CloseChannelOrders,
     DeliverOrders, Zenon DEF Broker
<1>5. CASE LinkLost
  BY <1>5, LinkLostOrders
<1>6. CASE UNCHANGED vars
  <2>1. /\ chan' = chan /\ main' = main /\ pub' = pub /\ cbs' = cbs /\ inbox' = inbox
        /\ broker' = broker
    BY <1>6 DEF vars
  <2>2. QED
    BY <2>1, SameOrders, Zenon
<1>7. QED
  BY <1>1, <1>2, <1>3, <1>4, <1>5, <1>6, Zenon DEF Next

LEMMA InitOrderly == Init => Orderly
<1> SUFFICES ASSUME Init PROVE Orderly
  OBVIOUS
<1>1. chan = <<>> /\ cbs = <<>> /\ inbox = <<>> /\ Len(<<>>) = 0 /\ \A i \in 1..0 : FALSE
  BY DEF Init
<1>2. QED
  BY <1>1, Zenon DEF Orderly, Own, LastWords, Runs

\* At any time only m_channel has requests of ChannelOkCb under way, or consumes;
\* none does while the error callbacks that replace it run; and nothing follows
\* the last answer of a channel.
THEOREM OneKeeper == Spec => []Orderly
<1>1. QED
  BY InitOrderly, Inductive, NextOrderly, PTL DEF Spec

\* A delivery is acknowledged on the channel that delivered it: no message of a
\* channel that the error callbacks have replaced is still on its way when
\* ConsumeRecvedCb uses the m_channel of the moment.
THEOREM AcksOwn == Spec => AcksOwnChannel
<1>1. IInv /\ Orderly => (ConsumeRecvedCb => Head(inbox).ch = main)
  BY RecvedOnMain, Zenon DEF ConsumeRecvedCb, From
<1>2. IInv /\ Orderly => [ConsumeRecvedCb => Head(inbox).ch = main]_vars
  BY <1>1
<1>3. QED
  BY <1>2, Inductive, OneKeeper, PTL DEF AcksOwnChannel

-----------------------------------------------------------------------------
(* The status that the user was told is the truth *)

Active == pc \in {"registering", "checking", "storing", "started"}

\* m_channel consumes, or what is to make it is still on its way: the request,
\* or the refusal that will have the channel replaced.
Comes ==
    /\ chan[main].st # "closed"
    /\ \/ "refused" \in AnswersOf(inbox, main)
       \/ Has(chan[main].req, "consume")
       \/ Consuming

\* The setup of m_channel has still to begin: the channel opens, or is ready and
\* its callback waits, or the start is to see that it is.
Opens ==
    \/ Has(chan[main].req, "open")
    \/ "open-ok" \in AnswersOf(inbox, main)
    \/ /\ chan[main].st = "ready"
       /\ Waits \/ (main = 1 /\ pc \in {"registering", "checking"})

\* The program hears of it when the broker closes m_channel.
Heard ==
    /\ chan[main].st # "closed"
    /\ main \in broker.closed => "refused" \in AnswersOf(inbox, main)

\* The program closes its channels and its connection only to release them; what
\* it has told the user of them is true, or the callback that tells otherwise has
\* still to run; and m_channel consumes, or will be asked to.
Told ==
    /\ pc \in {"login", "failed"} => connOpen /\ ~status /\ broker.closed = {}
    /\ Active => /\ connOpen /\ chan[main].st # "closing"
                 /\ pub # 0 => chan[pub].st # "closing"
                 /\ broker.closed \subseteq 1..Len(chan)
    /\ Active /\ status => pub # 0 /\ (chan[pub].st \in Live \/ Runs(cbs, "puberror"))
    /\ Active /\ ~broker.lost =>
          Runs(cbs, "error") \/ (Heard /\ (Comes \/ (~status /\ (MayReorder \/ Opens))))

\* What is on its way after a frame is parsed.
LEMMA AnswersBehind ==
    ASSUME NEW s \in Seq(Frame), s # <<>>, NEW c, NEW a, Head(s).ch # c \/ Head(s).ans # a
    PROVE  a \in AnswersOf(s, c) => a \in AnswersOf(Tail(s), c)
<1> DEFINE L == Len(s)
           t == Tail(s)
           M == Len(t)
<1>1. /\ 1 \in 1..L /\ Head(s) = s[1]
      /\ \A i \in 1..M : i + 1 \in 1..L /\ t[i] = s[i + 1]
  BY SequenceTail, Zenon
<1>2. L \in Nat /\ M \in Nat /\ L = M + 1
  BY HeadTailProperties, LenProperties, EmptySeq
<1> HIDE DEF t, L, M
<1>3. \A i \in 1..L : i = 1 \/ (i - 1 \in 1..M /\ (i - 1) + 1 = i)
  BY <1>2
<1>4. SUFFICES ASSUME NEW i \in 1..L, s[i].ch = c, s[i].ans = a, a \in Answer \cup {"deliver"}
               PROVE  a \in AnswersOf(t, c)
  BY Zenon DEF AnswersOf, L, t
<1>5. i # 1 /\ i - 1 \in 1..M /\ (i - 1) + 1 = i
  BY <1>1, <1>3, <1>4, Zenon
<1>6. t[i - 1] = s[i]
  BY <1>1, <1>5, Zenon
<1>7. QED
  BY <1>4, <1>5, <1>6, Zenon DEF AnswersOf, M

LEMMA ToldStill ==
    ASSUME Told, status' = status, connOpen' = connOpen, main' = main, pub' = pub,
           Active' => Active, pc' \in {"login", "failed"} => pc \in {"login", "failed"},
           pc' \in {"login", "failed"} => broker'.closed = broker.closed,
           Active => /\ chan'[main].st = "closing" => chan[main].st = "closing"
                     /\ pub # 0 /\ chan'[pub].st = "closing" => chan[pub].st = "closing",
           Active /\ broker.closed \subseteq 1..Len(chan) => broker'.closed \subseteq 1..Len(chan'),
           Active /\ pub # 0 /\ (chan[pub].st \in Live \/ Runs(cbs, "puberror"))
              => chan'[pub].st \in Live \/ Runs(cbs', "puberror"),
           Active /\ ~broker'.lost => ~broker.lost,
           Active /\ Runs(cbs, "error") => Runs(cbs', "error"),
           Active /\ ~broker'.lost /\ ~Runs(cbs', "error") /\ Heard => Heard',
           Active /\ ~broker'.lost /\ ~Runs(cbs', "error") /\ Heard /\ Comes => Comes',
           Active /\ ~broker'.lost /\ ~Runs(cbs', "error") /\ ~MayReorder /\ Heard /\ Opens
              => Comes' \/ Opens'
    PROVE  Told'
<1>1. pc' \in {"login", "failed"} => connOpen' /\ ~status' /\ broker'.closed = {}
  BY Zenon DEF Told
<1>2. Active' => /\ connOpen' /\ chan'[main'].st # "closing"
                 /\ pub' # 0 => chan'[pub'].st # "closing"
                 /\ broker'.closed \subseteq 1..Len(chan')
  BY Zenon DEF Told
<1>3. Active' /\ status' => pub' # 0 /\ (chan'[pub'].st \in Live \/ Runs(cbs', "puberror"))
  BY Zenon DEF Told
<1>4. ASSUME Active', ~broker'.lost, ~Runs(cbs', "error")
      PROVE  Heard' /\ (Comes' \/ (~status' /\ (MayReorder \/ Opens')))
  <2>1. Heard /\ (Comes \/ (~status /\ (MayReorder \/ Opens)))
    BY <1>4, Zenon DEF Told
  <2>2. QED
    BY <1>4, <2>1, Zenon
<1>5. QED
  BY <1>1, <1>2, <1>3, <1>4, Zenon DEF Told

LEMMA ComesStill ==
    ASSUME Comes, main' = main, chan'[main].st # "closed",
           "refused" \in AnswersOf(inbox, main) => "refused" \in AnswersOf(inbox', main),
           Has(chan[main].req, "consume") => Has(chan'[main].req, "consume") \/ Consuming',
           broker.bound \subseteq broker'.bound,
           \A q : <<main, q>> \in broker.consumers => <<main, q>> \in broker'.consumers
    PROVE  Comes'
<1>1. Consuming => Consuming'
  BY Zenon DEF Consuming
<1>2. QED
  BY <1>1, Zenon DEF Comes

\* A step that leaves m_channel as it is, and has nothing less on the way.
LEMMA MainStill ==
    ASSUME main' = main, chan'[main].st = chan[main].st,
           \A a \in {"refused", "open-ok"} :
               a \in AnswersOf(inbox, main) => a \in AnswersOf(inbox', main),
           Has(chan[main].req, "consume") => Has(chan'[main].req, "consume") \/ Consuming',
           Has(chan[main].req, "open") =>
               Has(chan'[main].req, "open") \/ "open-ok" \in AnswersOf(inbox', main),
           broker.bound \subseteq broker'.bound,
           \A q : <<main, q>> \in broker.consumers => <<main, q>> \in broker'.consumers,
           main \in broker'.closed => main \in broker.closed,
           Waits => Waits', pc \in {"registering", "checking"} => pc' \in {"registering", "checking"}
    PROVE  (Heard => Heard') /\ (Comes => Comes') /\ (Opens => Opens')
<1>1. /\ "refused" \in AnswersOf(inbox, main) => "refused" \in AnswersOf(inbox', main)
      /\ "open-ok" \in AnswersOf(inbox, main) => "open-ok" \in AnswersOf(inbox', main)
  OBVIOUS
<1>2. Heard => Heard'
  BY <1>1, Zenon DEF Heard
<1>3. Comes => Comes'
  <2>1. chan[main].st # "closed" => chan'[main].st # "closed"
    OBVIOUS
  <2>2. QED
    BY <1>1, <2>1, ComesStill, Zenon DEF Comes
<1>4. Opens => Opens'
  BY <1>1, Zenon DEF Opens
<1>5. QED
  BY <1>2, <1>3, <1>4

\* The two channels of an instance that has started.
LEMMA Pair ==
    ASSUME IInv, Orderly, Len(chan) # 0
    PROVE  /\ main \in 1..Len(chan) /\ chan[main].role = "main" /\ main # pub
           /\ pub # 0 => pub \in 1..Len(chan) /\ chan[pub].role = "pub"
<1>1. main \in 1..Len(chan) /\ (pub # 0 => pub \in 1..Len(chan))
  BY Parts, Started
<1>2. QED
  BY <1>1, OrderParts, TwoChannels

LEMMA RunsEither ==
    ASSUME NEW s \in Seq(Cb), NEW t \in Seq(Cb), NEW cb, Runs(t, cb)
    PROVE  Runs(s \o t, cb)
<1> DEFINE L == Len(s)
           M == Len(t)
           u == s \o t
<1>1. /\ L \in Nat /\ M \in Nat /\ Len(u) = L + M
      /\ \A i \in 1..(L + M) : u[i] = IF i <= L THEN s[i] ELSE t[i - L]
  BY ConcatProperties, LenProperties
<1> HIDE DEF u, L, M
<1>2. \A i \in 1..M : L + i \in 1..(L + M) /\ u[L + i] = t[i]
  BY <1>1
<1>3. QED
  BY <1>1, <1>2, Zenon DEF Runs, M, u

LEMMA SentHas ==
    ASSUME NEW cs \in Seq(Chan), NEW c \in 1..Len(cs), NEW op \in Ops, NEW x, Sends(x, cs[c], op), NEW op2
    PROVE  Has(cs[c].req, op2) => Has(x.req, op2)
<1>1. cs[c].req \in Seq(Ops)
  BY ElementOfSeq, ChanFields, Zenon
<1>2. Has(Append(cs[c].req, op), op2) <=> Has(cs[c].req, op2) \/ op = op2
  BY <1>1, HasAppend
<1>3. QED
  BY <1>2, Zenon DEF Sends

\* ChannelOkCb tells the truth.
LEMMA OkTold ==
    ASSUME IInv, Told, ChannelOkCb, OkTells, ~Runs(cbs, "error"), main # 0,
           Active' => Active, pc' \notin {"login", "failed"}, connOpen' = connOpen,
           inbox' = inbox, broker' = broker
    PROVE  Told'
<1>1. SUFFICES ASSUME Active, Active'
               PROVE  /\ connOpen' /\ chan'[main'].st # "closing"
                      /\ pub' # 0 /\ chan'[pub'].st \in Live
                      /\ broker'.closed \subseteq 1..Len(chan')
                      /\ ~broker'.lost => Heard' /\ Comes'
  <2>1. "closing" \notin Live
    BY DEF Live
  <2>2. QED
    BY <1>1, <2>1, Zenon DEF Told
<1>2. connOpen /\ chan[main].st # "closing" /\ broker.closed \subseteq 1..Len(chan)
  BY <1>1, Zenon DEF Told
<1>3. pub' # 0 /\ chan'[pub'].st = "connected"
  BY <1>2, Zenon DEF OkTells
<1>4. chan'[main'].st # "closing"
  BY <1>2 DEF OkTells
<1>5. broker'.closed \subseteq 1..Len(chan')
  <2>1. Len(chan) \in Nat /\ Len(chan') \in Nat /\ Len(chan) <= Len(chan')
    BY ChannelOkCbMoves, Zenon DEF Moved
  <2>2. QED
    BY <1>2, <2>1
<1>6. ASSUME ~broker'.lost PROVE Heard' /\ Comes'
  <2>1. Heard
    BY <1>1, <1>6, Zenon DEF Told
  <2>2. status'
    BY <1>2, <2>1 DEF ChannelOkCb, Heard
  <2>3. /\ main' = main /\ chan[main].st # "closed" /\ Has(chan'[main].req, "consume")
        /\ chan'[main'].st = "connected" \/ chan'[main].st = chan[main].st
    BY <1>2, <2>2, Zenon DEF OkTells
  <2>4. chan'[main'].st # "closed" /\ Has(chan'[main'].req, "consume")
    BY <2>3
  <2>5. QED
    BY <2>1, <2>3, <2>4, Zenon DEF Comes, Heard
<1>7. QED
  BY <1>2, <1>3, <1>4, <1>5, <1>6 DEF Live

LEMMA OpenOkTold ==
    ASSUME IInv, Orderly, Told, OpenOk
    PROVE  Told'
<1>1. /\ Parses("open-ok")
      /\ chan' = [chan EXCEPT ![From].st = IF @ = "connected" THEN "ready" ELSE @]
      /\ cbs' = <<[cb |-> "ready", ch |-> From]>> /\ inbox' = Tail(inbox)
      /\ main' = main /\ pub' = pub /\ broker' = broker
      /\ pc' = pc /\ connOpen' = connOpen /\ status' = status
  BY DEF OpenOk
<1>2. /\ From \in 1..Len(chan) /\ Len(chan) # 0 /\ inbox # <<>> /\ cbs = <<>>
      /\ chan \in Seq(Chan) /\ inbox \in Seq(Frame) /\ Head(inbox).ans = "open-ok"
  BY <1>1, FrameParsed, Parts, OrderParts, Zenon DEF Parses
<1>3. /\ main \in 1..Len(chan) /\ (pub # 0 => pub \in 1..Len(chan))
  BY <1>2, Pair, Zenon
<1>4. ASSUME NEW c \in 1..Len(chan)
      PROVE  /\ chan'[c].req = chan[c].req
             /\ chan'[c].st = chan[c].st \/ (chan'[c].st = "ready" /\ chan[c].st = "connected")
  <2>1. chan[c] \in Chan /\ DOMAIN chan = 1..Len(chan)
    BY <1>2, ElementOfSeq, LenProperties
  <2>2. QED
    BY <1>1, <2>1 DEF Chan
<1>5. ~Runs(cbs, "error") /\ ~Runs(cbs, "puberror")
  BY <1>2, RunsNone
<1>6. /\ "refused" \in AnswersOf(inbox, main) => "refused" \in AnswersOf(inbox', main)
      /\ From # main /\ "open-ok" \in AnswersOf(inbox, main)
            => "open-ok" \in AnswersOf(inbox', main)
  BY <1>1, <1>2, AnswersBehind, Zenon DEF From
<1>7. /\ chan'[main].st = "closing" => chan[main].st = "closing"
      /\ pub # 0 /\ chan'[pub].st = "closing" => chan[pub].st = "closing"
      /\ pub # 0 /\ chan[pub].st \in Live => chan'[pub].st \in Live
      /\ chan[main].st # "closed" => chan'[main].st # "closed"
      /\ chan[main].st = "ready" => chan'[main].st = "ready"
      /\ chan'[main].req = chan[main].req
  BY <1>3, <1>4 DEF Live
<1>8. Comes => Comes'
  BY <1>1, <1>6, <1>7, ComesStill, Zenon DEF Comes
<1>9. Heard => Heard'
  BY <1>1, <1>6, <1>7, Zenon DEF Heard
<1>10. ASSUME Active, Heard, Opens PROVE Opens'
  <2>1. CASE From = main
    <3>1. chan[main].st \in {"connected", "ready"}
      <4>1. chan[main].st \in States
        BY <1>3, Parts, ElementIsFine, ChanFields, Zenon
      <4>2. QED
        BY <1>10, <4>1 DEF Told, Heard, States
    <3>2. chan'[main].st = "ready"
      <4>1. chan[main] \in Chan /\ DOMAIN chan = 1..Len(chan)
        BY <1>2, <1>3, ElementOfSeq, LenProperties
      <4>2. QED
        BY <1>1, <1>3, <2>1, <3>1, <4>1 DEF Chan
    <3>3. Waits'
      BY <1>1, <2>1 DEF Waits
    <3>4. QED
      BY <1>1, <3>2, <3>3, Zenon DEF Opens
  <2>2. CASE From # main
    <3>1. ~Waits
      BY <1>2 DEF Waits
    <3>2. QED
      BY <1>1, <1>6, <1>7, <1>10, <2>2, <3>1, Zenon DEF Opens
  <2>3. QED
    BY <2>1, <2>2
<1>11. Len(chan') = Len(chan)
  BY <1>1, <1>2
<1>12. QED
  BY <1>1, <1>5, <1>7, <1>8, <1>9, <1>10, <1>11, ToldStill, Zenon DEF Active

\* A channel fails: m_channel or m_channelPub only when the broker refuses, and
\* the last callback of the frame tells the user.
LEMMA FailTold ==
    ASSUME IInv, Orderly, Told, NEW ans \in {"refused", "closed"}, Parses(ans),
           chan' = [chan EXCEPT ![From].st = "closed", ![From].todo = <<>>],
           inbox' = Tail(inbox), main' = main, pub' = pub, broker' = broker,
           pc' = pc, connOpen' = connOpen, status' = status,
           ans = "refused" => Runs(cbs', IF chan[From].role = "main" THEN "error" ELSE "puberror")
    PROVE  Told'
<1>1. /\ From \in 1..Len(chan) /\ Len(chan) # 0 /\ inbox # <<>> /\ cbs = <<>>
      /\ chan \in Seq(Chan) /\ inbox \in Seq(Frame) /\ Head(inbox).ans = ans /\ Head(inbox).ch = From
  BY FrameParsed, Parts, OrderParts, Zenon DEF Parses, From
<1>2. /\ main \in 1..Len(chan) /\ chan[main].role = "main" /\ main # pub
      /\ pub # 0 => pub \in 1..Len(chan) /\ chan[pub].role = "pub"
  BY <1>1, Pair, Zenon
<1>3. ASSUME NEW c \in 1..Len(chan)
      PROVE  IF c = From THEN chan'[c].st = "closed" ELSE chan'[c] = chan[c]
  <2>1. chan[c] \in Chan /\ DOMAIN chan = 1..Len(chan)
    BY <1>1, ElementOfSeq, LenProperties
  <2>2. QED
    BY <1>1, <2>1 DEF Chan
<1>4. ~Runs(cbs, "error") /\ ~Runs(cbs, "puberror")
  BY <1>1, RunsNone
<1>5. /\ chan'[main].st = "closing" => chan[main].st = "closing"
      /\ pub # 0 /\ chan'[pub].st = "closing" => chan[pub].st = "closing"
  BY <1>2, <1>3
<1>6. ASSUME Active, ans = "closed" PROVE From # main /\ (pub # 0 => From # pub)
  <2>1. Owned(chan[From], From, main, main, pub, AnswersOf(inbox, From), broker)
    BY <1>1, <1>4, OrderParts, Zenon DEF Own
  <2>2. "closed" \in AnswersOf(inbox, From)
    BY <1>1, <1>6, AnswersTail
  <2>3. chan[From].st \notin Live /\ chan[From].st # "closed"
    BY <2>1, <2>2, Zenon DEF Owned
  <2>4. chan[From].st \in States
    BY <1>1, ElementOfSeq, ChanFields, Zenon
  <2>5. chan[From].st = "closing"
    BY <2>3, <2>4 DEF Live, States
  <2>6. QED
    BY <1>6, <2>5, Zenon DEF Told
<1>7. ASSUME Active, pub # 0, chan[pub].st \in Live
      PROVE  chan'[pub].st \in Live \/ Runs(cbs', "puberror")
  <2>1. CASE From = pub
    <3>1. ans = "refused" /\ chan[From].role # "main"
      BY <1>2, <1>6, <1>7, <2>1
    <3>2. QED
      BY <3>1, Zenon
  <2>2. CASE From # pub
    BY <1>2, <1>3, <1>7, <2>2
  <2>3. QED
    BY <2>1, <2>2
<1>8. ASSUME Active, ~Runs(cbs', "error")
      PROVE  (Heard => Heard') /\ (Comes => Comes') /\ (Opens => Opens')
  <2>1. From # main
    <3>1. From = main => ans = "refused" /\ chan[From].role = "main"
      BY <1>2, <1>6, <1>8
    <3>2. QED
      BY <1>8, <3>1, Zenon
  <2>2. chan'[main] = chan[main]
    BY <1>2, <1>3, <2>1
  <2>3. \A a \in {"refused", "open-ok"} :
            a \in AnswersOf(inbox, main) => a \in AnswersOf(inbox', main)
    BY <1>1, <2>1, AnswersBehind, Zenon
  <2>4. ~Waits
    BY <1>1 DEF Waits
  <2>5. /\ chan'[main].st = chan[main].st /\ chan'[main].req = chan[main].req
        /\ broker'.bound = broker.bound /\ broker'.consumers = broker.consumers
        /\ broker'.closed = broker.closed
    BY <2>2
  <2>6. QED
    BY <2>3, <2>4, <2>5, MainStill, Zenon
<1>9. Len(chan') = Len(chan)
  BY <1>1
<1>10. QED
  BY <1>4, <1>5, <1>7, <1>8, <1>9, ToldStill, Zenon DEF Active

LEMMA RefusedTold ==
    ASSUME IInv, Orderly, Told, Refused
    PROVE  Told'
<1> DEFINE cb == IF chan[From].role = "main" THEN "error" ELSE "puberror"
           todo == chan[From].todo
           last == [cb |-> cb, ch |-> From]
<1>1. /\ Parses("refused")
      /\ chan' = [chan EXCEPT ![From].st = "closed", ![From].todo = <<>>]
      /\ cbs' = Failing(todo) \o <<last>> /\ inbox' = Tail(inbox)
      /\ main' = main /\ pub' = pub /\ broker' = broker
      /\ pc' = pc /\ connOpen' = connOpen /\ status' = status
  BY DEF Refused
<1>2. Runs(cbs', cb)
  <2>1. From \in 1..Len(chan) /\ From \in Nat
    <3>1. From \in 1..Len(chan)
      BY <1>1, FrameParsed, Zenon
    <3>2. QED
      BY <3>1
  <2>2. todo \in Seq(Todos)
    BY <2>1, Parts, ElementIsFine, ChanFields, Zenon
  <2> HIDE DEF todo
  <2>3. Failing(todo) \in Seq(Cb)
    BY <2>1, <2>2, FailingRuns
  <2>4. last \in Cb /\ last.cb = cb
    BY <2>1 DEF Cb, Calls
  <2> HIDE DEF last, cb
  <2>5. <<last>> \in Seq(Cb) /\ Runs(<<last>>, cb)
    BY <2>4, RunsOne
  <2>6. QED
    BY <1>1, <2>3, <2>5, RunsEither
<1>3. QED
  BY <1>1, <1>2, FailTold, Zenon

LEMMA ClosedTold ==
    ASSUME IInv, Orderly, Told, Closed
    PROVE  Told'
<1>1. /\ Parses("closed")
      /\ chan' = [chan EXCEPT ![From].st = "closed", ![From].todo = <<>>] /\ inbox' = Tail(inbox)
      /\ main' = main /\ pub' = pub /\ broker' = broker
      /\ pc' = pc /\ connOpen' = connOpen /\ status' = status
  BY DEF Closed
<1>2. "closed" # "refused"
  OBVIOUS
<1>3. QED
  BY <1>1, <1>2, FailTold, Zenon

LEMMA ConsumeRecvedTold ==
    ASSUME IInv, Orderly, Told, ConsumeRecvedCb
    PROVE  Told'
<1>1. /\ Parses("deliver") /\ chan' = Send(chan, main, "ack") /\ inbox' = Tail(inbox)
      /\ cbs' = cbs /\ main' = main /\ pub' = pub /\ broker' = broker
      /\ pc' = pc /\ connOpen' = connOpen /\ status' = status
  BY DEF ConsumeRecvedCb
<1>2. /\ main \in 1..Len(chan) /\ main # pub /\ (pub # 0 => pub \in 1..Len(chan))
      /\ inbox # <<>> /\ inbox \in Seq(Frame) /\ Head(inbox).ans = "deliver"
      /\ chan \in Seq(Chan)
  BY <1>1, FrameParsed, Pair, Parts, OrderParts, Zenon DEF Parses
<1>3. /\ \A d \in 1..Len(chan) : d # main => chan'[d] = chan[d]
      /\ Sends(chan'[main], chan[main], "ack")
  BY <1>1, <1>2, Words, SendMakes, Zenon
<1>4. (Heard => Heard') /\ (Comes => Comes') /\ (Opens => Opens')
  <2>1. \A a \in {"refused", "open-ok"} :
            a \in AnswersOf(inbox, main) => a \in AnswersOf(inbox', main)
    <3>1. \A a \in {"refused", "open-ok"} : Head(inbox).ans # a
      BY <1>2
    <3>2. QED
      BY <1>1, <1>2, <3>1, AnswersBehind, Zenon
  <2>2. \A op \in {"consume", "open"} : Has(chan[main].req, op) => Has(chan'[main].req, op)
    BY <1>2, <1>3, Words, SentHas, Zenon
  <2>3. /\ Has(chan[main].req, "consume") => Has(chan'[main].req, "consume")
        /\ Has(chan[main].req, "open") => Has(chan'[main].req, "open")
    BY <2>2
  <2>4. Waits => Waits'
    BY <1>1, Zenon DEF Waits
  <2>5. /\ chan'[main].st = chan[main].st /\ broker'.bound = broker.bound
        /\ broker'.consumers = broker.consumers /\ broker'.closed = broker.closed
    BY <1>1, <1>3, Zenon DEF Sends
  <2>6. QED
    BY <1>1, <2>1, <2>3, <2>4, <2>5, MainStill, Zenon
<1>5. pub # 0 => chan'[pub] = chan[pub]
  BY <1>2, <1>3, Zenon
<1>6. Len(chan') = Len(chan)
  BY <1>1, <1>2, Words, SendMakes, Zenon
<1>7. QED
  BY <1>1, <1>3, <1>4, <1>5, <1>6, ToldStill, Zenon DEF Active, Sends

LEMMA CallbackTold ==
    ASSUME IInv, Orderly, InOrder, Told, Callback
    PROVE  Told'
<1>1. /\ cbs # <<>> /\ cbs' = Tail(cbs) /\ inbox' = inbox /\ broker' = broker
      /\ pc' = pc /\ connOpen' = connOpen
      /\ CASE Head(cbs).cb = "ready" ->
                IF chan[Head(cbs).ch].ready THEN ChannelOkCb
                ELSE UNCHANGED <<chan, main, pub, status>>
           [] Head(cbs).cb = "error" -> ErrCb
           [] Head(cbs).cb = "puberror" -> PubErrCb
  BY Zenon DEF Callback
<1>2. Head(cbs) \in Cb /\ Head(cbs).ch \in 1..Len(chan)
  BY <1>1, Parts, CallbacksTail, Zenon
<1>3. Len(chan) # 0 /\ main # 0 /\ Head(cbs).cb \in Calls /\ pc \notin {"login", "failed"}
  BY <1>2, Parts, Started DEF Cb
<1>4. cbs \in Seq(Cb) /\ (Runs(cbs, "ready") => Len(cbs) = 1)
  BY <1>3, OrderParts, Zenon DEF Orderly
<1>5. \A cb : /\ Head(cbs).cb = cb => Runs(cbs, cb)
              /\ Len(cbs) = 1 /\ Runs(cbs, cb) => Head(cbs).cb = cb
  BY <1>1, <1>4, RunsTail
<1>6. CASE Head(cbs).cb = "ready"
  <2>1. ~Runs(cbs, "error") /\ ~Runs(cbs, "puberror")
    <3>1. "ready" # "error" /\ "ready" # "puberror"
      OBVIOUS
    <3>2. QED
      BY <1>4, <1>5, <1>6, <3>1, Zenon
  <2>2. IF chan[Head(cbs).ch].ready THEN ChannelOkCb ELSE UNCHANGED <<chan, main, pub, status>>
    BY <1>1, <1>6
  <2>3. CASE chan[Head(cbs).ch].ready
    <3>1. OkTells
      BY <1>3, <2>1, <2>2, <2>3, ChannelOkCbOrders, Zenon
    <3>2. (Active' => Active) /\ pc' \notin {"login", "failed"}
      BY <1>1, <1>3 DEF Active
    <3>3. QED
      BY <1>1, <1>3, <2>1, <2>2, <2>3, <3>1, <3>2, OkTold, Zenon
  <2>4. CASE ~chan[Head(cbs).ch].ready
    <3>1. chan' = chan /\ main' = main /\ pub' = pub /\ status' = status
      BY <2>2, <2>4
    <3>2. (Heard => Heard') /\ (Comes => Comes')
      BY <1>1, <3>1, ComesStill, Zenon DEF Comes, Heard
    <3>3. ASSUME ~MayReorder, Opens PROVE Opens'
      <4>1. Waits => main = 1 /\ pc \in {"registering", "checking"}
        <5>1. Waits => Head(cbs).ch = main
          <6>1. Len(cbs) = 1 /\ Head(cbs) = cbs[1]
            BY <1>1, <1>4, <1>5, <1>6
          <6>2. QED
            BY <6>1 DEF Waits
        <5>2. ~chan[main].ready => main = 1 /\ pc = "registering"
          BY <1>3, <3>3, Zenon DEF InOrder, Noticed
        <5>3. QED
          BY <2>4, <5>1, <5>2
      <4>2. QED
        BY <1>1, <3>1, <3>3, <4>1, Zenon DEF Opens
    <3>4. QED
      BY <1>1, <2>1, <3>1, <3>2, <3>3, ToldStill, Zenon DEF Active
  <2>5. QED
    BY <2>3, <2>4
<1>7. CASE Head(cbs).cb = "error"
  <2>1. ErrCb
    BY <1>1, <1>7
  <2>2. Runs(cbs, "error")
    BY <1>5, <1>7, Zenon
  <2>3. /\ ~status' /\ pub' = pub
        /\ chan'[main'].st = "connected" \/ (main' = main /\ chan' = chan)
        /\ pub # 0 => chan'[pub].st = chan[pub].st
    BY <1>3, <2>1, <2>2, ErrCbOrders, Zenon
  <2>4. "connected" # "closing" /\ "connected" # "closed"
    OBVIOUS
  <2>5. connOpen => /\ main' = Len(chan) + 1 /\ chan'[main'].req = <<"open">>
                    /\ chan'[main'].st = "connected"
    <3>1. connOpen => main' = Len(chan) + 1 /\ chan'[main'].req = <<"open">>
      BY <1>3, <2>1, <2>2, ErrCbOrders, Zenon
    <3>2. Len(chan) + 1 # main
      BY Parts
    <3>3. QED
      BY <2>3, <3>1, <3>2, Zenon
  <2>6. ASSUME Active PROVE broker'.closed \subseteq 1..Len(chan') /\ Heard' /\ Opens'
    <3>1. connOpen /\ broker.closed \subseteq 1..Len(chan)
      BY <2>6, Zenon DEF Told
    <3>2. Len(chan) \in Nat /\ Len(chan') \in Nat /\ Len(chan) <= Len(chan')
      BY <1>3, <2>1, ErrCbMoves, Zenon DEF Moved
    <3>3. broker'.closed \subseteq 1..Len(chan') /\ main' \notin broker'.closed
      BY <1>1, <2>5, <3>1, <3>2
    <3>4. Has(<<"open">>, "open")
      BY DEF Has
    <3>5. QED
      BY <2>4, <2>5, <3>1, <3>3, <3>4, Zenon DEF Heard, Opens
  <2>7. QED
    BY <1>1, <1>3, <2>3, <2>4, <2>6, Zenon DEF Told, Active
<1>8. CASE Head(cbs).cb = "puberror"
  <2>1. chan' = chan /\ main' = main /\ pub' = pub /\ ~status'
    BY <1>1, <1>8 DEF PubErrCb
  <2>2. "puberror" # "error" /\ "puberror" # "ready"
    OBVIOUS
  <2>3. Runs(cbs, "error") => Runs(cbs', "error")
    BY <1>1, <1>4, <1>8, <2>2, RunsTail, Zenon
  <2>4. ~Waits
    <3>1. ~Runs(cbs, "ready")
      BY <1>4, <1>5, <1>8, <2>2, Zenon
    <3>2. QED
      BY <3>1, Zenon DEF Waits, Runs
  <2>5. (Heard => Heard') /\ (Comes => Comes') /\ (Opens => Opens')
    BY <1>1, <2>1, <2>4, ComesStill, Zenon DEF Comes, Heard, Opens
  <2>6. QED
    BY <1>1, <1>3, <2>1, <2>3, <2>5, Zenon DEF Told, Active
<1>9. QED
  BY <1>3, <1>6, <1>7, <1>8 DEF Calls

-----------------------------------------------------------------------------
(* What the user's thread and the broker change of it *)

LEMMA CreatesTold ==
    ASSUME IInv, Told, StartCreatesChannel
    PROVE  Told'
<1>1. /\ pc = "login" /\ pc' = "registering" /\ main' = Len(chan) + 1
      /\ chan' = Open(chan, "main", FALSE)
      /\ pub' = pub /\ status' = status /\ connOpen' = connOpen
  BY DEF StartCreatesChannel, UserOnly
<1>2. /\ connOpen /\ ~status /\ Len(chan) = 0 /\ pub = 0 /\ chan \in Seq(Chan)
      /\ broker'.closed = {}
  <2>1. Len(chan) = 0 /\ pub \in 0..0
    BY <1>1, ControlNow, Parts
  <2>2. QED
    BY <1>1, <2>1, Parts DEF Told, StartCreatesChannel, UserOnly
<1>3. chan'[main'].st = "connected" /\ Has(chan'[main'].req, "open")
  <2>1. FALSE \in BOOLEAN /\ "main" \in Roles
    BY Words
  <2>2. Opened(chan'[Len(chan) + 1], "main")
    BY <1>1, <1>2, <2>1, OpenMakes, Zenon
  <2>3. Has(<<"open">>, "open")
    BY DEF Has
  <2>4. QED
    BY <1>1, <2>2, <2>3, Zenon DEF Opened
<1>4. Heard' /\ Opens'
  BY <1>2, <1>3 DEF Heard, Opens
<1>5. QED
  BY <1>1, <1>2, <1>3, <1>4 DEF Told

LEMMA StoresTold ==
    ASSUME IInv, InOrder, Told, StoresCallback \/ StoresLate
    PROVE  Told'
<1>1. /\ pc \in {"registering", "storing"} /\ pc' \in {"checking", "started"}
      /\ pc # "storing" => pc' = "checking"
      /\ chan' = [chan EXCEPT ![1].ready = TRUE]
      /\ cbs' = cbs /\ inbox' = inbox /\ broker' = broker /\ main' = main /\ pub' = pub
      /\ status' = status /\ connOpen' = connOpen
  BY DEF StoresCallback, StoresLate, UserOnly
<1>2. /\ main \in 1..Len(chan) /\ (pub # 0 => pub \in 1..Len(chan)) /\ chan \in Seq(Chan)
  <2>1. main # 0
    BY <1>1, ControlNow
  <2>2. QED
    BY <2>1, Parts
<1>3. \A c \in 1..Len(chan) : chan'[c].st = chan[c].st /\ chan'[c].req = chan[c].req
  <2> SUFFICES ASSUME NEW c \in 1..Len(chan)
               PROVE  chan'[c].st = chan[c].st /\ chan'[c].req = chan[c].req
    OBVIOUS
  <2>1. chan[c] \in Chan /\ DOMAIN chan = 1..Len(chan)
    BY <1>2, ElementOfSeq, LenProperties
  <2>2. QED
    BY <1>1, <2>1 DEF Chan
<1>4. (Heard => Heard') /\ (Comes => Comes')
  BY <1>1, <1>2, <1>3, ComesStill, Zenon DEF Comes, Heard
<1>5. Active /\ pc' \notin {"login", "failed"}
  BY <1>1 DEF Active
<1>6. ASSUME ~MayReorder, Opens PROVE Opens'
  <2>1. pc' = "checking"
    BY <1>1, <1>6 DEF InOrder, Noticed
  <2>2. Waits => Waits'
    BY <1>1, Zenon DEF Waits
  <2>3. pc' \in {"registering", "checking"}
    BY <2>1
  <2>4. QED
    BY <1>1, <1>2, <1>3, <1>6, <2>2, <2>3, Zenon DEF Opens
<1>7. Len(chan') = Len(chan)
  BY <1>1, <1>2
<1>8. QED
  BY <1>1, <1>2, <1>3, <1>4, <1>5, <1>6, <1>7, ToldStill, Zenon

LEMMA ChecksTold ==
    ASSUME IInv, Orderly, Told, ChecksReady \/ ChecksEarly
    PROVE  Told'
<1>1. /\ pc \in {"registering", "checking"} /\ pc' \in {"started", "storing"}
      /\ cbs' = cbs /\ inbox' = inbox /\ broker' = broker /\ connOpen' = connOpen
  BY DEF ChecksReady, ChecksEarly, UserOnly
<1>2. IF chan[1].st = "ready" THEN ChannelOkCb ELSE UNCHANGED <<chan, main, pub, status>>
  BY Zenon DEF ChecksReady, ChecksEarly
<1>3. main # 0 /\ Active /\ Active' /\ pc' \notin {"login", "failed"}
  BY <1>1, ControlNow DEF Active
<1>4. CASE chan[1].st = "ready"
  <2>1. ~Runs(cbs, "error")
    BY <1>4 DEF Orderly, Live
  <2>2. OkTells
    BY <1>2, <1>3, <1>4, <2>1, ChannelOkCbOrders, Zenon
  <2>3. QED
    BY <1>1, <1>2, <1>3, <1>4, <2>1, <2>2, OkTold, Zenon
<1>5. CASE chan[1].st # "ready"
  <2>1. chan' = chan /\ main' = main /\ pub' = pub /\ status' = status
    BY <1>2, <1>5
  <2>2. (Heard => Heard') /\ (Comes => Comes') /\ (Opens => Opens')
    <3>1. Waits => Waits'
      BY <1>1, <2>1, Zenon DEF Waits
    <3>2. ~(chan[main].st = "ready" /\ main = 1)
      BY <1>5
    <3>3. QED
      BY <1>1, <2>1, <3>1, <3>2, ComesStill, Zenon DEF Comes, Heard, Opens
  <2>3. QED
    BY <1>1, <1>3, <2>1, <2>2, ToldStill, Zenon
<1>6. QED
  BY <1>4, <1>5

LEMMA PublishTold ==
    ASSUME IInv, Orderly, Told, PublishMsg
    PROVE  Told'
<1>1. /\ pc = "started"
      /\ IF pub = 0 THEN pc' = "crashed" ELSE pc' = pc /\ chan' = Send(chan, pub, "publish")
      /\ cbs' = cbs /\ inbox' = inbox /\ broker' = broker /\ main' = main /\ pub' = pub
      /\ status' = status /\ connOpen' = connOpen
  BY DEF PublishMsg, UserOnly
<1>2. CASE pub = 0
  BY <1>1, <1>2 DEF Told, Active
<1>3. CASE pub # 0
  <2>1. /\ main \in 1..Len(chan) /\ main # pub /\ pub \in 1..Len(chan) /\ chan \in Seq(Chan)
    <3>1. pub \in 1..Len(chan) /\ Len(chan) # 0 /\ chan \in Seq(Chan)
      BY <1>3, Parts
    <3>2. QED
      BY <3>1, Pair, Zenon
  <2>2. /\ \A d \in 1..Len(chan) : d # pub => chan'[d] = chan[d]
        /\ Sends(chan'[pub], chan[pub], "publish")
    <3>1. chan' = Send(chan, pub, "publish")
      BY <1>1, <1>3
    <3>2. QED
      BY <2>1, <3>1, Words, SendMakes, Zenon
  <2>3. chan'[main] = chan[main] /\ chan'[pub].st = chan[pub].st
    BY <2>1, <2>2, Zenon DEF Sends
  <2>4. (Heard => Heard') /\ (Comes => Comes') /\ (Opens => Opens')
    <3>1. (Waits => Waits') /\ pc' = pc
      BY <1>1, <1>3, Zenon DEF Waits
    <3>2. QED
      BY <1>1, <2>3, <3>1, ComesStill, Zenon DEF Comes, Heard, Opens
  <2>5. Len(chan') = Len(chan)
    BY <1>1, <1>3, <2>1, Words, SendMakes
  <2>6. QED
    BY <1>1, <1>3, <2>3, <2>4, <2>5, ToldStill, Zenon DEF Active
<1>4. QED
  BY <1>2, <1>3

LEMMA ReleaseTold ==
    ASSUME Told, Releases
    PROVE  Told'
<1>1. pc' \in {"releasing", "closing", "stopped", "crashed"} \/ (pc = "closing" /\ pc' = pc)
  BY DEF Releases, ReleaseMain, ReleasePub, ReleaseConnection, ReleaseFinit
<1>2. ~Active' /\ pc' \notin {"login", "failed"}
  BY <1>1 DEF Active
<1>3. QED
  BY <1>2, Zenon DEF Told

LEMMA WaitTold ==
    ASSUME Told, WaitTimesOut
    PROVE  Told'
<1>1. /\ pc = "login" /\ pc' = "failed" /\ connOpen' = connOpen /\ status' = status
      /\ broker' = broker
  BY DEF WaitTimesOut, UserOnly
<1>2. QED
  BY <1>1 DEF Told, Active

\* A step of the broker, for channel c.
LEMMA BrokerTold ==
    ASSUME IInv, Orderly, Told, NEW c \in 1..Len(chan), Lessens(c),
           pc' = pc, status' = status, connOpen' = connOpen, main' = main, pub' = pub, cbs' = cbs,
           ~broker'.lost => ~broker.lost, broker'.closed \subseteq broker.closed \cup {c},
           Active /\ Heard => Heard' /\ (Comes => Comes') /\ (Opens => Comes' \/ Opens')
    PROVE  Told'
<1>1. /\ Len(chan') = Len(chan)
      /\ \A x \in 1..Len(chan) : chan'[x].st = chan[x].st
  BY Zenon DEF Lessens
<1>2. Len(chan) # 0
  BY Parts
<1>3. main \in 1..Len(chan) /\ (pub # 0 => pub \in 1..Len(chan)) /\ pc \notin {"login", "failed"}
  BY <1>2, Pair, Started, Zenon
<1>4. chan'[main].st = chan[main].st /\ (pub # 0 => chan'[pub].st = chan[pub].st)
  BY <1>1, <1>3, Zenon
<1>5. broker.closed \subseteq 1..Len(chan) => broker'.closed \subseteq 1..Len(chan')
  BY <1>1
<1>6. QED
  BY <1>3, <1>4, <1>5, ToldStill, Zenon DEF Active

\* The broker sends a frame, or none.
LEMMA AnswersGrow ==
    ASSUME IInv, inbox' = inbox \/ \E f \in Frame : inbox' = Append(inbox, f)
    PROVE  \A c, a : a \in AnswersOf(inbox, c) => a \in AnswersOf(inbox', c)
<1>1. inbox \in Seq(Frame)
  BY Parts DEF Frames
<1>2. CASE inbox' = inbox
  BY <1>2, Zenon
<1>3. ASSUME NEW f \in Frame, inbox' = Append(inbox, f)
      PROVE  \A c, a : a \in AnswersOf(inbox, c) => a \in AnswersOf(inbox', c)
  <2> DEFINE t == Append(inbox, f)
  <2>1. \A c, a : a \in AnswersOf(inbox, c) => a \in AnswersOf(t, c)
    BY <1>1, AnswersAppend
  <2> HIDE DEF t
  <2>2. inbox' = t
    BY <1>3 DEF t
  <2>3. QED
    BY <2>1, <2>2, Zenon
<1>4. QED
  BY <1>2, <1>3, Zenon

\* What it does for other channels leaves m_channel alone.
LEMMA Aside ==
    ASSUME IInv, NEW c, Lessens(c), main' = main, main \in 1..Len(chan), c # main,
           pc' = pc, cbs' = cbs, broker'.closed \subseteq broker.closed \cup {c},
           inbox' = inbox \/ \E f \in Frame : inbox' = Append(inbox, f),
           broker.bound \subseteq broker'.bound,
           \A x \in broker.consumers : x[1] # c => x \in broker'.consumers
    PROVE  (Heard => Heard') /\ (Comes => Comes') /\ (Opens => Opens')
<1>1. chan'[main] = chan[main]
  BY Zenon DEF Lessens
<1>2. \A a \in {"refused", "open-ok"} :
          a \in AnswersOf(inbox, main) => a \in AnswersOf(inbox', main)
  BY AnswersGrow, Zenon
<1>3. \A q : <<main, q>> \in broker.consumers => <<main, q>> \in broker'.consumers
  BY Zenon
<1>4. chan'[main].st = chan[main].st /\ chan'[main].req = chan[main].req
  BY <1>1
<1>5. main \in broker'.closed => main \in broker.closed
  OBVIOUS
<1>6. Waits => Waits'
  BY Zenon DEF Waits
<1>7. QED
  BY <1>2, <1>3, <1>4, <1>5, <1>6, MainStill, Zenon

\* Nothing is undone for channel c or any other: only its first request is gone.
LEMMA ServedTold ==
    ASSUME IInv, Orderly, Told, NEW c \in DOMAIN chan, Serves(c), Lessens(c),
           chan'[c].req = Tail(chan[c].req),
           Head(chan[c].req) = "consume" /\ c = main => Consuming',
           Head(chan[c].req) = "open" => "open-ok" \in AnswersOf(inbox', c),
           inbox' = inbox \/ \E f \in Frame : inbox' = Append(inbox, f),
           NEW d, broker' = d, d.lost = broker.lost, d.closed = broker.closed,
           broker.bound \subseteq d.bound, broker.consumers \subseteq d.consumers
    PROVE  Told'
<1>1. /\ c \in 1..Len(chan) /\ pc' = pc /\ main' = main /\ pub' = pub /\ connOpen' = connOpen
      /\ status' = status /\ cbs' = cbs
  BY ServedChannel, Zenon
<1>2. main \in 1..Len(chan)
  BY <1>1, Pair, Parts
<1>3. (Heard => Heard') /\ (Comes => Comes') /\ (Opens => Opens')
  <2>1. CASE c # main
    <3>1. broker'.closed \subseteq broker.closed \cup {c}
      OBVIOUS
    <3>2. QED
      BY <1>1, <1>2, <2>1, <3>1, Aside, Zenon
  <2>2. CASE c = main
    <3>1. \A a \in {"refused", "open-ok"} :
              a \in AnswersOf(inbox, main) => a \in AnswersOf(inbox', main)
      BY AnswersGrow, Zenon
    <3>2. \A op : Has(chan[c].req, op) => Has(chan'[c].req, op) \/ Head(chan[c].req) = op
      <4>1. chan[c].req \in Seq(Ops) /\ chan[c].req # <<>>
        BY ServedChannel, Zenon
      <4>2. QED
        BY <4>1, HasTail
    <3>3. /\ Has(chan[main].req, "consume") => Has(chan'[main].req, "consume") \/ Consuming'
          /\ Has(chan[main].req, "open") =>
                Has(chan'[main].req, "open") \/ "open-ok" \in AnswersOf(inbox', main)
      BY <2>2, <3>2, Zenon
    <3>4. chan'[main].st = chan[main].st
      BY <2>2, Zenon DEF Lessens
    <3>5. Waits => Waits'
      BY <1>1, Zenon DEF Waits
    <3>6. /\ \A q : <<main, q>> \in broker.consumers => <<main, q>> \in broker'.consumers
          /\ main \in broker'.closed => main \in broker.closed
          /\ broker.bound \subseteq broker'.bound
      OBVIOUS
    <3>7. QED
      BY <1>1, <3>1, <3>3, <3>4, <3>5, <3>6, MainStill, Zenon
  <2>3. QED
    BY <2>1, <2>2
<1>4. (~broker'.lost => ~broker.lost) /\ broker'.closed \subseteq broker.closed \cup {c}
  OBVIOUS
<1>5. QED
  BY <1>1, <1>3, <1>4, BrokerTold, Zenon

LEMMA RefuseTold ==
    ASSUME IInv, Orderly, Told, NEW c \in DOMAIN chan, Refuse(c)
    PROVE  Told'
<1> DEFINE d == [Drop(c) EXCEPT !.refusals = @ + 1]
           f == [ch |-> c, ans |-> "refused"]
<1>1. /\ Serves(c) /\ chan' = [chan EXCEPT ![c].req = <<>>]
      /\ inbox' = Append(inbox, f) /\ broker' = d
  BY DEF Refuse, Answers
<1>2. /\ c \in 1..Len(chan) /\ c \in Nat /\ pc' = pc /\ main' = main /\ pub' = pub
      /\ connOpen' = connOpen /\ status' = status /\ cbs' = cbs
  BY <1>1, ServedChannel, Zenon
<1>3. /\ d.consumers = {x \in broker.consumers : x[1] # c}
      /\ d.bound = broker.bound /\ d.lost = broker.lost /\ d.closed = broker.closed \cup {c}
  BY Parts DEF Serving, Drop, BrokerFields
<1> HIDE DEF d
<1>4. Lessens(c)
  BY <1>1, ForgetsLessens, Zenon
<1>5. f \in Frame /\ f.ch = c /\ f.ans = "refused"
  BY <1>2 DEF Frame, Answer
<1> HIDE DEF f
<1>6. main \in 1..Len(chan)
  BY <1>2, Pair, Parts
<1>7. ASSUME Heard PROVE Heard' /\ (Comes => Comes') /\ (Opens => Comes' \/ Opens')
  <2>1. CASE c = main
    <3>1. inbox \in Seq(Frame)
      BY Parts DEF Frames
    <3>2. "refused" \in AnswersOf(Append(inbox, f), c)
      BY <1>5, <3>1, AnswersAppend
    <3>3. chan'[main].st # "closed"
      BY <1>4, <1>7, <2>1 DEF Heard, Lessens
    <3>4. QED
      BY <1>1, <1>2, <2>1, <3>2, <3>3, Zenon DEF Comes, Heard
  <2>2. CASE c # main
    <3>1. /\ broker.bound \subseteq broker'.bound
          /\ broker'.closed \subseteq broker.closed \cup {c}
          /\ \A x \in broker.consumers : x[1] # c => x \in broker'.consumers
      BY <1>1, <1>3
    <3>2. QED
      BY <1>1, <1>2, <1>4, <1>5, <1>6, <1>7, <2>2, <3>1, Aside, Zenon
  <2>3. QED
    BY <2>1, <2>2
<1>8. (~broker'.lost => ~broker.lost) /\ broker'.closed \subseteq broker.closed \cup {c}
  BY <1>1, <1>3
<1>9. QED
  BY <1>2, <1>4, <1>7, <1>8, BrokerTold, Zenon

\* The queue is bound when it is consumed.
LEMMA ConsumesBound ==
    ASSUME IInv, Orderly, NEW c \in DOMAIN chan, Serves(c), Head(chan[c].req) = "consume"
    PROVE  QueueOf(c) \in broker.bound
<1>1. c \in 1..Len(chan) /\ chan[c].req \in Seq(Ops) /\ chan[c].req # <<>>
  BY ServedChannel, Zenon
<1>2. Binds(chan[c].req, c, broker)
  BY <1>1, OrderParts, Zenon DEF Own, Owned
<1>3. 1 \in 1..Len(chan[c].req) /\ chan[c].req[1] = "consume"
  BY <1>1, SequenceTail
<1>4. QueueFor(broker, c) \in broker.bound
  BY <1>2, <1>3, Zenon DEF Binds
<1>5. QED
  BY <1>4 DEF QueueFor, QueueOf

LEMMA ServeTold ==
    ASSUME IInv, Orderly, Told, NEW c \in DOMAIN chan, Serve(c)
    PROVE  Told'
<1> DEFINE op == Head(chan[c].req)
           f == [ch |-> c, ans |-> "open-ok"]
<1>1. /\ Serves(c) /\ op \in SetupOps \cup {"open"}
      /\ IF op = "open" THEN Takes(c) /\ Answers(c, "open-ok") ELSE Succeeds(c)
  BY Zenon DEF Serve, Accept
<1>2. broker' =
         CASE op = "exchange" -> [broker EXCEPT !.exchange = TRUE]
           [] op = "queue" ->
                IF ServerNamed \/ broker.queues = <<>>
                THEN [broker EXCEPT !.queues = Append(@, <<>>),
                                    !.last = [x \in DOMAIN @ \cup {c} |->
                                                IF x = c THEN Len(broker.queues) + 1 ELSE @[x]]]
                ELSE broker
           [] op = "bind" -> [broker EXCEPT !.bound = @ \cup {QueueOf(c)}]
           [] op = "consume" -> [broker EXCEPT !.consumers = @ \cup {<<c, QueueOf(c)>>}]
           [] OTHER -> broker
  BY Zenon DEF Serve, Accept
<1>3. Lessens(c) /\ chan'[c].req = Tail(chan[c].req)
  <2>1. CASE op = "open"
    BY <1>1, <2>1, TakesLessens, Zenon
  <2>2. CASE op # "open"
    BY <1>1, <2>2, SucceedsLessens, Zenon
  <2>3. QED
    BY <2>1, <2>2
<1>4. /\ inbox' = inbox \/ \E g \in Frame : inbox' = Append(inbox, g)
      /\ op = "open" => "open-ok" \in AnswersOf(inbox', c)
  <2>1. f \in Frame /\ f.ch = c /\ f.ans = "open-ok"
    BY <1>1, ServedChannel DEF Frame, Answer
  <2>2. inbox' = inbox \/ inbox' = Append(inbox, f)
    BY <1>1 DEF Answers, Succeeds
  <2>3. op = "open" => inbox' = Append(inbox, f)
    BY <1>1 DEF Answers
  <2> HIDE DEF f
  <2>4. "open-ok" \in AnswersOf(Append(inbox, f), c)
    <3>1. inbox \in Seq(Frame)
      BY Parts DEF Frames
    <3>2. QED
      BY <2>1, <3>1, AnswersAppend
  <2>5. QED
    BY <2>1, <2>2, <2>3, <2>4, Zenon
<1>5. CASE op = "consume"
  <2> DEFINE d == [broker EXCEPT !.consumers = @ \cup {<<c, QueueOf(c)>>}]
  <2>1. broker' = d
    BY <1>2, <1>5
  <2>2. /\ d.bound = broker.bound /\ d.lost = broker.lost /\ d.closed = broker.closed
        /\ d.consumers = broker.consumers \cup {<<c, QueueOf(c)>>}
    BY Parts DEF Serving, BrokerFields
  <2> HIDE DEF d
  <2>3. QueueOf(c) \in broker.bound
    BY <1>1, <1>5, ConsumesBound, Zenon
  <2>4. c = main => Consuming'
    <3>1. main' = main
      BY <1>1, ServedChannel, Zenon
    <3>2. QED
      BY <2>1, <2>2, <2>3, <3>1 DEF Consuming
  <2>5. broker.bound \subseteq d.bound /\ broker.consumers \subseteq d.consumers
    BY <2>2
  <2>6. QED
    BY <1>1, <1>3, <1>4, <2>1, <2>2, <2>4, <2>5, ServedTold, Zenon
<1>6. CASE op # "consume"
  <2> DEFINE d == broker'
  <2>1. /\ d.lost = broker.lost /\ d.closed = broker.closed
        /\ broker.bound \subseteq d.bound /\ broker.consumers \subseteq d.consumers
    <3>1. CASE op = "exchange"
      BY <1>2, <3>1, Parts DEF Serving, BrokerFields
    <3>2. CASE op = "queue" /\ (ServerNamed \/ broker.queues = <<>>)
      <4> DEFINE last == [x \in DOMAIN broker.last \cup {c} |->
                             IF x = c THEN Len(broker.queues) + 1 ELSE broker.last[x]]
                 qs == Append(broker.queues, <<>>)
      <4>1. broker' = [broker EXCEPT !.queues = qs, !.last = last]
        BY <1>2, <3>2
      <4> HIDE DEF last, qs
      <4>2. QED
        BY <4>1, Parts DEF Serving, BrokerFields
    <3>3. CASE op = "queue" /\ ~(ServerNamed \/ broker.queues = <<>>)
      BY <1>2, <3>3
    <3>4. CASE op = "bind"
      BY <1>2, <3>4, Parts DEF Serving, BrokerFields
    <3>5. CASE op = "open"
      BY <1>2, <3>5
    <3>6. QED
      BY <1>1, <1>6, <3>1, <3>2, <3>3, <3>4, <3>5 DEF SetupOps
  <2> HIDE DEF d
  <2>2. broker' = d
    BY DEF d
  <2>3. QED
    BY <1>1, <1>3, <1>4, <1>6, <2>1, <2>2, ServedTold, Zenon
<1>7. QED
  BY <1>5, <1>6

LEMMA TakeAckTold ==
    ASSUME IInv, Orderly, Told, NEW c \in DOMAIN chan, TakeAck(c)
    PROVE  Told'
<1>1. Serves(c) /\ Head(chan[c].req) = "ack" /\ Takes(c) /\ inbox' = inbox /\ broker' = broker
  BY DEF TakeAck
<1>2. /\ Lessens(c) /\ chan'[c].req = Tail(chan[c].req)
      /\ Head(chan[c].req) # "consume" /\ Head(chan[c].req) # "open"
  BY <1>1, TakesLessens
<1>3. QED
  BY <1>1, <1>2, ServedTold

\* A message is published on m_channelPub, and only that channel is closed when
\* it cannot be.
LEMMA RouteTold ==
    ASSUME IInv, Orderly, Told, NEW c \in DOMAIN chan, Route(c)
    PROVE  Told'
<1> DEFINE f == [ch |-> c, ans |-> "refused"]
<1>1. /\ Serves(c) /\ Head(chan[c].req) = "publish"
      /\ Lessens(c)
      /\ inbox' = inbox \/ inbox' = Append(inbox, f)
  BY TakesLessens, ForgetsLessens DEF Route, Answers
<1>2. /\ c \in 1..Len(chan) /\ c \in Nat /\ chan[c].role # "main" /\ pc' = pc
      /\ main' = main /\ pub' = pub /\ connOpen' = connOpen /\ status' = status /\ cbs' = cbs
  BY <1>1, HeadTells, ServedChannel, Zenon
<1>3. main \in 1..Len(chan) /\ c # main
  BY <1>2, Pair, Parts
<1>4. inbox' = inbox \/ \E g \in Frame : inbox' = Append(inbox, g)
  <2>1. f \in Frame
    BY <1>2 DEF Frame, Answer
  <2> HIDE DEF f
  <2>2. QED
    BY <1>1, <2>1, Zenon
<1>5. /\ broker'.lost = broker.lost /\ broker.bound \subseteq broker'.bound
      /\ broker'.closed \subseteq broker.closed \cup {c}
      /\ \A x \in broker.consumers : x[1] # c => x \in broker'.consumers
  <2>1. CASE broker.exchange
    <3> DEFINE qs == [q \in DOMAIN broker.queues |-> IF q \in broker.bound
                                                     THEN Append(broker.queues[q], broker.routed + 1)
                                                     ELSE broker.queues[q]]
               n == broker.routed + 1
    <3>1. broker' = [broker EXCEPT !.routed = n, !.queues = qs]
      BY <2>1 DEF Route
    <3> HIDE DEF qs, n
    <3>2. QED
      BY <3>1, Parts DEF Serving, BrokerFields
  <2>2. CASE ~broker.exchange
    <3>1. broker' = Drop(c)
      BY <2>2 DEF Route
    <3>2. QED
      BY <3>1, Parts DEF Serving, BrokerFields, Drop
  <2>3. QED
    BY <2>1, <2>2
<1>6. (Heard => Heard') /\ (Comes => Comes') /\ (Opens => Opens')
  BY <1>1, <1>2, <1>3, <1>4, <1>5, Aside, Zenon
<1>7. QED
  BY <1>1, <1>2, <1>5, <1>6, BrokerTold, Zenon

\* m_channel is closed to release the instance, or after it was replaced.
LEMMA CloseChannelTold ==
    ASSUME IInv, Orderly, Told, NEW c \in DOMAIN chan, CloseChannel(c)
    PROVE  Told'
<1> DEFINE f == [ch |-> c, ans |-> "closed"]
           d == Drop(c)
<1>1. /\ Serves(c) /\ Head(chan[c].req) = "close" /\ Takes(c)
      /\ inbox' = Append(inbox, f) /\ broker' = d
  BY DEF CloseChannel, Answers
<1>2. /\ c \in 1..Len(chan) /\ c \in Nat /\ chan[c].st \notin Live /\ pc' = pc
      /\ main' = main /\ pub' = pub /\ connOpen' = connOpen /\ status' = status /\ cbs' = cbs
  BY <1>1, HeadTells, ServedChannel, Zenon
<1>3. Lessens(c) /\ main \in 1..Len(chan)
  BY <1>1, <1>2, TakesLessens, Pair, Parts
<1>4. f \in Frame
  BY <1>2 DEF Frame, Answer
<1> HIDE DEF f
<1>5. /\ d.lost = broker.lost /\ d.bound = broker.bound
      /\ d.closed \subseteq broker.closed \cup {c}
      /\ d.consumers = {x \in broker.consumers : x[1] # c}
  BY Parts DEF Serving, BrokerFields, Drop
<1> HIDE DEF d
<1>6. ASSUME Active, Heard PROVE Heard' /\ (Comes => Comes') /\ (Opens => Opens')
  <2>1. chan[main].st # "closing" /\ chan[main].st # "closed" /\ chan[main].st \in States
    <3>1. chan[main].st \in States
      BY <1>3, Parts, ElementIsFine, ChanFields, Zenon
    <3>2. QED
      BY <1>6, <3>1 DEF Told, Heard
  <2>2. c # main
    BY <1>2, <2>1 DEF Live, States
  <2>3. /\ broker.bound \subseteq broker'.bound
        /\ broker'.closed \subseteq broker.closed \cup {c}
        /\ \A x \in broker.consumers : x[1] # c => x \in broker'.consumers
    BY <1>1, <1>5
  <2>4. inbox' = inbox \/ \E g \in Frame : inbox' = Append(inbox, g)
    BY <1>1, <1>4, Zenon
  <2>5. QED
    BY <1>2, <1>3, <1>6, <2>2, <2>3, <2>4, Aside, Zenon
<1>7. (~broker'.lost => ~broker.lost) /\ broker'.closed \subseteq broker.closed \cup {c}
  BY <1>1, <1>5
<1>8. QED
  BY <1>2, <1>3, <1>6, <1>7, BrokerTold, Zenon

LEMMA DeliverTold ==
    ASSUME IInv, Orderly, Told, NEW x \in broker.consumers, Deliver(x[1], x[2])
    PROVE  Told'
<1> DEFINE c == x[1]
           q == x[2]
           qs == [broker.queues EXCEPT ![q] = Tail(@)]
           f == [ch |-> c, ans |-> "deliver", msg |-> Head(broker.queues[q])]
<1>1. /\ broker.queues[q] # <<>> /\ inbox' = Append(inbox, f)
      /\ broker' = [broker EXCEPT !.queues[q] = Tail(@)]
      /\ chan' = chan /\ main' = main /\ pub' = pub /\ cbs' = cbs
      /\ pc' = pc /\ connOpen' = connOpen /\ status' = status
  BY DEF Deliver
<1>2. /\ c \in 1..Len(chan) /\ c \in Nat
      /\ q \in 1..Len(broker.queues) /\ broker.routed \in Nat
      /\ broker.queues \in Seq(Seq(1..broker.routed))
  <2>1. /\ c \in 1..Len(chan) /\ q \in 1..Len(broker.queues) /\ broker.routed \in Nat
        /\ broker.queues \in Seq(Seq(1..broker.routed))
    BY Parts, Zenon DEF Serving
  <2>2. QED
    BY <2>1, Parts
<1>3. f \in Frame
  <2>1. broker.queues[q] \in Seq(1..broker.routed)
    BY <1>2, ElementOfSeq, Zenon
  <2>2. Head(broker.queues[q]) \in 1..broker.routed
    BY <1>1, <2>1, SequenceTail, Zenon
  <2>3. Head(broker.queues[q]) \in Nat
    BY <1>2, <2>2
  <2>4. QED
    BY <1>2, <2>3 DEF Frame
<1>4. /\ broker'.lost = broker.lost /\ broker'.bound = broker.bound
      /\ broker'.consumers = broker.consumers /\ broker'.closed = broker.closed
  <2>1. broker' = [broker EXCEPT !.queues = qs]
    BY <1>1
  <2> HIDE DEF qs
  <2>2. QED
    BY <2>1, Parts DEF Serving, BrokerFields
<1> HIDE DEF f, c, q
<1>5. (Heard => Heard') /\ (Comes => Comes') /\ (Opens => Opens')
  <2>1. \A a \in {"refused", "open-ok"} :
            a \in AnswersOf(inbox, main) => a \in AnswersOf(inbox', main)
    BY <1>1, <1>3, AnswersGrow, Zenon
  <2>2. Waits => Waits'
    BY <1>1, Zenon DEF Waits
  <2>3. QED
    BY <1>1, <1>4, <2>1, <2>2, MainStill, Zenon
<1>6. QED
  BY <1>1, <1>4, <1>5, ToldStill, Zenon DEF Active

LEMMA LinkLostTold ==
    ASSUME IInv, Told, LinkLost
    PROVE  Told'
<1>1. /\ chan' = chan /\ main' = main /\ pub' = pub /\ cbs' = cbs
      /\ pc' = pc /\ connOpen' = connOpen /\ status' = status
  BY DEF LinkLost
<1>2. broker'.lost /\ broker'.closed = broker.closed
  BY Parts DEF LinkLost, Serving, BrokerFields
<1>3. QED
  BY <1>1, <1>2, Zenon DEF Told, Active

LEMMA NextTold == IInv /\ Orderly /\ InOrder /\ Told /\ [Next]_vars => Told'
<1> SUFFICES ASSUME IInv, Orderly, InOrder, Told, [Next]_vars PROVE Told'
  OBVIOUS
<1>1. CASE Worker
  BY <1>1, OpenOkTold, RefusedTold, ClosedTold, ConsumeRecvedTold, CallbackTold, Zenon DEF Worker
<1>2. CASE User
  BY <1>2, WaitTold, CreatesTold, StoresTold, ChecksTold, PublishTold, ReleaseTold, Zenon
     DEF User, Starts
<1>3. CASE Broker
  BY <1>3, ServeTold, RefuseTold, RouteTold, TakeAckTold, CloseChannelTold, DeliverTold, Zenon
     DEF Broker
<1>4. CASE LinkLost
  BY <1>4, LinkLostTold
<1>5. CASE LoginOk \/ UNCHANGED vars
  <2>1. /\ chan' = chan /\ main' = main /\ pub' = pub /\ cbs' = cbs /\ inbox' = inbox
        /\ broker' = broker /\ pc' = pc /\ connOpen' = connOpen /\ status' = status
    BY <1>5 DEF LoginOk, vars
  <2>2. (Heard => Heard') /\ (Comes => Comes') /\ (Opens => Opens')
    <3>1. Waits => Waits'
      BY <2>1, Zenon DEF Waits
    <3>2. QED
      BY <2>1, <3>1, MainStill, Zenon
  <2>3. QED
    BY <2>1, <2>2, ToldStill, Zenon DEF Active
<1>6. QED
  BY <1>1, <1>2, <1>3, <1>4, <1>5, Zenon DEF Next

LEMMA InitTold == Init => Told
BY DEF Init, Told, Active

\* Once nothing is under way.
LEMMA AllQuiet ==
    ASSUME IInv, Told, pc = "started", Quiet, ~broker.lost
    PROVE  /\ ~Runs(cbs, "puberror") /\ (pub # 0 /\ status => chan[pub].st \in Live)
           /\ Consuming \/ (MayReorder /\ ~status)
<1>1. /\ Active /\ cbs = <<>> /\ inbox = <<>> /\ main \in 1..Len(chan) /\ DOMAIN chan = 1..Len(chan)
  BY ControlNow, Parts DEF Active, Quiet
<1>2. ~Runs(cbs, "error") /\ ~Runs(cbs, "puberror") /\ AnswersOf(inbox, main) = {}
  BY <1>1, RunsNone, AnswersNone, Zenon
<1>3. Heard /\ (Comes \/ (~status /\ (MayReorder \/ Opens)))
  BY <1>1, <1>2, Zenon DEF Told
<1>4. chan[main].req = <<>>
  <2>1. main \notin broker.closed
    BY <1>2, <1>3 DEF Heard
  <2>2. QED
    BY <1>1, <2>1, Zenon DEF Quiet, Channels
<1>5. ~Has(chan[main].req, "consume") /\ ~Has(chan[main].req, "open")
  BY <1>4, HasEmpty, Zenon
<1>6. ~Opens
  <2>1. ~Waits /\ pc \notin {"registering", "checking"}
    BY <1>1 DEF Waits
  <2>2. QED
    BY <1>2, <1>5, <2>1, Zenon DEF Opens
<1>7. Comes => Consuming
  BY <1>2, <1>5, Zenon DEF Comes
<1>8. QED
  BY <1>1, <1>2, <1>3, <1>6, <1>7, Zenon DEF Told

\* The status that the user was told last is the truth once nothing is under way:
\* after OnStatusChange(true) the program consumes from a queue that is bound and
\* can publish, whatever the broker refused and however the callbacks of the two
\* channels interleave.
THEOREM StatusTrue == Spec => []StatusHonest
<1>1. IInv /\ Told => StatusHonest
  <2> SUFFICES ASSUME IInv, Told, pc = "started", Quiet, status, ~broker.lost
               PROVE  Consuming /\ Usable(pub)
    BY Zenon DEF StatusHonest
  <2>1. pub # 0
    BY DEF Told, Active
  <2>2. Consuming /\ chan[pub].st \in Live
    BY <2>1, AllQuiet
  <2>3. QED
    BY <2>2, Zenon DEF Usable, Live
<1>2. QED
  BY <1>1, InitTold, NextTold, Inductive, OneKeeper, InitInOrder, NextInOrder, PTL DEF Spec

\* Whatever number of requests the broker refuses, and whatever number of channels
\* the error callbacks make, the program settles consuming, on m_channel, from a
\* queue that is bound, unless a processor moves the check of onReady before its
\* store.
THEOREM AlwaysConsumes == ASSUME ~MayReorder PROVE Spec => []SettlesConsuming
<1>1. IInv /\ Told => SettlesConsuming
  BY AllQuiet, Zenon DEF SettlesConsuming
<1>2. QED
  BY <1>1, InitTold, NextTold, Inductive, OneKeeper, InitInOrder, NextInOrder, PTL DEF Spec

=============================================================================
