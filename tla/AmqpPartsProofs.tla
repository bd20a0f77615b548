-------------------------- MODULE AmqpPartsProofs --------------------------
(***************************************************************************)
(* Theorems about the callbacks of a Deferred of each class, for any       *)
(* number of them; about the receivers of messages, for any consumers,     *)
(* messages and sizes; and about addresses that are printed and read, of   *)
(* any words and ports.                                                    *)
(***************************************************************************)
EXTENDS AmqpObjects, RangeInduction, SequenceTheorems, FiniteSetTheorems

-----------------------------------------------------------------------------
(* Sequences *)

\* The sequences x, y and z are the same in either grouping.
Two(x, y, z) == (x \o y) \o z = x \o (y \o z)

LEMMA EitherGrouping ==
    ASSUME NEW S, NEW x \in Seq(S), NEW y \in Seq(S), NEW z \in Seq(S)
    PROVE  Two(x, y, z)
<1>1. (x \o y) \o z = x \o (y \o z)
  BY ConcatAssociative, SMTT(20)
<1>2. QED
  BY <1>1, Zenon DEF Two

-----------------------------------------------------------------------------
(* The callbacks of a Deferred *)

Methods == {"onSuccess", "onError", "onFinalize", "onReceived", "onCount", "onEmpty", "onAck",
            "onNack"}

Ons == {"failed", "success", "error", "ack", "nack", "gone"}

Registration == [method : Methods, told : {"waiting", "success", "error"}]

CallRec == [cb : Nat, on : Ons]

KindTypes ==
    /\ kind \in Deferred!Kinds /\ born \in BOOLEAN /\ failed \in BOOLEAN
    /\ slots \in [Deferred!Slots -> 0..Len(registered)]
    /\ registered \in Seq(Registration)
    /\ told \in {"waiting", "success", "error", "gone"}
    /\ calls \in Seq(CallRec)

\* The member s holds the last callback that method was given.
Holds(s, method) ==
    /\ slots[s] = 0 => \A i \in 1..Len(registered) : registered[i].method # method
    /\ slots[s] # 0 =>
          /\ registered[slots[s]].method = method
          /\ \A i \in 1..Len(registered) : registered[i].method = method => i <= slots[s]

\* A callback for a success is in one of two members.
HoldsSuccess ==
    /\ \A s \in {"success", "special"} :
          slots[s] # 0 => registered[slots[s]].method = "onSuccess"
    /\ \A i \in 1..Len(registered) :
          registered[i].method = "onSuccess" => slots["success"] # 0 \/ slots["special"] # 0

\* Until it is told something, a Deferred calls only those that come too late.
Untold ==
    told = "waiting" =>
        /\ \A i \in 1..Len(registered) : registered[i].told = "waiting"
        /\ Deferred!On("success") = {} /\ Deferred!On("error") = {}

Facts ==
    /\ told = "error" \/ born => failed
    /\ told # "gone" => Deferred!On("gone") = {}

KindInv ==
    /\ KindTypes /\ Holds("error", "onError") /\ Holds("finalize", "onFinalize") /\ HoldsSuccess
    /\ Untold /\ Facts /\ Deferred!CallsBack

-----------------------------------------------------------------------------
(* Calls and callbacks *)

LEMMA KindLengths ==
    ASSUME KindTypes
    PROVE  /\ Len(registered) \in Nat /\ DOMAIN registered = 1..Len(registered)
           /\ Len(calls) \in Nat /\ DOMAIN calls = 1..Len(calls)
           /\ \A i \in 1..Len(registered) : registered[i] \in Registration
           /\ \A i \in 1..Len(calls) : calls[i] \in CallRec
<1>1. registered \in Seq(Registration) /\ calls \in Seq(CallRec)
  BY Zenon DEF KindTypes
<1>2. QED
  BY <1>1, LenProperties, ElementOfSeq

\* Calls of one sort leave the others alone.
LEMMA CallsAppend ==
    ASSUME KindTypes, NEW s \in Seq(CallRec), NEW o, \A i \in 1..Len(s) : s[i].on = o,
           calls' = calls \o s, NEW p, p # o
    PROVE  Deferred!On(p)' = Deferred!On(p) /\ Deferred!Called(p)' = Deferred!Called(p)
<1> DEFINE C == Len(calls)
<1>1. /\ C \in Nat /\ Len(s) \in Nat /\ DOMAIN calls = 1..C /\ DOMAIN calls' = 1..(C + Len(s))
      /\ \A i \in 1..(C + Len(s)) : calls'[i] = IF i <= C THEN calls[i] ELSE s[i - C]
  <2>1. calls \in Seq(CallRec)
    BY Zenon DEF KindTypes
  <2>2. /\ Len(calls \o s) = C + Len(s) /\ calls \o s \in Seq(CallRec)
        /\ \A i \in 1..(C + Len(s)) : (calls \o s)[i] = IF i <= C THEN calls[i] ELSE s[i - C]
    BY <2>1, ConcatProperties
  <2>3. C \in Nat /\ Len(s) \in Nat /\ DOMAIN calls = 1..C /\ DOMAIN (calls \o s) = 1..Len(calls \o s)
    BY <2>1, <2>2, LenProperties
  <2>4. QED
    BY <2>2, <2>3
<1> HIDE DEF C
<1>2. ASSUME NEW i \in 1..(C + Len(s)), calls'[i].on = p PROVE i \in 1..C
  <2>1. CASE i <= C
    BY <1>1, <2>1
  <2>2. CASE ~(i <= C)
    <3>1. i - C \in 1..Len(s) /\ calls'[i] = s[i - C]
      BY <1>1, <2>2
    <3>2. QED
      BY <1>2, <3>1
  <2>3. QED
    BY <2>1, <2>2
<1>3. \A i \in 1..C : i \in 1..(C + Len(s)) /\ calls'[i] = calls[i]
  BY <1>1
<1>4. Deferred!On(p)' = Deferred!On(p)
  BY <1>1, <1>2, <1>3, Zenon DEF Deferred!On
<1>5. \A i \in Deferred!On(p) : calls'[i] = calls[i]
  BY <1>1, <1>3, Zenon DEF Deferred!On
<1>6. Deferred!Called(p)' = Deferred!Called(p)
  BY <1>4, <1>5, Zenon DEF Deferred!Called
<1>7. QED
  BY <1>4, <1>6

\* One call.
LEMMA CallsOne ==
    ASSUME KindTypes, NEW c \in Nat, NEW o \in Ons, calls' = Append(calls, [cb |-> c, on |-> o])
    PROVE  /\ calls' \in Seq(CallRec)
           /\ Len(calls') = Len(calls) + 1 /\ calls'[Len(calls) + 1] = [cb |-> c, on |-> o]
           /\ Deferred!On(o)' = Deferred!On(o) \cup {Len(calls) + 1}
           /\ Deferred!Called(o)' = Deferred!Called(o) \cup {c}
           /\ \A p : p # o => /\ Deferred!On(p)' = Deferred!On(p)
                              /\ Deferred!Called(p)' = Deferred!Called(p)
<1> DEFINE C == Len(calls)
           x == [cb |-> c, on |-> o]
<1>1. x \in CallRec /\ x.cb = c /\ x.on = o
  BY DEF CallRec
<1> HIDE DEF x
<1>2. /\ C \in Nat /\ calls \in Seq(CallRec) /\ calls' \in Seq(CallRec) /\ Len(calls') = C + 1
      /\ DOMAIN calls = 1..C /\ DOMAIN calls' = 1..(C + 1)
      /\ \A i \in 1..C : calls'[i] = calls[i]
      /\ calls'[C + 1] = x
  <2>1. calls \in Seq(CallRec) /\ calls' = Append(calls, x)
    BY DEF KindTypes, x
  <2>2. QED
    BY <1>1, <2>1, AppendProperties, LenProperties
<1>3. \A p : p # o => Deferred!On(p)' = Deferred!On(p) /\ Deferred!Called(p)' = Deferred!Called(p)
  <2>1. <<x>> \in Seq(CallRec) /\ \A i \in 1..Len(<<x>>) : <<x>>[i].on = o
    BY <1>1
  <2>2. calls' = calls \o <<x>>
    BY <1>1, <1>2, AppendIsConcat DEF x
  <2>3. QED
    BY <2>1, <2>2, CallsAppend
<1> HIDE DEF C
<1>4. Deferred!On(o)' = Deferred!On(o) \cup {C + 1}
  BY <1>1, <1>2 DEF Deferred!On
<1>5. C + 1 \notin Deferred!On(o)
  BY <1>2 DEF Deferred!On
<1>6. Deferred!Called(o)' = Deferred!Called(o) \cup {c}
  <2>1. \A i \in Deferred!On(o) : calls'[i] = calls[i]
    BY <1>2, Zenon DEF Deferred!On
  <2>2. Deferred!Called(o)' = {calls'[i].cb : i \in Deferred!On(o) \cup {C + 1}}
    BY <1>4, Zenon DEF Deferred!Called
  <2>3. calls'[C + 1].cb = c
    BY <1>1, <1>2
  <2>4. {calls'[i].cb : i \in Deferred!On(o) \cup {C + 1}}
           = {calls'[i].cb : i \in Deferred!On(o)} \cup {calls'[C + 1].cb}
    OBVIOUS
  <2>5. {calls'[i].cb : i \in Deferred!On(o)} = {calls[i].cb : i \in Deferred!On(o)}
    BY <2>1
  <2>6. QED
    BY <2>2, <2>3, <2>4, <2>5, Zenon DEF Deferred!Called
<1>7. QED
  BY <1>2, <1>3, <1>4, <1>6, Zenon DEF C, x

\* What was called for is nobody if there was no call.
LEMMA CalledNone ==
    ASSUME NEW o, Deferred!On(o) = {}
    PROVE  Deferred!Called(o) = {}
BY DEF Deferred!Called

\* The callback in a member is called, if there is one.
LEMMA CallEffect ==
    ASSUME KindTypes, NEW s \in Deferred!Slots, NEW o \in Ons,
           calls' = calls \o Deferred!CallOf(s, o)
    PROVE  /\ calls' \in Seq(CallRec)
           /\ slots[s] = 0 => Deferred!On(o)' = Deferred!On(o) /\ Deferred!Called(o)' = Deferred!Called(o)
           /\ slots[s] # 0 =>
                 /\ Len(calls') = Len(calls) + 1
                 /\ calls'[Len(calls) + 1] = [cb |-> slots[s], on |-> o]
                 /\ Deferred!On(o)' = Deferred!On(o) \cup {Len(calls) + 1}
                 /\ Deferred!Called(o)' = Deferred!Called(o) \cup {slots[s]}
           /\ \A p : p # o => /\ Deferred!On(p)' = Deferred!On(p)
                              /\ Deferred!Called(p)' = Deferred!Called(p)
<1>1. calls \in Seq(CallRec)
  BY Zenon DEF KindTypes
<1>2. CASE slots[s] = 0
  <2>1. calls' = calls \o <<>>
    BY <1>2, Zenon DEF Deferred!CallOf
  <2>2. calls' = calls
    BY <1>1, <2>1
  <2>3. \A p : Deferred!On(p)' = Deferred!On(p) /\ Deferred!Called(p)' = Deferred!Called(p)
    BY <2>2, Zenon DEF Deferred!On, Deferred!Called
  <2>4. QED
    BY <1>1, <1>2, <2>2, <2>3, Zenon
<1>3. CASE slots[s] # 0
  <2> DEFINE c == slots[s]
             x == [cb |-> c, on |-> o]
  <2>1. c \in Nat
    <3>1. slots[s] \in 0..Len(registered)
      BY Zenon DEF KindTypes
    <3>2. QED
      BY <3>1, KindLengths
  <2>2. calls' = calls \o <<x>>
    BY <1>3, Zenon DEF Deferred!CallOf
  <2>3. x \in CallRec
    BY <2>1 DEF CallRec
  <2>4. calls' = Append(calls, x)
    BY <1>1, <2>2, <2>3, AppendIsConcat
  <2> HIDE DEF c
  <2>5. /\ calls' \in Seq(CallRec)
        /\ Len(calls') = Len(calls) + 1 /\ calls'[Len(calls) + 1] = [cb |-> c, on |-> o]
        /\ Deferred!On(o)' = Deferred!On(o) \cup {Len(calls) + 1}
        /\ Deferred!Called(o)' = Deferred!Called(o) \cup {c}
        /\ \A p : p # o => /\ Deferred!On(p)' = Deferred!On(p)
                           /\ Deferred!Called(p)' = Deferred!Called(p)
    BY <2>1, <2>4, CallsOne
  <2>6. QED
    BY <1>3, <2>5, Zenon DEF c
<1>4. QED
  BY <1>2, <1>3, Zenon

\* A callback more is one of those that its method was given.
LEMMA GivenMore ==
    ASSUME KindTypes, NEW m \in Methods, NEW s \in Deferred!Slots, NEW now \in BOOLEAN,
           Deferred!Register(m, s, now)
    PROVE  /\ Deferred!This = Len(registered) + 1 /\ Len(registered') = Len(registered) + 1
           /\ registered' \in Seq(Registration)
           /\ \A i \in 1..Len(registered) : registered'[i] = registered[i]
           /\ registered'[Len(registered) + 1] = [method |-> m, told |-> told]
           /\ \A n, t : ~(n = m /\ t = told) => Deferred!Given(n, t)' = Deferred!Given(n, t)
           /\ \A n, t : n = m /\ t = told =>
                 Deferred!Given(n, t)' = Deferred!Given(n, t) \cup {Len(registered) + 1}
<1> DEFINE R == Len(registered)
           r == [method |-> m, told |-> told]
<1>1. r \in Registration /\ r.method = m /\ r.told = told
  <2>1. told # "gone" /\ told \in {"waiting", "success", "error", "gone"}
    BY Zenon DEF Deferred!Register, KindTypes
  <2>2. QED
    BY <2>1 DEF Registration
<1> HIDE DEF r
<1>2. registered \in Seq(Registration) /\ registered' = Append(registered, r) /\ told' = told
  BY Zenon DEF KindTypes, Deferred!Register, r
<1>3. /\ R \in Nat /\ registered' \in Seq(Registration) /\ Len(registered') = R + 1
      /\ DOMAIN registered = 1..R /\ DOMAIN registered' = 1..(R + 1)
      /\ \A i \in 1..R : registered'[i] = registered[i]
      /\ registered'[R + 1] = r
  BY <1>1, <1>2, AppendProperties, LenProperties
<1> HIDE DEF R
<1>4. \A n, t : Deferred!Given(n, t)' = {i \in 1..(R + 1) : registered'[i].method = n /\ registered'[i].told = t}
  BY <1>3, Zenon DEF Deferred!Given
<1>5. \A n, t : Deferred!Given(n, t) = {i \in 1..R : registered[i].method = n /\ registered[i].told = t}
  BY <1>3, Zenon DEF Deferred!Given
<1>6. /\ \A i \in 1..R : i \in 1..(R + 1)
      /\ \A i \in 1..(R + 1) : i \in 1..R \/ i = R + 1
      /\ R + 1 \in 1..(R + 1)
  BY <1>3
<1>7. ASSUME NEW n, NEW t, ~(n = m /\ t = told) PROVE Deferred!Given(n, t)' = Deferred!Given(n, t)
  <2>1. ~(registered'[R + 1].method = n /\ registered'[R + 1].told = t)
    BY <1>1, <1>3, <1>7, Zenon
  <2>2. {i \in 1..(R + 1) : registered'[i].method = n /\ registered'[i].told = t}
           = {i \in 1..R : registered[i].method = n /\ registered[i].told = t}
    BY <1>3, <1>6, <2>1, Zenon
  <2>3. QED
    BY <1>4, <1>5, <2>2, Zenon
<1>8. ASSUME NEW n, NEW t, n = m /\ t = told
      PROVE  Deferred!Given(n, t)' = Deferred!Given(n, t) \cup {R + 1}
  <2>1. registered'[R + 1].method = n /\ registered'[R + 1].told = t
    BY <1>1, <1>3, <1>8, Zenon
  <2>2. {i \in 1..(R + 1) : registered'[i].method = n /\ registered'[i].told = t}
           = {i \in 1..R : registered[i].method = n /\ registered[i].told = t} \cup {R + 1}
    BY <1>3, <1>6, <2>1, Zenon
  <2>3. QED
    BY <1>4, <1>5, <2>2, Zenon
<1>9. QED
  BY <1>3, <1>7, <1>8, Zenon DEF Deferred!This, R, r

\* The members hold the last callbacks after one more.
LEMMA HoldsMore ==
    ASSUME KindTypes, NEW m \in Methods, NEW s \in Deferred!Slots, NEW now \in BOOLEAN,
           Deferred!Register(m, s, now), NEW n, NEW q \in Deferred!Slots, Holds(q, n),
           s = q <=> m = n
    PROVE  Holds(q, n)'
<1> DEFINE R == Len(registered)
<1>1. /\ R \in Nat /\ Len(registered') = R + 1
      /\ \A i \in 1..R : registered'[i] = registered[i]
      /\ registered'[R + 1].method = m
      /\ slots \in [Deferred!Slots -> 0..R] /\ slots' = [slots EXCEPT ![s] = R + 1]
  <2>1. /\ Len(registered') = R + 1 /\ Deferred!This = R + 1
        /\ \A i \in 1..R : registered'[i] = registered[i]
        /\ registered'[R + 1] = [method |-> m, told |-> told]
    BY GivenMore
  <2>2. slots \in [Deferred!Slots -> 0..R] /\ slots' = [slots EXCEPT ![s] = Deferred!This]
    BY Zenon DEF KindTypes, Deferred!Register
  <2>3. QED
    BY <2>1, <2>2, KindLengths
<1>2. \A i \in 1..(R + 1) : i \in 1..R \/ i = R + 1
  BY <1>1
<1> HIDE DEF R
<1>3. CASE s = q
  <2>1. slots'[q] = R + 1 /\ m = n
    BY <1>1, <1>3
  <2>2. QED
    BY <1>1, <2>1 DEF Holds
<1>4. CASE s # q
  <2>1. slots'[q] = slots[q] /\ slots[q] \in 0..R /\ m # n
    BY <1>1, <1>4
  <2>2. CASE slots[q] = 0
    <3>1. \A i \in 1..R : registered[i].method # n
      BY <2>2, Zenon DEF Holds, R
    <3>2. \A i \in 1..(R + 1) : registered'[i].method # n
      BY <1>1, <1>2, <2>1, <3>1, Zenon
    <3>3. QED
      BY <1>1, <2>1, <2>2, <3>2, Zenon DEF Holds
  <2>3. CASE slots[q] # 0
    <3>1. registered[slots[q]].method = n /\ \A i \in 1..R : registered[i].method = n => i <= slots[q]
      BY <2>3, Zenon DEF Holds, R
    <3>2. slots[q] \in 1..R
      BY <1>1, <2>1, <2>3
    <3>3. registered'[slots'[q]].method = n
      BY <1>1, <2>1, <3>1, <3>2, Zenon
    <3>4. \A i \in 1..(R + 1) : registered'[i].method = n => i <= slots'[q]
      BY <1>1, <1>2, <2>1, <3>1, Zenon
    <3>5. QED
      BY <1>1, <2>1, <2>3, <3>3, <3>4, Zenon DEF Holds
  <2>4. QED
    BY <2>2, <2>3
<1>5. QED
  BY <1>3, <1>4

\* Who asks too late is called at once, if at all.
LEMMA LateCalls ==
    ASSUME KindTypes, NEW m \in Methods, NEW s \in Deferred!Slots, NEW now \in BOOLEAN,
           Deferred!Register(m, s, now)
    PROVE  /\ calls' \in Seq(CallRec)
           /\ \A p : p # "failed" => /\ Deferred!On(p)' = Deferred!On(p)
                                     /\ Deferred!Called(p)' = Deferred!Called(p)
           /\ now => Deferred!Called("failed")' = Deferred!Called("failed") \cup {Len(registered) + 1}
           /\ ~now => Deferred!Called("failed")' = Deferred!Called("failed")
<1>1. CASE now
  <2> DEFINE c == Len(registered) + 1
  <2>1. c \in Nat /\ "failed" \in Ons
    BY KindLengths DEF Ons
  <2>2. calls' = Append(calls, [cb |-> c, on |-> "failed"])
    BY <1>1, Zenon DEF Deferred!Register, Deferred!Calls, Deferred!This
  <2> HIDE DEF c
  <2>3. /\ calls' \in Seq(CallRec)
        /\ Deferred!Called("failed")' = Deferred!Called("failed") \cup {c}
        /\ \A p : p # "failed" => /\ Deferred!On(p)' = Deferred!On(p)
                                  /\ Deferred!Called(p)' = Deferred!Called(p)
    BY <2>1, <2>2, CallsOne
  <2>4. QED
    BY <1>1, <2>3, Zenon DEF c
<1>2. CASE ~now
  <2>1. calls' = calls /\ calls \in Seq(CallRec)
    BY <1>2, Zenon DEF Deferred!Register, KindTypes
  <2>2. \A p : Deferred!On(p)' = Deferred!On(p) /\ Deferred!Called(p)' = Deferred!Called(p)
    BY <2>1, Zenon DEF Deferred!On, Deferred!Called
  <2>3. QED
    BY <1>2, <2>1, <2>2, Zenon
<1>3. QED
  BY <1>1, <1>2

\* A method of a Deferred that registers a callback: in the right member, called at
\* once only if the Deferred has failed, and always when it is for the error.
LEMMA RegisterKeeps ==
    ASSUME KindInv, NEW m \in Methods, NEW s \in Deferred!Slots, NEW now \in BOOLEAN,
           Deferred!Register(m, s, now),
           s = "error" <=> m = "onError", s = "finalize" <=> m = "onFinalize",
           s \in {"success", "special"} <=> m = "onSuccess",
           now => failed, m = "onError" /\ failed /\ kind # "get" => now
    PROVE  KindInv'
<1> USE DEF KindInv
<1> DEFINE R == Len(registered)
<1>1. /\ told # "gone" /\ UNCHANGED <<kind, born, failed, told>>
      /\ slots' = [slots EXCEPT ![s] = R + 1]
  BY Zenon DEF Deferred!Register, Deferred!This
<1>2. /\ Len(registered') = R + 1 /\ registered' \in Seq(Registration) /\ R \in Nat
      /\ \A i \in 1..R : registered'[i] = registered[i]
      /\ registered'[R + 1] = [method |-> m, told |-> told]
      /\ \A n, t : ~(n = m /\ t = told) => Deferred!Given(n, t)' = Deferred!Given(n, t)
      /\ \A n, t : n = m /\ t = told => Deferred!Given(n, t)' = Deferred!Given(n, t) \cup {R + 1}
  BY GivenMore, KindLengths
<1>3. /\ calls' \in Seq(CallRec)
      /\ \A p : p # "failed" => /\ Deferred!On(p)' = Deferred!On(p)
                                /\ Deferred!Called(p)' = Deferred!Called(p)
      /\ now => Deferred!Called("failed")' = Deferred!Called("failed") \cup {R + 1}
      /\ ~now => Deferred!Called("failed")' = Deferred!Called("failed")
  BY LateCalls
<1>4. slots \in [Deferred!Slots -> 0..R]
  BY Zenon DEF KindTypes
<1>5. \A i \in 1..(R + 1) : i \in 1..R \/ i = R + 1
  BY <1>2
<1>6. registered'[R + 1].method = m /\ registered'[R + 1].told = told
  BY <1>2
<1> HIDE DEF R
<1>7. KindTypes'
  <2>1. slots' \in [Deferred!Slots -> 0..(R + 1)]
    BY <1>1, <1>2, <1>4
  <2>2. QED
    BY <1>1, <1>2, <1>3, <2>1, Zenon DEF KindTypes
<1>8. Holds("error", "onError")' /\ Holds("finalize", "onFinalize")'
  <2>1. "error" \in Deferred!Slots /\ "finalize" \in Deferred!Slots
    BY DEF Deferred!Slots
  <2>2. QED
    BY <2>1, HoldsMore
<1>9. HoldsSuccess'
  <2>1. ASSUME NEW q \in {"success", "special"}, slots'[q] # 0
        PROVE  registered'[slots'[q]].method = "onSuccess"
    <3>1. CASE s = q
      <4>1. slots'[q] = R + 1 /\ m = "onSuccess"
        BY <1>1, <1>4, <3>1
      <4>2. QED
        BY <1>6, <4>1, Zenon
    <3>2. CASE s # q
      <4>1. slots'[q] = slots[q] /\ slots[q] \in 1..R
        BY <1>1, <1>2, <1>4, <2>1, <3>2 DEF Deferred!Slots
      <4>2. registered[slots[q]].method = "onSuccess"
        BY <2>1, <4>1, Zenon DEF HoldsSuccess
      <4>3. QED
        BY <1>2, <4>1, <4>2, Zenon
    <3>3. QED
      BY <3>1, <3>2
  <2>2. ASSUME NEW i \in 1..(R + 1), registered'[i].method = "onSuccess"
        PROVE  slots'["success"] # 0 \/ slots'["special"] # 0
    <3>1. CASE i = R + 1
      <4>1. s \in {"success", "special"}
        BY <1>6, <2>2, <3>1, Zenon
      <4>2. QED
        BY <1>1, <1>2, <1>4, <4>1
    <3>2. CASE i \in 1..R
      <4>1. slots["success"] # 0 \/ slots["special"] # 0
        BY <1>2, <2>2, <3>2, Zenon DEF HoldsSuccess, R
      <4>2. QED
        BY <1>1, <1>2, <1>4, <4>1 DEF Deferred!Slots
    <3>3. QED
      BY <1>5, <3>1, <3>2, Zenon
  <2>3. QED
    BY <1>2, <2>1, <2>2, Zenon DEF HoldsSuccess
<1>10. Untold'
  <2>1. told = "waiting" => \A i \in 1..(R + 1) : registered'[i].told = "waiting"
    BY <1>2, <1>5, <1>6, Zenon DEF Untold, R
  <2>2. QED
    BY <1>1, <1>2, <1>3, <2>1, Zenon DEF Untold
<1>11. Facts'
  BY <1>1, <1>3, Zenon DEF Facts
<1>12. Deferred!OneSuccess'
  <2>1. ASSUME NEW n, NEW t PROVE Deferred!Given(n, t) \subseteq Deferred!Given(n, t)'
    <3>1. CASE n = m /\ t = told
      <4>1. Deferred!Given(n, t)' = Deferred!Given(n, t) \cup {R + 1}
        BY <1>2, <3>1, Zenon
      <4>2. QED
        BY <4>1, Zenon
    <3>2. CASE ~(n = m /\ t = told)
      BY <1>2, <3>2, Zenon
    <3>3. QED
      BY <3>1, <3>2, Zenon
  <2>2. told = "success" => Deferred!Given("onSuccess", "waiting")' = Deferred!Given("onSuccess", "waiting")
    BY <1>2, Zenon
  <2>3. Deferred!OneSuccess
    BY Zenon DEF Deferred!CallsBack
  <2>4. /\ Deferred!On("success")' = Deferred!On("success") /\ Deferred!On("error")' = Deferred!On("error")
        /\ Deferred!Called("success")' = Deferred!Called("success")
    BY <1>3, Zenon
  <2>5. kind' = kind /\ told' = told
    BY <1>1, Zenon
  <2>6. QED
    BY <2>1, <2>2, <2>3, <2>4, <2>5, Zenon DEF Deferred!OneSuccess
<1>13. Deferred!ErrorsTold'
  <2>1. Deferred!ErrorsTold
    BY Zenon DEF Deferred!CallsBack
  <2>2. Deferred!Called("error")' = Deferred!Called("error")
    BY <1>3, Zenon
  <2>3. told = "error" => Deferred!Given("onError", "waiting")' = Deferred!Given("onError", "waiting")
    BY <1>2, Zenon
  <2>4. told = "error" \/ born => failed
    BY Zenon DEF Facts
  <2>5. ASSUME kind # "get", NEW t, told # "error" => born \/ t = "error",
               Deferred!Given("onError", t) \subseteq Deferred!Called("failed")
        PROVE  Deferred!Given("onError", t)' \subseteq Deferred!Called("failed")'
    <3>1. CASE m = "onError" /\ t = told
      <4>1. failed
        BY <2>4, <2>5, <3>1, Zenon
      <4>2. now
        BY <2>5, <3>1, <4>1, Zenon
      <4>3. Deferred!Given("onError", t)' = Deferred!Given("onError", t) \cup {R + 1}
        BY <1>2, <3>1, Zenon
      <4>4. QED
        BY <1>3, <2>5, <4>2, <4>3, Zenon
    <3>2. CASE ~(m = "onError" /\ t = told)
      <4>1. Deferred!Given("onError", t)' = Deferred!Given("onError", t)
        BY <1>2, <3>2, Zenon
      <4>2. Deferred!Called("failed") \subseteq Deferred!Called("failed")'
        BY <1>3, Zenon
      <4>3. QED
        BY <2>5, <4>1, <4>2, Zenon
    <3>3. QED
      BY <3>1, <3>2, Zenon
  <2>6. kind # "get" =>
          /\ Deferred!Given("onError", "error")' \subseteq Deferred!Called("failed")'
          /\ born => Deferred!Given("onError", "waiting")' \subseteq Deferred!Called("failed")'
    BY <2>1, <2>5, Zenon DEF Deferred!ErrorsTold
  <2>7. ~failed => Deferred!Called("failed")' = {}
    BY <1>3, <2>1, Zenon DEF Deferred!ErrorsTold
  <2>8. /\ kind' = kind /\ told' = told /\ born' = born /\ failed' = failed
    BY <1>1, Zenon
  <2>9. told = "error" /\ Deferred!Given("onError", "waiting")' # {} =>
          Deferred!Called("error")' = {Deferred!Latest(Deferred!Given("onError", "waiting")')}
    BY <2>1, <2>2, <2>3, Zenon DEF Deferred!ErrorsTold
  <2>10. QED
    BY <2>6, <2>7, <2>8, <2>9, Zenon DEF Deferred!ErrorsTold, Deferred!Latest
<1>14. Deferred!FinalizedInTheEnd'
  BY <1>1, Zenon DEF Deferred!FinalizedInTheEnd
<1>15. QED
  BY <1>7, <1>8, <1>9, <1>10, <1>11, <1>12, <1>13, <1>14, Zenon DEF Deferred!CallsBack
-----------------------------------------------------------------------------
(* Reports *)

\* What a report finds registered when it comes, and what the members say of it.
LEMMA WaitingMember ==
    ASSUME KindTypes, Untold, told = "waiting", NEW m, NEW s \in Deferred!Slots, Holds(s, m)
    PROVE  /\ slots[s] = 0 => Deferred!Given(m, "waiting") = {}
           /\ slots[s] # 0 =>
                 /\ slots[s] \in Deferred!Given(m, "waiting")
                 /\ Deferred!Latest(Deferred!Given(m, "waiting")) = slots[s]
<1> DEFINE R == Len(registered)
           G == Deferred!Given(m, "waiting")
<1>1. /\ R \in Nat /\ DOMAIN registered = 1..R /\ slots[s] \in 0..R
      /\ \A i \in 1..R : registered[i].told = "waiting"
  BY KindLengths, Zenon DEF KindTypes, Untold
<1>2. G = {i \in 1..R : registered[i].method = m}
  BY <1>1, Zenon DEF Deferred!Given
<1>3. CASE slots[s] = 0
  BY <1>2, <1>3, Zenon DEF Holds
<1>4. CASE slots[s] # 0
  <2> DEFINE c == slots[s]
  <2>1. c \in 1..R
    BY <1>1, <1>4
  <2>2. registered[c].method = m /\ \A i \in 1..R : registered[i].method = m => i <= c
    BY <1>4, Zenon DEF Holds
  <2>3. c \in G /\ \A i \in G : i <= c
    BY <1>2, <2>1, <2>2, Zenon
  <2> HIDE DEF c, G, R
  <2>4. \A x \in G : (\A i \in G : i <= x) => x = c
    <3>1. \A x \in G : x \in Nat
      BY <1>1, <1>2
    <3>2. QED
      BY <2>3, <3>1
  <2>5. Deferred!Latest(G) = c
    BY <2>3, <2>4 DEF Deferred!Latest
  <2>6. QED
    BY <1>4, <2>3, <2>5, Zenon DEF c, G
<1>5. QED
  BY <1>3, <1>4

\* There is a callback for the success if one was registered.
LEMMA WaitingSuccess ==
    ASSUME KindTypes, Untold, HoldsSuccess, told = "waiting"
    PROVE  /\ slots["special"] = 0 /\ slots["success"] = 0 =>
                 Deferred!Given("onSuccess", "waiting") = {}
           /\ \A s \in {"success", "special"} :
                 slots[s] # 0 => slots[s] \in Deferred!Given("onSuccess", "waiting")
<1> DEFINE R == Len(registered)
<1>1. /\ R \in Nat /\ DOMAIN registered = 1..R
      /\ \A i \in 1..R : registered[i].told = "waiting"
  BY KindLengths, Zenon DEF KindTypes, Untold
<1>2. Deferred!Given("onSuccess", "waiting") = {i \in 1..R : registered[i].method = "onSuccess"}
  BY <1>1, Zenon DEF Deferred!Given
<1>3. ASSUME NEW s \in {"success", "special"}, slots[s] # 0 PROVE slots[s] \in 1..R
  <2>1. slots[s] \in 0..R
    BY Zenon DEF KindTypes, Deferred!Slots
  <2>2. QED
    BY <1>1, <1>3, <2>1
<1>4. QED
  BY <1>2, <1>3, Zenon DEF HoldsSuccess

\* A report leaves what was registered; it tells a Deferred that waits.
LEMMA SameGiven ==
    ASSUME UNCHANGED registered
    PROVE  /\ \A n, t : Deferred!Given(n, t)' = Deferred!Given(n, t)
           /\ Len(registered') = Len(registered)
BY Zenon DEF Deferred!Given

LEMMA SameMembers ==
    ASSUME UNCHANGED <<registered, slots>>, Holds("error", "onError"),
           Holds("finalize", "onFinalize"), HoldsSuccess
    PROVE  Holds("error", "onError")' /\ Holds("finalize", "onFinalize")' /\ HoldsSuccess'
<1>1. registered' = registered /\ slots' = slots
  OBVIOUS
<1>2. QED
  BY <1>1, Zenon DEF Holds, HoldsSuccess

\* The set of one member has one.
LEMMA OneCalled == \A x : Deferred!Cardinality({x}) = 1 /\ Deferred!Cardinality({}) = 0
<1>1. \A S : Deferred!Cardinality(S) = Cardinality(S)
  BY DEF Deferred!Cardinality, Cardinality
<1>2. QED
  BY <1>1, FS_Singleton, FS_EmptySet, Zenon

\* A callback that is called for the success is the only one.
LEMMA SuccessTold ==
    ASSUME KindInv, told = "waiting", ~born, told' = "success",
           UNCHANGED <<kind, born, failed, slots, registered>>,
           calls' \in Seq(CallRec),
           \A p : p # "success" => /\ Deferred!On(p)' = Deferred!On(p)
                                   /\ Deferred!Called(p)' = Deferred!Called(p),
           kind # "get" =>
              \/ /\ Deferred!Given("onSuccess", "waiting") = {}
                 /\ Deferred!On("success")' = {} /\ Deferred!Called("success")' = {}
              \/ \E c \in Deferred!Given("onSuccess", "waiting"), i \in Nat :
                    Deferred!On("success")' = {i} /\ Deferred!Called("success")' = {c}
    PROVE  KindInv'
<1> USE DEF KindInv
<1>1. \A n, t : Deferred!Given(n, t)' = Deferred!Given(n, t)
  BY SameGiven
<1>2. /\ kind' = kind /\ born' = born /\ failed' = failed /\ slots' = slots /\ registered' = registered
  OBVIOUS
<1>3. Len(registered') = Len(registered)
  BY <1>2
<1>4. KindTypes'
  BY <1>2, Zenon DEF KindTypes
<1>5. Holds("error", "onError")' /\ Holds("finalize", "onFinalize")' /\ HoldsSuccess'
  BY SameMembers
<1>6. Untold' /\ Facts'
  BY <1>2 DEF Untold, Facts
<1>7. Deferred!OneSuccess'
  <2>1. Deferred!On("error")' = {}
    BY Zenon DEF Untold
  <2>2. ASSUME kind # "get"
        PROVE  /\ Deferred!Cardinality(Deferred!On("success")')
                     = (IF Deferred!Given("onSuccess", "waiting") = {} THEN 0 ELSE 1)
               /\ Deferred!Called("success")' \subseteq Deferred!Given("onSuccess", "waiting")
    BY <2>2, OneCalled
  <2>3. QED
    BY <1>1, <1>2, <2>1, <2>2, Zenon DEF Deferred!OneSuccess
<1>8. Deferred!ErrorsTold'
  <2>1. Deferred!ErrorsTold
    BY Zenon DEF Deferred!CallsBack
  <2>2. Deferred!Called("failed")' = Deferred!Called("failed")
    BY Zenon
  <2>3. told' # "error"
    OBVIOUS
  <2>4. /\ kind # "get" =>
              /\ Deferred!Given("onError", "error")' \subseteq Deferred!Called("failed")'
              /\ born => Deferred!Given("onError", "waiting")' \subseteq Deferred!Called("failed")'
        /\ ~failed => Deferred!Called("failed")' = {}
    BY <1>1, <2>1, <2>2, Zenon DEF Deferred!ErrorsTold
  <2>5. QED
    BY <1>2, <2>3, <2>4 DEF Deferred!ErrorsTold
<1>9. Deferred!FinalizedInTheEnd'
  BY Zenon DEF Deferred!FinalizedInTheEnd
<1>10. QED
  BY <1>4, <1>5, <1>6, <1>7, <1>8, <1>9, Zenon DEF Deferred!CallsBack

LEMMA ReportSuccessKeeps ==
    ASSUME KindInv, Deferred!ReportSuccess
    PROVE  KindInv'
<1>1. /\ told = "waiting" /\ ~born /\ told' = "success"
      /\ UNCHANGED <<kind, born, failed, slots, registered>>
      /\ Deferred!On("success") = {} /\ Deferred!Called("success") = {}
      /\ KindTypes
  <2>1. Deferred!On("success") = {}
    BY Zenon DEF KindInv, Untold, Deferred!ReportSuccess
  <2>2. QED
    BY <2>1, CalledNone, Zenon DEF KindInv, Deferred!ReportSuccess
<1>2. CASE kind = "get"
  <2>1. \A t \in {"count", "empty"} :
           /\ Deferred!CallOf(t, "success") \in Seq(CallRec)
           /\ \A i \in 1..Len(Deferred!CallOf(t, "success")) :
                 Deferred!CallOf(t, "success")[i].on = "success"
    <3>1. TAKE t \in {"count", "empty"}
    <3>2. slots[t] \in Nat
      <4>1. slots[t] \in 0..Len(registered)
        BY <1>1, Zenon DEF KindTypes, Deferred!Slots
      <4>2. QED
        BY <1>1, <4>1, KindLengths
    <3>3. [cb |-> slots[t], on |-> "success"] \in CallRec
      BY <3>2 DEF CallRec, Ons
    <3>4. QED
      BY <3>3 DEF Deferred!CallOf
  <2>2. PICK s \in {Deferred!CallOf("count", "success") \o Deferred!CallOf("empty", "success"),
                    Deferred!CallOf("count", "success")} : calls' = calls \o s
    <3> DEFINE a == Deferred!CallOf("count", "success")
               b == Deferred!CallOf("empty", "success")
    <3>1. calls' = calls \o a \o b \/ calls' = calls \o a
      BY <1>2, Zenon DEF Deferred!ReportSuccess, Deferred!Call
    <3>2. calls \in Seq(CallRec) /\ a \in Seq(CallRec) /\ b \in Seq(CallRec)
      BY <1>1, <2>1, Zenon DEF KindTypes
    <3> HIDE DEF a, b
    <3>3. Two(calls, a, b)
      BY <3>2, EitherGrouping, Zenon
    <3>4. calls' = calls \o (a \o b) \/ calls' = calls \o a
      BY <3>1, <3>3, Zenon DEF Two
    <3>5. QED
      BY <3>4, Zenon DEF a, b
  <2>3. s \in Seq(CallRec) /\ \A i \in 1..Len(s) : s[i].on = "success"
    <3>1. CASE s = Deferred!CallOf("count", "success")
      BY <2>1, <3>1, Zenon
    <3>2. CASE s = Deferred!CallOf("count", "success") \o Deferred!CallOf("empty", "success")
      <4> DEFINE a == Deferred!CallOf("count", "success")
                 b == Deferred!CallOf("empty", "success")
      <4>1. /\ a \in Seq(CallRec) /\ b \in Seq(CallRec)
            /\ \A i \in 1..Len(a) : a[i].on = "success"
            /\ \A i \in 1..Len(b) : b[i].on = "success"
        BY <2>1, Zenon
      <4>2. s = a \o b
        BY <3>2, Zenon
      <4> HIDE DEF a, b
      <4>3. /\ s \in Seq(CallRec) /\ Len(s) = Len(a) + Len(b) /\ Len(a) \in Nat /\ Len(b) \in Nat
            /\ \A i \in 1..Len(s) : s[i] = IF i <= Len(a) THEN a[i] ELSE b[i - Len(a)]
        BY <4>1, <4>2, ConcatProperties, LenProperties
      <4>4. QED
        BY <4>1, <4>3
    <3>3. QED
      BY <3>1, <3>2, Zenon
  <2>4. \A p : p # "success" => /\ Deferred!On(p)' = Deferred!On(p)
                                /\ Deferred!Called(p)' = Deferred!Called(p)
    BY <1>1, <2>2, <2>3, CallsAppend
  <2>5. calls' \in Seq(CallRec)
    <3>1. calls \in Seq(CallRec)
      BY <1>1, Zenon DEF KindTypes
    <3>2. QED
      BY <2>2, <2>3, <3>1, ConcatProperties
  <2>6. QED
    BY <1>1, <1>2, <2>4, <2>5, SuccessTold
<1>3. CASE kind # "get"
  <2>1. PICK s \in {"success", "special"} :
           /\ calls' = calls \o Deferred!CallOf(s, "success")
           /\ slots[s] = 0 => slots["special"] = 0 /\ slots["success"] = 0
    <3>1. calls' = calls \o Deferred!SuccessCall
      BY <1>3, Zenon DEF Deferred!ReportSuccess
    <3>2. CASE slots["special"] # 0
      <4>1. calls' = calls \o Deferred!CallOf("special", "success")
        BY <3>1, <3>2, Zenon DEF Deferred!SuccessCall
      <4>2. QED
        BY <3>2, <4>1, Zenon
    <3>3. CASE slots["special"] = 0
      <4>1. calls' = calls \o Deferred!CallOf("success", "success")
        BY <3>1, <3>3, Zenon DEF Deferred!SuccessCall
      <4>2. QED
        BY <3>3, <4>1, Zenon
    <3>4. QED
      BY <3>2, <3>3, Zenon
  <2>2. s \in Deferred!Slots /\ "success" \in Ons
    BY DEF Deferred!Slots, Ons
  <2>3. /\ calls' \in Seq(CallRec)
        /\ slots[s] = 0 => /\ Deferred!On("success")' = Deferred!On("success")
                           /\ Deferred!Called("success")' = Deferred!Called("success")
        /\ slots[s] # 0 =>
              /\ Deferred!On("success")' = Deferred!On("success") \cup {Len(calls) + 1}
              /\ Deferred!Called("success")' = Deferred!Called("success") \cup {slots[s]}
        /\ \A p : p # "success" => /\ Deferred!On(p)' = Deferred!On(p)
                                   /\ Deferred!Called(p)' = Deferred!Called(p)
    BY <1>1, <2>1, <2>2, CallEffect
  <2>4. /\ slots["special"] = 0 /\ slots["success"] = 0 => Deferred!Given("onSuccess", "waiting") = {}
        /\ slots[s] # 0 => slots[s] \in Deferred!Given("onSuccess", "waiting")
    BY <1>1, WaitingSuccess DEF KindInv
  <2>5. Len(calls) + 1 \in Nat
    BY <1>1, KindLengths
  <2>6. \/ /\ Deferred!Given("onSuccess", "waiting") = {}
           /\ Deferred!On("success")' = {} /\ Deferred!Called("success")' = {}
        \/ \E c \in Deferred!Given("onSuccess", "waiting"), i \in Nat :
              Deferred!On("success")' = {i} /\ Deferred!Called("success")' = {c}
    <3>1. CASE slots[s] = 0
      BY <1>1, <2>1, <2>3, <2>4, <3>1, Zenon
    <3>2. CASE slots[s] # 0
      <4>1. /\ Deferred!On("success")' = {Len(calls) + 1}
            /\ Deferred!Called("success")' = {slots[s]}
        BY <1>1, <2>3, <3>2
      <4>2. QED
        BY <2>4, <2>5, <3>2, <4>1, Zenon
    <3>3. QED
      BY <3>1, <3>2
  <2>7. QED
    BY <1>1, <2>3, <2>6, SuccessTold
<1>4. QED
  BY <1>2, <1>3

LEMMA ReportErrorKeeps ==
    ASSUME KindInv, Deferred!ReportError
    PROVE  KindInv'
<1> USE DEF KindInv
<1>1. /\ told = "waiting" /\ told' = "error" /\ failed' = TRUE
      /\ UNCHANGED <<kind, born, slots, registered>>
      /\ calls' = calls \o Deferred!CallOf("error", "error")
  BY Zenon DEF Deferred!ReportError, Deferred!Call
<1>2. "error" \in Deferred!Slots /\ "error" \in Ons
  BY DEF Deferred!Slots, Ons
<1>3. /\ calls' \in Seq(CallRec)
      /\ slots["error"] # 0 => Deferred!Called("error")' = Deferred!Called("error") \cup {slots["error"]}
      /\ \A p : p # "error" => /\ Deferred!On(p)' = Deferred!On(p)
                               /\ Deferred!Called(p)' = Deferred!Called(p)
  BY <1>1, <1>2, CallEffect
<1>4. \A n, t : Deferred!Given(n, t)' = Deferred!Given(n, t)
  BY <1>1, SameGiven
<1>5. /\ kind' = kind /\ born' = born /\ slots' = slots /\ registered' = registered
      /\ Len(registered') = Len(registered)
  BY <1>1
<1>6. KindTypes'
  BY <1>1, <1>3, <1>5, Zenon DEF KindTypes
<1>7. Holds("error", "onError")' /\ Holds("finalize", "onFinalize")' /\ HoldsSuccess'
  BY <1>1, SameMembers
<1>8. Untold' /\ Facts'
  BY <1>1, <1>3 DEF Untold, Facts
<1>9. Deferred!OneSuccess'
  <2>1. Deferred!On("success")' = {} /\ Deferred!Called("success")' = Deferred!Called("success")
    BY <1>1, <1>3, Zenon DEF Untold
  <2>2. Deferred!OneSuccess
    BY Zenon DEF Deferred!CallsBack
  <2>3. told' # "success"
    BY <1>1
  <2>4. QED
    BY <1>4, <1>5, <2>1, <2>2, <2>3 DEF Deferred!OneSuccess
<1>10. Deferred!ErrorsTold'
  <2>1. Deferred!ErrorsTold
    BY Zenon DEF Deferred!CallsBack
  <2>2. Deferred!Called("failed")' = Deferred!Called("failed")
    BY <1>3
  <2>3. Deferred!Given("onError", "waiting") # {} =>
           Deferred!Called("error")' = {Deferred!Latest(Deferred!Given("onError", "waiting"))}
    <3>1. HAVE Deferred!Given("onError", "waiting") # {}
    <3>2. /\ slots["error"] # 0
          /\ Deferred!Latest(Deferred!Given("onError", "waiting")) = slots["error"]
      BY <1>1, <1>2, <3>1, WaitingMember
    <3>3. Deferred!Called("error") = {}
      BY <1>1, CalledNone DEF Untold
    <3>4. QED
      BY <1>3, <3>2, <3>3
  <2>4. Deferred!Given("onError", "waiting")' # {} =>
           Deferred!Called("error")' = {Deferred!Latest(Deferred!Given("onError", "waiting")')}
    BY <1>4, <2>3
  <2>5. kind # "get" =>
              /\ Deferred!Given("onError", "error")' \subseteq Deferred!Called("failed")'
              /\ born => Deferred!Given("onError", "waiting")' \subseteq Deferred!Called("failed")'
    BY <1>4, <2>1, <2>2, Zenon DEF Deferred!ErrorsTold
  <2>6. QED
    BY <1>1, <1>5, <2>4, <2>5 DEF Deferred!ErrorsTold, Deferred!Latest
<1>11. Deferred!FinalizedInTheEnd'
  BY <1>1, Zenon DEF Deferred!FinalizedInTheEnd
<1>12. QED
  BY <1>6, <1>7, <1>8, <1>9, <1>10, <1>11, Zenon DEF Deferred!CallsBack

\* Messages are confirmed to the callbacks for that, and to no others.
LEMMA ConfirmsKeeps ==
    ASSUME KindInv, Deferred!Confirms
    PROVE  KindInv'
<1> USE DEF KindInv
<1>1. PICK o \in {"ack", "nack"} : calls' = calls \o Deferred!CallOf(o, o)
  BY Zenon DEF Deferred!Confirms, Deferred!Call
<1>2. told = "success" /\ UNCHANGED <<kind, born, failed, slots, registered, told>>
  BY Zenon DEF Deferred!Confirms
<1>3. o \in Deferred!Slots /\ o \in Ons
  BY DEF Deferred!Slots, Ons
<1>4. /\ calls' \in Seq(CallRec)
      /\ \A p : p # o => /\ Deferred!On(p)' = Deferred!On(p)
                         /\ Deferred!Called(p)' = Deferred!Called(p)
  BY <1>1, <1>3, CallEffect
<1>5. \A p \in {"success", "error", "failed", "gone"} :
         Deferred!On(p)' = Deferred!On(p) /\ Deferred!Called(p)' = Deferred!Called(p)
  BY <1>4
<1>6. \A n, t : Deferred!Given(n, t)' = Deferred!Given(n, t)
  BY <1>2, SameGiven
<1>7. /\ kind' = kind /\ born' = born /\ failed' = failed /\ slots' = slots
      /\ registered' = registered /\ told' = told /\ Len(registered') = Len(registered)
  BY <1>2
<1>8. KindTypes'
  BY <1>4, <1>7, Zenon DEF KindTypes
<1>9. Holds("error", "onError")' /\ Holds("finalize", "onFinalize")' /\ HoldsSuccess'
  BY <1>2, SameMembers
<1>10. Untold' /\ Facts'
  BY <1>2, <1>5, <1>7 DEF Untold, Facts
<1>11. Deferred!OneSuccess'
  BY <1>5, <1>6, <1>7, Zenon DEF Deferred!OneSuccess, Deferred!CallsBack
<1>12. Deferred!ErrorsTold'
  <2>1. Deferred!ErrorsTold
    BY Zenon DEF Deferred!CallsBack
  <2>2. told' # "error"
    BY <1>2
  <2>3. kind # "get" =>
              /\ Deferred!Given("onError", "error")' \subseteq Deferred!Called("failed")'
              /\ born => Deferred!Given("onError", "waiting")' \subseteq Deferred!Called("failed")'
    BY <1>5, <1>6, <2>1, Zenon DEF Deferred!ErrorsTold
  <2>4. ~failed => Deferred!Called("failed")' = {}
    BY <1>5, <2>1, Zenon DEF Deferred!ErrorsTold
  <2>5. QED
    BY <1>7, <2>2, <2>3, <2>4 DEF Deferred!ErrorsTold
<1>13. Deferred!FinalizedInTheEnd'
  BY <1>2 DEF Deferred!FinalizedInTheEnd
<1>14. QED
  BY <1>8, <1>9, <1>10, <1>11, <1>12, <1>13, Zenon DEF Deferred!CallsBack

\* At the end the last callback for it is called, and nothing after it.
LEMMA DestroyKeeps ==
    ASSUME KindInv, Deferred!Destroy
    PROVE  KindInv'
<1> USE DEF KindInv
<1>1. /\ told # "gone" /\ told' = "gone" /\ calls' = calls \o Deferred!CallOf("finalize", "gone")
      /\ UNCHANGED <<kind, born, failed, slots, registered>>
  BY Zenon DEF Deferred!Destroy, Deferred!Call
<1>2. "finalize" \in Deferred!Slots /\ "gone" \in Ons
  BY DEF Deferred!Slots, Ons
<1>3. /\ calls' \in Seq(CallRec)
      /\ slots["finalize"] # 0 =>
            /\ Len(calls') = Len(calls) + 1
            /\ calls'[Len(calls) + 1] = [cb |-> slots["finalize"], on |-> "gone"]
            /\ Deferred!On("gone")' = Deferred!On("gone") \cup {Len(calls) + 1}
      /\ \A p : p # "gone" => /\ Deferred!On(p)' = Deferred!On(p)
                              /\ Deferred!Called(p)' = Deferred!Called(p)
  BY <1>1, <1>2, CallEffect
<1>4. \A p \in {"success", "error", "failed"} :
         Deferred!On(p)' = Deferred!On(p) /\ Deferred!Called(p)' = Deferred!Called(p)
  BY <1>3
<1>5. \A n, t : Deferred!Given(n, t)' = Deferred!Given(n, t)
  BY <1>1, SameGiven
<1>6. /\ kind' = kind /\ born' = born /\ failed' = failed /\ slots' = slots
      /\ registered' = registered /\ Len(registered') = Len(registered)
  BY <1>1
<1>7. KindTypes'
  BY <1>1, <1>3, <1>6, Zenon DEF KindTypes
<1>8. Holds("error", "onError")' /\ Holds("finalize", "onFinalize")' /\ HoldsSuccess'
  BY <1>1, SameMembers
<1>9. Untold' /\ Facts'
  BY <1>1, <1>6 DEF Untold, Facts
<1>10. Deferred!OneSuccess'
  <2>1. told' # "success"
    BY <1>1
  <2>2. QED
    BY <1>4, <1>5, <1>6, <2>1 DEF Deferred!OneSuccess, Deferred!CallsBack
<1>11. Deferred!ErrorsTold'
  <2>1. Deferred!ErrorsTold
    BY Zenon DEF Deferred!CallsBack
  <2>2. told' # "error"
    BY <1>1
  <2>3. kind # "get" =>
              /\ Deferred!Given("onError", "error")' \subseteq Deferred!Called("failed")'
              /\ born => Deferred!Given("onError", "waiting")' \subseteq Deferred!Called("failed")'
    BY <1>4, <1>5, <2>1, Zenon DEF Deferred!ErrorsTold
  <2>4. ~failed => Deferred!Called("failed")' = {}
    BY <1>4, <2>1, Zenon DEF Deferred!ErrorsTold
  <2>5. QED
    BY <1>6, <2>2, <2>3, <2>4 DEF Deferred!ErrorsTold
<1>12. Deferred!FinalizedInTheEnd'
  <2> DEFINE F == {cb \in DOMAIN registered : registered[cb].method = "onFinalize"}
             f == slots["finalize"]
  <2>1. ASSUME F # {} PROVE f # 0 /\ Deferred!Latest(F) = f
    <3>1. DOMAIN registered = 1..Len(registered) /\ Len(registered) \in Nat
      BY KindLengths
    <3>2. f # 0
      BY <2>1, <3>1, Zenon DEF Holds
    <3>3. f \in 1..Len(registered)
      <4>1. f \in 0..Len(registered)
        BY <1>2, Zenon DEF KindTypes
      <4>2. QED
        BY <3>1, <3>2, <4>1
    <3>4. /\ registered[f].method = "onFinalize"
          /\ \A i \in 1..Len(registered) : registered[i].method = "onFinalize" => i <= f
      BY <3>2, Zenon DEF Holds
    <3>5. f \in F /\ (\A i \in F : i <= f) /\ \A i \in F : i \in Nat
      BY <3>1, <3>3, <3>4
    <3> HIDE DEF F, f
    <3>6. \A x \in F : (\A i \in F : i <= x) => x = f
      BY <3>5
    <3>7. QED
      BY <3>2, <3>5, <3>6 DEF Deferred!Latest
  <2>2. ASSUME F # {}
        PROVE  /\ Deferred!Last(calls') = [cb |-> Deferred!Latest(F), on |-> "gone"]
               /\ Deferred!Cardinality(Deferred!On("gone")') = 1
    <3>1. Deferred!On("gone") = {}
      BY <1>1 DEF Facts
    <3>2. /\ Len(calls') = Len(calls) + 1
          /\ calls'[Len(calls) + 1] = [cb |-> f, on |-> "gone"]
          /\ Deferred!On("gone")' = {Len(calls) + 1}
      BY <1>3, <2>1, <2>2, <3>1
    <3>3. QED
      BY <2>1, <2>2, <3>2, OneCalled DEF Deferred!Last
  <2>3. F' = F
    BY <1>1
  <2> HIDE DEF F
  <2>4. QED
    BY <2>2, <2>3, Zenon DEF Deferred!FinalizedInTheEnd, F
<1>13. QED
  BY <1>7, <1>8, <1>9, <1>10, <1>11, <1>12, Zenon DEF Deferred!CallsBack

\* Every method registers as RegisterKeeps has it.
LEMMA MethodsKeep ==
    ASSUME KindInv,
           \/ Deferred!OnSuccess \/ Deferred!OnQueueSuccess \/ Deferred!OnDeleteSuccess
           \/ Deferred!OnCancelSuccess \/ Deferred!OnConsumeSuccess
           \/ Deferred!OnError \/ Deferred!OnFinalize \/ Deferred!OnGet \/ Deferred!OnConfirm
    PROVE  KindInv'
<1>1. ASSUME NEW s \in {"success", "special"}, Deferred!Register("onSuccess", s, FALSE)
      PROVE  KindInv'
  <2>1. "onSuccess" \in Methods /\ s \in Deferred!Slots /\ FALSE \in BOOLEAN
    BY DEF Methods, Deferred!Slots
  <2>2. QED
    BY <1>1, <2>1, RegisterKeeps
<1>2. ASSUME NEW s \in {"message", "count", "empty", "ack", "nack"},
             NEW m \in {"onReceived", "onCount", "onEmpty", "onAck", "onNack"},
             Deferred!Register(m, s, FALSE)
      PROVE  KindInv'
  <2>1. m \in Methods /\ s \in Deferred!Slots /\ FALSE \in BOOLEAN
    BY DEF Methods, Deferred!Slots
  <2>2. /\ s # "error" /\ s # "finalize" /\ s \notin {"success", "special"}
        /\ m # "onError" /\ m # "onFinalize" /\ m # "onSuccess"
    OBVIOUS
  <2>3. QED
    BY <1>2, <2>1, <2>2, RegisterKeeps
<1>3. CASE Deferred!OnSuccess \/ Deferred!OnQueueSuccess \/ Deferred!OnDeleteSuccess
           \/ Deferred!OnCancelSuccess \/ Deferred!OnConsumeSuccess
  <2>1. \/ Deferred!Register("onSuccess", "success", FALSE)
        \/ Deferred!Register("onSuccess", "special", FALSE)
    BY <1>3, Zenon DEF Deferred!OnSuccess, Deferred!OnQueueSuccess, Deferred!OnDeleteSuccess,
       Deferred!OnCancelSuccess, Deferred!OnConsumeSuccess, Deferred!OnSpecialSuccess
  <2>2. QED
    BY <1>1, <2>1
<1>4. CASE Deferred!OnError
  <2>1. "onError" \in Methods /\ "error" \in Deferred!Slots /\ TRUE \in BOOLEAN /\ FALSE \in BOOLEAN
    BY DEF Methods, Deferred!Slots
  <2>2. CASE failed /\ kind # "get"
    <3>1. Deferred!Register("onError", "error", TRUE)
      BY <1>4, <2>2 DEF Deferred!OnError, Deferred!Register
    <3>2. QED
      BY <2>1, <2>2, <3>1, RegisterKeeps
  <2>3. CASE ~(failed /\ kind # "get")
    <3>1. Deferred!Register("onError", "error", FALSE)
      BY <1>4, <2>3 DEF Deferred!OnError, Deferred!Register
    <3>2. QED
      BY <2>1, <2>3, <3>1, RegisterKeeps
  <2>4. QED
    BY <2>2, <2>3
<1>5. CASE Deferred!OnFinalize
  <2>1. /\ "onFinalize" \in Methods /\ "finalize" \in Deferred!Slots
        /\ TRUE \in BOOLEAN /\ FALSE \in BOOLEAN
    BY DEF Methods, Deferred!Slots
  <2>2. CASE failed
    <3>1. Deferred!Register("onFinalize", "finalize", TRUE)
      BY <1>5, <2>2 DEF Deferred!OnFinalize, Deferred!Register
    <3>2. QED
      BY <2>1, <2>2, <3>1, RegisterKeeps
  <2>3. CASE ~failed
    <3>1. Deferred!Register("onFinalize", "finalize", FALSE)
      BY <1>5, <2>3 DEF Deferred!OnFinalize, Deferred!Register
    <3>2. QED
      BY <2>1, <3>1, RegisterKeeps
  <2>4. QED
    BY <2>2, <2>3
<1>6. CASE Deferred!OnGet
  BY <1>2, <1>6 DEF Deferred!OnGet
<1>7. CASE Deferred!OnConfirm
  BY <1>2, <1>7 DEF Deferred!OnConfirm
<1>8. QED
  BY <1>3, <1>4, <1>5, <1>6, <1>7

LEMMA KindStarts ==
    ASSUME Init
    PROVE  KindInv
<1>1. /\ kind \in Deferred!Kinds /\ born \in BOOLEAN /\ failed = born
      /\ slots = [s \in Deferred!Slots |-> 0]
      /\ registered = <<>> /\ told = "waiting" /\ calls = <<>>
  BY Zenon DEF Init, Deferred!Init
<1>2. Len(registered) = 0 /\ Len(calls) = 0 /\ DOMAIN registered = {} /\ DOMAIN calls = {}
  BY <1>1
<1>3. registered \in Seq(Registration) /\ calls \in Seq(CallRec)
  BY <1>1
<1>4. slots \in [Deferred!Slots -> 0..Len(registered)] /\ \A s \in Deferred!Slots : slots[s] = 0
  BY <1>1, <1>2
<1>5. KindTypes
  BY <1>1, <1>3, <1>4 DEF KindTypes
<1>6. \A i \in 1..Len(registered) : FALSE
  BY <1>2
<1>7. Holds("error", "onError") /\ Holds("finalize", "onFinalize") /\ HoldsSuccess
  BY <1>4, <1>6 DEF Holds, HoldsSuccess, Deferred!Slots
<1>8. \A p : Deferred!On(p) = {}
  BY <1>2, Zenon DEF Deferred!On
<1>9. \A p : Deferred!Called(p) = {}
  BY <1>8, CalledNone
<1>10. \A n, t : Deferred!Given(n, t) = {}
  BY <1>2, Zenon DEF Deferred!Given
<1>11. Untold /\ Facts
  BY <1>1, <1>6, <1>8 DEF Untold, Facts
<1>12. Deferred!OneSuccess
  BY <1>1, <1>8, <1>9, <1>10 DEF Deferred!OneSuccess
<1>13. Deferred!ErrorsTold
  BY <1>1, <1>9, <1>10 DEF Deferred!ErrorsTold
<1>14. Deferred!FinalizedInTheEnd
  BY <1>1 DEF Deferred!FinalizedInTheEnd
<1>15. QED
  BY <1>5, <1>7, <1>11, <1>12, <1>13, <1>14, Zenon DEF KindInv, Deferred!CallsBack

\* Where nothing happens to the Deferred.
LEMMA KindUnchanged ==
    ASSUME KindInv, UNCHANGED deferredVars
    PROVE  KindInv'
<1>1. /\ kind' = kind /\ born' = born /\ failed' = failed /\ slots' = slots
      /\ registered' = registered /\ told' = told /\ calls' = calls
  BY DEF deferredVars
<1>2. /\ KindTypes' /\ Holds("error", "onError")' /\ Holds("finalize", "onFinalize")'
      /\ HoldsSuccess'
  BY <1>1, Zenon DEF KindInv, KindTypes, Holds, HoldsSuccess
<1>3. /\ \A p : Deferred!On(p)' = Deferred!On(p) /\ Deferred!Called(p)' = Deferred!Called(p)
      /\ \A n, t : Deferred!Given(n, t)' = Deferred!Given(n, t)
  BY <1>1, Zenon DEF Deferred!On, Deferred!Called, Deferred!Given
<1>4. Untold' /\ Facts'
  BY <1>1, <1>3, Zenon DEF KindInv, Untold, Facts
<1>5. Deferred!OneSuccess'
  BY <1>1, <1>3, Zenon DEF KindInv, Deferred!CallsBack, Deferred!OneSuccess
<1>6. Deferred!ErrorsTold'
  BY <1>1, <1>3 DEF KindInv, Deferred!CallsBack, Deferred!ErrorsTold, Deferred!Latest
<1>7. Deferred!FinalizedInTheEnd'
  <2> DEFINE F == {cb \in DOMAIN registered : registered[cb].method = "onFinalize"}
  <2>1. F' = F
    BY <1>1
  <2>2. Deferred!Last(calls') = Deferred!Last(calls)
    BY <1>1, Zenon
  <2> HIDE DEF F
  <2>3. QED
    BY <1>1, <1>3, <2>1, <2>2, Zenon
       DEF KindInv, Deferred!CallsBack, Deferred!FinalizedInTheEnd, F
<1>8. QED
  BY <1>2, <1>4, <1>5, <1>6, <1>7, Zenon DEF KindInv, Deferred!CallsBack

LEMMA KindStep ==
    ASSUME KindInv, [Next]_vars
    PROVE  KindInv'
<1>1. CASE UNCHANGED deferredVars
  BY <1>1, KindUnchanged
<1>2. CASE \/ Deferred!OnSuccess \/ Deferred!OnQueueSuccess \/ Deferred!OnDeleteSuccess
           \/ Deferred!OnCancelSuccess \/ Deferred!OnConsumeSuccess
           \/ Deferred!OnError \/ Deferred!OnFinalize \/ Deferred!OnGet \/ Deferred!OnConfirm
  BY <1>2, MethodsKeep
<1>3. CASE Deferred!ReportSuccess \/ Deferred!ReportError \/ Deferred!Confirms \/ Deferred!Destroy
  BY <1>3, ReportSuccessKeeps, ReportErrorKeeps, ConfirmsKeeps, DestroyKeeps
<1>4. CASE UNCHANGED vars
  BY <1>1, <1>4 DEF vars
<1>5. QED
  BY <1>1, <1>2, <1>3, <1>4, Zenon
     DEF Next, ChannelStep, DeferredStep, DeliveryStep, ValueStep

\* deferred.h and the classes derived from it: the callbacks of a Deferred are called as
\* its class promises, for any number of them, registered at any time.
THEOREM CallsPromised == Spec => []CallsBack
<1>1. Init => KindInv
  BY KindStarts
<1>2. KindInv /\ [Next]_vars => KindInv'
  BY KindStep
<1>3. KindInv => CallsBack
  BY DEF KindInv, CallsBack
<1>4. QED
  BY <1>1, <1>2, <1>3, PTL DEF Spec
-----------------------------------------------------------------------------
(* Messages: what a receiver has heard *)

SendingRec ==
    [at : {"header", "body"}, to : Delivery!Receivers, id : Nat, size : 0..MaxSize, sent : Nat,
     whole : BOOLEAN]

HeardRec ==
    [who : Delivery!Receivers, what : Delivery!Callbacks, id : Nat, body : Seq(Nat \X Nat)]

\* MessagesWhole, of any sequence of calls.
Whole(h) ==
    /\ \A i \in 1..Len(h) : h[i].what = "message" =>
          \E n \in 0..MaxSize : h[i].body = Delivery!Bytes(h[i].id, n)
    /\ \A i, j \in 1..Len(h) :
          h[i].what = "message" /\ h[j].what = "message" /\ h[i].id = h[j].id => i = j
    /\ \A i, j \in 1..Len(h) : i < j => h[i].id <= h[j].id
    /\ \A i, j \in 1..Len(h) : h[i].id = h[j].id => h[i].who = h[j].who
    /\ \A i, j \in 1..Len(h) :
          h[i].what = "data" /\ h[j].what = "data" /\ i < j /\ h[i].id = h[j].id =>
             Delivery!Last(h[i].body)[2] < h[j].body[1][2]

\* Of message id only data up to the byte n was told so far, to its receiver.
Before(h, id, to, n) ==
    \A i \in 1..Len(h) :
        /\ h[i].id \in 0..id
        /\ h[i].id = id => /\ h[i].who = to /\ h[i].what = "data"
                           /\ Delivery!Last(h[i].body)[2] \in 0..n

\* The calls for one frame of message id, that starts behind the byte n.
OfFrame(s, id, to, n) ==
    /\ \A i \in 1..Len(s) : s[i].id = id /\ s[i].who = to
    /\ \A i \in 1..Len(s) : s[i].what = "message" =>
          \E k \in 0..MaxSize : s[i].body = Delivery!Bytes(s[i].id, k)
    /\ \A i \in 1..Len(s) : s[i].what = "data" => s[i].body[1][2] = n + 1
    /\ \A i, j \in 1..Len(s) : s[i].what = s[j].what => i = j

LEMMA ConcatParts ==
    ASSUME NEW S, NEW h \in Seq(S), NEW s \in Seq(S)
    PROVE  /\ h \o s \in Seq(S) /\ Len(h \o s) = Len(h) + Len(s) /\ Len(h) \in Nat /\ Len(s) \in Nat
           /\ \A i \in 1..Len(h) : i \in 1..Len(h \o s) /\ (h \o s)[i] = h[i]
           /\ \A i \in 1..Len(s) : Len(h) + i \in 1..Len(h \o s) /\ (h \o s)[Len(h) + i] = s[i]
           /\ \A i \in 1..Len(h \o s) :
                 \/ i \in 1..Len(h) /\ (h \o s)[i] = h[i]
                 \/ i - Len(h) \in 1..Len(s) /\ (h \o s)[i] = s[i - Len(h)]
<1> DEFINE g == h \o s
           H == Len(h)
           N == Len(s)
<1>1. /\ g \in Seq(S) /\ Len(g) = H + N /\ H \in Nat /\ N \in Nat
      /\ \A i \in 1..(H + N) : g[i] = IF i <= H THEN h[i] ELSE s[i - H]
  BY ConcatProperties, LenProperties
<1> HIDE DEF g, H, N
<1>2. \A i \in 1..H : i \in 1..Len(g) /\ g[i] = h[i]
  BY <1>1
<1>3. \A i \in 1..N : H + i \in 1..Len(g) /\ g[H + i] = s[i]
  <2>1. \A i \in 1..N : H + i \in 1..(H + N) /\ ~(H + i <= H) /\ (H + i) - H = i
    BY <1>1
  <2>2. \A i \in 1..N : g[H + i] = s[(H + i) - H]
    BY <1>1, <2>1
  <2>3. QED
    BY <1>1, <2>1, <2>2
<1>4. \A i \in 1..Len(g) : \/ i \in 1..H /\ g[i] = h[i]
                           \/ i - H \in 1..N /\ g[i] = s[i - H]
  <2>1. \A i \in 1..(H + N) : i \in 1..H \/ (i - H \in 1..N /\ ~(i <= H))
    BY <1>1
  <2>2. QED
    BY <1>1, <2>1
<1>5. QED
  BY <1>1, <1>2, <1>3, <1>4, Zenon DEF g, H, N

\* Nothing is told twice, or late, or to somebody else.
LEMMA WholeMore ==
    ASSUME NEW h \in Seq(HeardRec), NEW s \in Seq(HeardRec), NEW id \in Nat, NEW to, NEW n \in Nat,
           Whole(h), Before(h, id, to, n), OfFrame(s, id, to, n)
    PROVE  Whole(h \o s)
<1> DEFINE g == h \o s
           H == Len(h)
           N == Len(s)
<1>1. /\ H \in Nat /\ N \in Nat /\ Len(g) = H + N
      /\ \A i \in 1..Len(g) : \/ i \in 1..H /\ g[i] = h[i]
                              \/ i - H \in 1..N /\ g[i] = s[i - H]
  BY ConcatParts
<1> HIDE DEF g, H, N
<1>2. ASSUME NEW i \in 1..H, NEW j \in 1..Len(g), j - H \in 1..N
      PROVE  i < j /\ i # j /\ ~(j < i)
  BY <1>1, <1>2
<1>3. ASSUME NEW i \in 1..Len(g), NEW j \in 1..Len(g), i - H = j - H PROVE i = j /\ ~(i < j)
  BY <1>1, <1>3
<1>4. \A i \in 1..N : s[i].id = id /\ s[i].who = to
  BY Zenon DEF OfFrame, N
<1>5. \A i \in 1..H : h[i].id \in 0..id /\ (h[i].id = id => h[i].who = to /\ h[i].what = "data"
                                              /\ Delivery!Last(h[i].body)[2] \in 0..n)
  BY Zenon DEF Before, H
<1>6. ASSUME NEW i \in 1..Len(g), g[i].what = "message"
      PROVE  \E k \in 0..MaxSize : g[i].body = Delivery!Bytes(g[i].id, k)
  <2>1. CASE i \in 1..H /\ g[i] = h[i]
    BY <1>6, <2>1 DEF Whole, H
  <2>2. CASE i - H \in 1..N /\ g[i] = s[i - H]
    BY <1>6, <2>2 DEF OfFrame, N
  <2>3. QED
    BY <1>1, <2>1, <2>2, Zenon
<1>7. ASSUME NEW i \in 1..Len(g), NEW j \in 1..Len(g),
             g[i].what = "message", g[j].what = "message", g[i].id = g[j].id
      PROVE  i = j
  <2>1. CASE i \in 1..H /\ g[i] = h[i] /\ j \in 1..H /\ g[j] = h[j]
    BY <1>7, <2>1, Zenon DEF Whole, H
  <2>2. CASE i \in 1..H /\ g[i] = h[i] /\ j - H \in 1..N /\ g[j] = s[j - H]
    <3>1. h[i].id = id
      BY <1>4, <1>7, <2>2, Zenon
    <3>2. QED
      BY <1>5, <1>7, <2>2, <3>1
  <2>3. CASE j \in 1..H /\ g[j] = h[j] /\ i - H \in 1..N /\ g[i] = s[i - H]
    <3>1. h[j].id = id
      BY <1>4, <1>7, <2>3, Zenon
    <3>2. QED
      BY <1>5, <1>7, <2>3, <3>1
  <2>4. CASE i - H \in 1..N /\ g[i] = s[i - H] /\ j - H \in 1..N /\ g[j] = s[j - H]
    <3>1. i - H = j - H
      BY <1>7, <2>4, Zenon DEF OfFrame, N
    <3>2. QED
      BY <1>3, <3>1, Zenon
  <2>5. QED
    BY <1>1, <2>1, <2>2, <2>3, <2>4, Zenon
<1>8. ASSUME NEW i \in 1..Len(g), NEW j \in 1..Len(g), i < j
      PROVE  g[i].id <= g[j].id
  <2>1. CASE i \in 1..H /\ g[i] = h[i] /\ j \in 1..H /\ g[j] = h[j]
    BY <1>8, <2>1, Zenon DEF Whole, H
  <2>2. CASE j - H \in 1..N /\ g[j] = s[j - H]
    <3>1. g[j].id = id
      BY <1>4, <2>2, Zenon
    <3>2. g[i].id \in 0..id
      <4>1. CASE i \in 1..H /\ g[i] = h[i]
        BY <1>5, <4>1, Zenon
      <4>2. CASE i - H \in 1..N /\ g[i] = s[i - H]
        BY <1>4, <4>2
      <4>3. QED
        BY <1>1, <4>1, <4>2, Zenon
    <3>3. QED
      BY <3>1, <3>2
  <2>3. CASE j \in 1..H /\ i - H \in 1..N
    BY <1>2, <1>8, <2>3, Zenon
  <2>4. QED
    BY <1>1, <2>1, <2>2, <2>3, Zenon
<1>9. ASSUME NEW i \in 1..Len(g), NEW j \in 1..Len(g), g[i].id = g[j].id
      PROVE  g[i].who = g[j].who
  <2>1. CASE i \in 1..H /\ g[i] = h[i] /\ j \in 1..H /\ g[j] = h[j]
    BY <1>9, <2>1, Zenon DEF Whole, H
  <2>2. ASSUME NEW a \in 1..Len(g), g[a].id = id PROVE g[a].who = to
    BY <1>1, <1>4, <1>5, <2>2, Zenon
  <2>3. CASE i - H \in 1..N /\ g[i] = s[i - H]
    BY <1>4, <1>9, <2>2, <2>3, Zenon
  <2>4. CASE j - H \in 1..N /\ g[j] = s[j - H]
    BY <1>4, <1>9, <2>2, <2>4, Zenon
  <2>5. QED
    BY <1>1, <2>1, <2>3, <2>4, Zenon
<1>10. ASSUME NEW i \in 1..Len(g), NEW j \in 1..Len(g),
              g[i].what = "data", g[j].what = "data", i < j, g[i].id = g[j].id
       PROVE  Delivery!Last(g[i].body)[2] < g[j].body[1][2]
  <2>1. CASE i \in 1..H /\ g[i] = h[i] /\ j \in 1..H /\ g[j] = h[j]
    BY <1>10, <2>1, Zenon DEF Whole, H
  <2>2. CASE i \in 1..H /\ g[i] = h[i] /\ j - H \in 1..N /\ g[j] = s[j - H]
    <3>1. h[i].id = id
      BY <1>4, <1>10, <2>2, Zenon
    <3>2. Delivery!Last(g[i].body)[2] \in 0..n
      BY <1>5, <2>2, <3>1, Zenon
    <3>3. g[j].body[1][2] = n + 1
      BY <1>10, <2>2, Zenon DEF OfFrame, N
    <3>4. QED
      BY <3>2, <3>3
  <2>3. CASE j \in 1..H /\ i - H \in 1..N
    BY <1>2, <1>10, <2>3, Zenon
  <2>4. CASE i - H \in 1..N /\ g[i] = s[i - H] /\ j - H \in 1..N /\ g[j] = s[j - H]
    <3>1. i - H = j - H
      BY <1>10, <2>4, Zenon DEF OfFrame, N
    <3>2. QED
      BY <1>3, <1>10, <3>1, Zenon
  <2>5. QED
    BY <1>1, <2>1, <2>2, <2>3, <2>4, Zenon
<1>11. QED
  BY <1>6, <1>7, <1>8, <1>9, <1>10, Zenon DEF Whole, g

\* The bytes of a message.
LEMMA BytesUpTo ==
    ASSUME NEW id \in Nat, NEW n \in Nat
    PROVE  /\ Delivery!Bytes(id, n) \in Seq(Nat \X Nat) /\ Len(Delivery!Bytes(id, n)) = n
           /\ DOMAIN Delivery!Bytes(id, n) = 1..n
           /\ \A i \in 1..n : Delivery!Bytes(id, n)[i] = <<id, i>>
<1>1. Delivery!Bytes(id, n) \in [1..n -> Nat \X Nat]
  BY DEF Delivery!Bytes
<1>2. Delivery!Bytes(id, n) \in Seq(Nat \X Nat)
  BY <1>1
<1>3. Len(Delivery!Bytes(id, n)) = n
  BY <1>1, <1>2, LenProperties
<1>4. QED
  BY <1>1, <1>2, <1>3 DEF Delivery!Bytes

\* The bytes of a body frame.
FrameBytes(id, got, n) == [i \in 1..n |-> <<id, got + i>>]

LEMMA BytesOfFrame ==
    ASSUME NEW id \in Nat, NEW got \in Nat, NEW n \in Nat
    PROVE  /\ FrameBytes(id, got, n) \in Seq(Nat \X Nat) /\ Len(FrameBytes(id, got, n)) = n
           /\ \A i \in 1..n : FrameBytes(id, got, n)[i] = <<id, got + i>>
<1>1. FrameBytes(id, got, n) \in [1..n -> Nat \X Nat]
  BY DEF FrameBytes
<1>2. FrameBytes(id, got, n) \in Seq(Nat \X Nat)
  BY <1>1
<1>3. Len(FrameBytes(id, got, n)) = n
  BY <1>1, <1>2, LenProperties
<1>4. QED
  BY <1>2, <1>3 DEF FrameBytes

\* Two sequences of the same elements.
LEMMA SameSequence ==
    ASSUME NEW S, NEW s \in Seq(S), NEW t \in Seq(S), NEW n \in Nat, Len(s) = n, Len(t) = n,
           \A i \in 1..n : s[i] = t[i]
    PROVE  s = t
BY LenProperties, SeqEqual

\* A message with the first bytes of its body.
PartOf(id, size, got) ==
    [made |-> TRUE, size |-> size, filled |-> got, copies |-> IF got = 0 THEN FALSE ELSE TRUE,
     body |-> Delivery!Bytes(id, got)]

LEMMA PartFields ==
    ASSUME NEW id, NEW size, NEW got
    PROVE  /\ PartOf(id, size, got).made /\ PartOf(id, size, got).size = size
           /\ PartOf(id, size, got).filled = got /\ (PartOf(id, size, got).copies <=> got # 0)
           /\ PartOf(id, size, got).body = Delivery!Bytes(id, got)
BY DEF PartOf

\* A new message has none of them.
LEMMA NewPart ==
    ASSUME NEW id \in Nat
    PROVE  Delivery!NewMessage = PartOf(id, 0, 0)
<1>1. <<>> \in Seq(Nat \X Nat) /\ Len(<<>>) = 0
  OBVIOUS
<1>2. Delivery!Bytes(id, 0) \in Seq(Nat \X Nat) /\ Len(Delivery!Bytes(id, 0)) = 0 /\ 0 \in Nat
  BY BytesUpTo
<1>3. <<>> = Delivery!Bytes(id, 0)
  BY <1>1, <1>2, SameSequence
<1>4. QED
  BY <1>3 DEF Delivery!NewMessage, PartOf

\* What body() returns when all bytes are there.
LEMMA WholeBody ==
    ASSUME NEW m, NEW id \in Nat, NEW size \in Nat, m.size = size, m.body = Delivery!Bytes(id, size)
    PROVE  Delivery!Body(m) = Delivery!Bytes(id, size)
<1>1. Delivery!Bytes(id, size) \in Seq(Nat \X Nat) /\ Len(Delivery!Bytes(id, size)) = size
  BY BytesUpTo
<1>2. Delivery!Least(m.size, Len(m.body)) = size
  BY <1>1 DEF Delivery!Least
<1>3. Delivery!Body(m) = SubSeq(Delivery!Bytes(id, size), 1, Len(Delivery!Bytes(id, size)))
  BY <1>1, <1>2, Zenon DEF Delivery!Body
<1>4. QED
  BY <1>1, <1>3, SubSeqFull

\* append() puts the bytes of a frame behind those that are there.
LEMMA AppendTogether ==
    ASSUME NEW id \in Nat, NEW size \in Nat, NEW got \in Nat, NEW n \in Nat, n > 0,
           got + n <= size
    PROVE  LET a == Delivery!AppendBytes(PartOf(id, size, got), FrameBytes(id, got, n)) IN
           /\ a.made /\ a.size = size /\ a.body = Delivery!Bytes(id, got + n)
           /\ got + n < size => a = PartOf(id, size, got + n)
<1> DEFINE m == PartOf(id, size, got)
           b == FrameBytes(id, got, n)
           a == Delivery!AppendBytes(m, b)
<1>1. /\ b \in Seq(Nat \X Nat) /\ Len(b) = n /\ \A i \in 1..n : b[i] = <<id, got + i>>
  BY BytesOfFrame
<1>2. /\ Delivery!Bytes(id, got) \in Seq(Nat \X Nat) /\ Len(Delivery!Bytes(id, got)) = got
      /\ \A i \in 1..got : Delivery!Bytes(id, got)[i] = <<id, i>>
  BY BytesUpTo
<1>3. /\ got + n \in Nat
      /\ Delivery!Bytes(id, got + n) \in Seq(Nat \X Nat)
      /\ Len(Delivery!Bytes(id, got + n)) = got + n
      /\ \A i \in 1..(got + n) : Delivery!Bytes(id, got + n)[i] = <<id, i>>
  <2>1. got + n \in Nat
    OBVIOUS
  <2>2. QED
    BY <2>1, BytesUpTo
<1>4. /\ m.made /\ m.size = size /\ m.filled = got /\ (m.copies <=> got # 0)
      /\ m.body = Delivery!Bytes(id, got)
  BY PartFields
<1>5. got + n # 0 /\ got \in Int /\ n \in Int
  OBVIOUS
<1> HIDE DEF b
<1>6. CASE got # 0
  <2> DEFINE c == Delivery!Bytes(id, got) \o b
  <2>1. m.copies
    BY <1>4, <1>6
  <2>2. Delivery!Least(Len(b), m.size - m.filled) = n
    BY <1>1, <1>4 DEF Delivery!Least
  <2>3. SubSeq(m.body, 1, m.filled) = Delivery!Bytes(id, got)
    BY <1>2, <1>4, SubSeqFull
  <2>4. SubSeq(b, 1, n) = b
    BY <1>1, SubSeqFull
  <2>5. a = [m EXCEPT !.body = SubSeq(@, 1, m.filled) \o SubSeq(b, 1, n), !.filled = @ + n]
    BY <2>1, <2>2 DEF Delivery!AppendBytes
  <2>6. a = [made |-> TRUE, size |-> size, filled |-> got + n, copies |-> IF got = 0 THEN FALSE ELSE TRUE,
             body |-> SubSeq(Delivery!Bytes(id, got), 1, got) \o SubSeq(b, 1, n)]
    BY <2>5 DEF PartOf
  <2>7. SubSeq(Delivery!Bytes(id, got), 1, got) \o SubSeq(b, 1, n) = c
    BY <1>4, <2>3, <2>4
  <2>8. /\ c \in Seq(Nat \X Nat) /\ Len(c) = got + n
        /\ \A i \in 1..(got + n) : c[i] = IF i <= got THEN Delivery!Bytes(id, got)[i] ELSE b[i - got]
    <3> HIDE DEF b
    <3>1. b \in Seq(Nat \X Nat) /\ Delivery!Bytes(id, got) \in Seq(Nat \X Nat)
      BY <1>1, <1>2, Zenon
    <3>2. /\ c \in Seq(Nat \X Nat) /\ Len(c) = Len(Delivery!Bytes(id, got)) + Len(b)
          /\ \A i \in 1..(Len(Delivery!Bytes(id, got)) + Len(b)) :
                c[i] = IF i <= Len(Delivery!Bytes(id, got)) THEN Delivery!Bytes(id, got)[i]
                       ELSE b[i - Len(Delivery!Bytes(id, got))]
      BY <3>1, ConcatProperties
    <3>3. QED
      BY <1>1, <1>2, <3>2, Zenon
  <2> HIDE DEF c
  <2>9. c = Delivery!Bytes(id, got + n)
    <3>1. ASSUME NEW i \in 1..(got + n) PROVE c[i] = Delivery!Bytes(id, got + n)[i]
      <4>1. CASE i <= got
        <5>1. i \in 1..got
          BY <4>1
        <5>2. QED
          BY <1>2, <1>3, <2>8, <4>1, <5>1
      <4>2. CASE ~(i <= got)
        <5>1. i - got \in 1..n /\ got + (i - got) = i
          BY <4>2
        <5>2. c[i] = <<id, got + (i - got)>>
          BY <1>1, <2>8, <4>2, <5>1
        <5>3. QED
          BY <1>3, <5>1, <5>2
      <4>3. QED
        BY <4>1, <4>2
    <3>2. QED
      BY <1>3, <2>8, <3>1, SameSequence
  <2>10. a = [made |-> TRUE, size |-> size, filled |-> got + n, copies |-> TRUE,
              body |-> Delivery!Bytes(id, got + n)]
    BY <1>6, <2>6, <2>7, <2>9
  <2>11. a = PartOf(id, size, got + n)
    BY <1>5, <2>10 DEF PartOf
  <2>12. a.made /\ a.size = size /\ a.body = Delivery!Bytes(id, got + n)
    BY <2>10
  <2>13. QED
    BY <2>11, <2>12, Zenon DEF b
<1>7. CASE got = 0
  <2>1. ~m.copies
    BY <1>4, <1>7
  <2>2. b = Delivery!Bytes(id, got + n)
    <3>1. got + n = n /\ \A i \in 1..n : got + i = i
      BY <1>7
    <3>2. Len(b) = got + n /\ \A i \in 1..(got + n) : b[i] = Delivery!Bytes(id, got + n)[i]
      BY <1>1, <1>3, <3>1, Zenon
    <3>3. b \in Seq(Nat \X Nat) /\ Len(Delivery!Bytes(id, got + n)) = got + n
      BY <1>1, <1>3, Zenon
    <3>4. QED
      BY <1>3, <3>2, <3>3, SameSequence
  <2>3. CASE n >= size
    <3>1. a = [m EXCEPT !.body = b]
      BY <1>1, <1>4, <2>1, <2>3 DEF Delivery!AppendBytes
    <3>2. a.made /\ a.size = size /\ a.body = b
      BY <3>1 DEF PartOf
    <3>3. ~(got + n < size)
      BY <1>7, <2>3
    <3>4. QED
      BY <2>2, <3>2, <3>3, Zenon DEF b
  <2>4. CASE ~(n >= size)
    <3>1. a = [m EXCEPT !.copies = TRUE, !.body = b, !.filled = n]
      BY <1>1, <1>4, <2>1, <2>4 DEF Delivery!AppendBytes
    <3>2. a = [made |-> TRUE, size |-> size, filled |-> n, copies |-> TRUE, body |-> b]
      BY <3>1 DEF PartOf
    <3>3. a = PartOf(id, size, got + n)
      BY <1>5, <1>7, <2>2, <3>2 DEF PartOf
    <3>4. a.made /\ a.size = size /\ a.body = Delivery!Bytes(id, got + n)
      BY <3>2, <3>3 DEF PartOf
    <3>5. QED
      BY <3>3, <3>4, Zenon DEF b
  <2>5. QED
    BY <2>3, <2>4
<1>8. QED
  BY <1>6, <1>7 DEF b
-----------------------------------------------------------------------------
(* The invariant of the receivers *)

DeliveryTypes ==
    /\ receiver \in Delivery!Receivers \cup {"none"}
    /\ left \in [Delivery!Receivers -> Int] /\ DOMAIN message = Delivery!Receivers
    /\ sending \in SendingRec \cup {Delivery!Idle}
    /\ messages \in Nat /\ heard \in Seq(HeardRec)

FramesInTurn ==
    sending # Delivery!Idle =>
        /\ sending.id = messages
        /\ sending.at = "header" => sending.sent = 0
        /\ sending.at = "body" => sending.sent < sending.size

\* The message as far as it was sent; its size comes with the header.
PartSent ==
    PartOf(sending.id, IF sending.at = "header" THEN 0 ELSE sending.size, sending.sent)

\* Only the receiver has a message, and it has what was sent.
Holding ==
    /\ \A r \in Delivery!Receivers : r # receiver => message[r] = Delivery!NoMessage
    /\ receiver # "none" =>
          /\ sending # Delivery!Idle /\ receiver = sending.to
          /\ message[receiver] = IF sending.whole THEN PartSent ELSE Delivery!NoMessage
          /\ sending.at = "body" => left[receiver] = sending.size - sending.sent

\* Nobody has heard of what was not sent.
Behind ==
    /\ \A i \in 1..Len(heard) : heard[i].id \in 0..messages
    /\ sending # Delivery!Idle => Before(heard, sending.id, sending.to, sending.sent)

DeliveryInv == DeliveryTypes /\ FramesInTurn /\ Holding /\ Behind /\ Whole(heard)

LEMMA SendingFields ==
    ASSUME DeliveryTypes, sending # Delivery!Idle
    PROVE  /\ sending \in SendingRec /\ sending.at \in {"header", "body"}
           /\ sending.to \in Delivery!Receivers /\ sending.id \in Nat
           /\ sending.size \in 0..MaxSize /\ sending.size \in Nat /\ sending.sent \in Nat
           /\ sending.whole \in BOOLEAN
<1>1. sending \in SendingRec
  BY DEF DeliveryTypes
<1>2. MaxSize \in Nat
  BY AmqpObjectsAssumption
<1>3. QED
  BY <1>1, <1>2 DEF SendingRec

LEMMA IdleIsNot ==
    ASSUME NEW x, x.at \in {"header", "body"}
    PROVE  x # Delivery!Idle
BY DEF Delivery!Idle

LEMMA NobodyIsNone == "none" \notin Delivery!Receivers
BY AmqpObjectsAssumption DEF Delivery!Receivers

LEMMA ConstantSize == MaxSize \in Nat
BY AmqpObjectsAssumption

LEMMA HeardLength ==
    ASSUME DeliveryTypes
    PROVE  heard \in Seq(HeardRec) /\ Len(heard) \in Nat /\ DOMAIN heard = 1..Len(heard)
<1>1. heard \in Seq(HeardRec)
  BY Zenon DEF DeliveryTypes
<1>2. QED
  BY <1>1, LenProperties

\* What the run checks, of the calls so far.
LEMMA WholeIsWhole ==
    ASSUME DeliveryTypes
    PROVE  Delivery!MessagesWhole <=> Whole(heard)
<1> DEFINE H == Len(heard)
<1>1. DOMAIN heard = 1..H
  BY HeardLength
<1> HIDE DEF H
<1>2. /\ \A i \in Delivery!Heard("message") : i \in 1..H /\ heard[i].what = "message"
      /\ \A i \in 1..H : heard[i].what = "message" => i \in Delivery!Heard("message")
  BY <1>1, Zenon DEF Delivery!Heard
<1>3. /\ \A i \in Delivery!Heard("data") : i \in 1..H /\ heard[i].what = "data"
      /\ \A i \in 1..H : heard[i].what = "data" => i \in Delivery!Heard("data")
  BY <1>1, Zenon DEF Delivery!Heard
<1>4. (\A c \in Delivery!ToSet(heard) : c.what = "message" =>
           \E n \in 0..MaxSize : c.body = Delivery!Bytes(c.id, n))
        <=> \A i \in 1..H : heard[i].what = "message" =>
               \E n \in 0..MaxSize : heard[i].body = Delivery!Bytes(heard[i].id, n)
  BY <1>1 DEF Delivery!ToSet
<1>5. (\A i, j \in Delivery!Heard("message") : heard[i].id = heard[j].id => i = j)
        <=> \A i, j \in 1..H :
               heard[i].what = "message" /\ heard[j].what = "message" /\ heard[i].id = heard[j].id
               => i = j
  BY <1>2, Zenon
<1>6. (\A i, j \in Delivery!Heard("data") :
           i < j /\ heard[i].id = heard[j].id
           => Delivery!Last(heard[i].body)[2] < heard[j].body[1][2])
        <=> \A i, j \in 1..H :
               heard[i].what = "data" /\ heard[j].what = "data" /\ i < j /\ heard[i].id = heard[j].id
               => Delivery!Last(heard[i].body)[2] < heard[j].body[1][2]
  BY <1>3, Zenon
<1>7. QED
  BY <1>1, <1>4, <1>5, <1>6, Zenon DEF Delivery!MessagesWhole, Whole, H

-----------------------------------------------------------------------------
(* A message starts *)

LEMMA StartKeeps ==
    ASSUME DeliveryInv, NEW to \in Delivery!Receivers, Delivery!StartSending(to),
           UNCHANGED <<heard, left>>,
           \/ (to \in Tags => to \in consumers) /\ Delivery!Initialize(to)
           \/ UNCHANGED <<receiver, message>>
    PROVE  DeliveryInv' /\ sending' # Delivery!Idle
<1> USE DEF DeliveryInv
<1>1. /\ sending = Delivery!Idle /\ receiver = "none" /\ messages \in Nat /\ messages' = messages + 1
      /\ heard' = heard /\ left' = left
      /\ \A r \in Delivery!Receivers : message[r] = Delivery!NoMessage
      /\ DOMAIN message = Delivery!Receivers /\ left \in [Delivery!Receivers -> Int]
      /\ heard \in Seq(HeardRec)
  BY NobodyIsNone DEF Delivery!StartSending, DeliveryTypes, Holding
<1>2. PICK size \in 0..MaxSize :
         sending' = [at |-> "header", to |-> to, id |-> messages + 1, size |-> size, sent |-> 0,
                     whole |-> "message" \in listens[to] /\ (to \in Tags => to \in consumers)]
  BY Zenon DEF Delivery!StartSending
<1>3. /\ sending' \in SendingRec /\ sending'.at = "header" /\ sending'.to = to
      /\ sending'.id = messages + 1 /\ sending'.sent = 0
      /\ sending'.whole = ("message" \in listens[to] /\ (to \in Tags => to \in consumers))
  BY <1>1, <1>2 DEF SendingRec
<1>4. sending' # Delivery!Idle
  BY <1>3, IdleIsNot
<1>5. \/ receiver' = "none" /\ message' = message
      \/ /\ receiver' = to /\ sending'.whole = ("message" \in listens[to])
         /\ message' = IF "message" \in listens[to]
                       THEN [message EXCEPT ![to] = Delivery!NewMessage] ELSE message
  BY <1>1, <1>3 DEF Delivery!Initialize
<1>6. DOMAIN message' = Delivery!Receivers
  BY <1>1, <1>5
<1>7. DeliveryTypes'
  BY <1>1, <1>3, <1>5, <1>6 DEF DeliveryTypes
<1>8. FramesInTurn'
  BY <1>1, <1>3 DEF FramesInTurn
<1>9. Holding'
  <2>1. PartSent' = Delivery!NewMessage
    <3>1. PartSent' = PartOf(messages + 1, 0, 0)
      BY <1>3, Zenon DEF PartSent
    <3>2. messages + 1 \in Nat
      BY <1>1
    <3>3. QED
      BY <3>1, <3>2, NewPart
  <2>2. CASE receiver' = "none" /\ message' = message
    BY <1>1, <2>2, Zenon DEF Holding
  <2>3. CASE /\ receiver' = to /\ sending'.whole = ("message" \in listens[to])
             /\ message' = IF "message" \in listens[to]
                           THEN [message EXCEPT ![to] = Delivery!NewMessage] ELSE message
    <3>1. /\ message'[to] = IF sending'.whole THEN Delivery!NewMessage ELSE Delivery!NoMessage
          /\ \A r \in Delivery!Receivers : r # to => message'[r] = Delivery!NoMessage
      BY <1>1, <2>3
    <3>2. sending'.at # "body"
      BY <1>3
    <3>3. QED
      BY <1>3, <1>4, <2>1, <2>3, <3>1, <3>2, Zenon DEF Holding
  <2>4. QED
    BY <1>5, <2>2, <2>3, Zenon
<1>10. Behind'
  <2>1. \A i \in 1..Len(heard) : heard[i].id \in 0..messages
    BY Zenon DEF Behind
  <2>2. \A i \in 1..Len(heard) : heard[i].id \in 0..(messages + 1) /\ heard[i].id # messages + 1
    BY <1>1, <2>1
  <2>3. Before(heard, messages + 1, to, 0)
    BY <2>2, Zenon DEF Before
  <2>4. QED
    BY <1>1, <1>3, <2>2, <2>3, Zenon DEF Behind
<1>11. QED
  BY <1>1, <1>4, <1>7, <1>8, <1>9, <1>10, Zenon
-----------------------------------------------------------------------------
(* A frame *)

\* What a receiver hears of the data of a frame with n bytes.
FrameData(b, n) ==
    \/ b = <<>>
    \/ /\ n \in Nat /\ n > 0
       /\ b = <<Delivery!Call(sending.to, "data", FrameBytes(sending.id, sending.sent, n))>>

LEMMA CallFields ==
    ASSUME DeliveryTypes, sending # Delivery!Idle, NEW what \in Delivery!Callbacks,
           NEW body \in Seq(Nat \X Nat)
    PROVE  LET c == Delivery!Call(sending.to, what, body) IN
           /\ c \in HeardRec /\ c.who = sending.to /\ c.what = what /\ c.id = sending.id
           /\ c.body = body
           /\ <<c>> \in Seq(HeardRec) /\ Len(<<c>>) = 1 /\ <<c>>[1] = c
<1> DEFINE c == Delivery!Call(sending.to, what, body)
<1>1. sending.to \in Delivery!Receivers /\ sending.id \in Nat
  BY SendingFields
<1>2. /\ c \in HeardRec /\ c.who = sending.to /\ c.what = what /\ c.id = sending.id
      /\ c.body = body
  BY <1>1 DEF Delivery!Call, HeardRec
<1> HIDE DEF c
<1>3. <<c>> \in Seq(HeardRec) /\ Len(<<c>>) = 1 /\ <<c>>[1] = c
  BY <1>2
<1>4. QED
  BY <1>2, <1>3, Zenon DEF c

LEMMA DataFields ==
    ASSUME DeliveryTypes, sending # Delivery!Idle, NEW b, NEW n, FrameData(b, n)
    PROVE  /\ b \in Seq(HeardRec) /\ Len(b) \in {0, 1}
           /\ \A i \in 1..Len(b) :
                 /\ i = 1 /\ n \in Nat /\ b[i].who = sending.to /\ b[i].what = "data"
                 /\ b[i].id = sending.id /\ b[i].body[1][2] = sending.sent + 1
                 /\ Delivery!Last(b[i].body)[2] = sending.sent + n
<1>1. CASE b = <<>>
  <2>1. Len(b) = 0 /\ b \in Seq(HeardRec)
    BY <1>1
  <2>2. QED
    BY <2>1
<1>2. CASE b # <<>>
  <2> DEFINE bytes == FrameBytes(sending.id, sending.sent, n)
             c == Delivery!Call(sending.to, "data", bytes)
  <2>1. n \in Nat /\ n > 0 /\ b = <<c>>
    BY <1>2, Zenon DEF FrameData
  <2>2. sending.id \in Nat /\ sending.sent \in Nat
    BY SendingFields
  <2>3. /\ bytes \in Seq(Nat \X Nat) /\ Len(bytes) = n
        /\ \A i \in 1..n : bytes[i] = <<sending.id, sending.sent + i>>
    <3> DEFINE id == sending.id
               got == sending.sent
    <3>1. id \in Nat /\ got \in Nat
      BY <2>2
    <3> HIDE DEF id, got
    <3>2. /\ FrameBytes(id, got, n) \in Seq(Nat \X Nat) /\ Len(FrameBytes(id, got, n)) = n
          /\ \A i \in 1..n : FrameBytes(id, got, n)[i] = <<id, got + i>>
      BY <2>1, <3>1, BytesOfFrame
    <3>3. QED
      BY <3>2, Zenon DEF id, got
  <2> HIDE DEF bytes
  <2>4. bytes[1][2] = sending.sent + 1 /\ Delivery!Last(bytes)[2] = sending.sent + n
    BY <2>1, <2>3 DEF Delivery!Last
  <2>5. "data" \in Delivery!Callbacks
    BY DEF Delivery!Callbacks
  <2>6. /\ c \in HeardRec /\ c.who = sending.to /\ c.what = "data" /\ c.id = sending.id
        /\ c.body = bytes
        /\ <<c>> \in Seq(HeardRec) /\ Len(<<c>>) = 1 /\ <<c>>[1] = c
    BY <2>3, <2>5, CallFields
  <2> HIDE DEF c
  <2>7. b \in Seq(HeardRec) /\ Len(b) = 1 /\ b[1] = c
    BY <2>1, <2>6
  <2>8. \A i \in 1..Len(b) : i = 1
    BY <2>7
  <2>9. QED
    BY <2>1, <2>4, <2>6, <2>7, <2>8
<1>3. QED
  BY <1>1, <1>2

\* A frame after which more are to come.
LEMMA GoesOn ==
    ASSUME DeliveryInv, sending # Delivery!Idle, NEW b, NEW n \in Nat, FrameData(b, n),
           sending' \in SendingRec, sending'.at = "body", sending'.to = sending.to,
           sending'.id = sending.id, sending'.size = sending.size, sending'.whole = sending.whole,
           sending'.sent = sending.sent + n, sending'.sent < sending'.size,
           UNCHANGED <<receiver, messages>>,
           \/ receiver = "none" /\ UNCHANGED <<left, message, heard>>
           \/ /\ receiver # "none" /\ heard' = heard \o b
              /\ left' = [left EXCEPT ![receiver] = sending'.size - sending'.sent]
              /\ message' = [message EXCEPT ![receiver] =
                    IF sending'.whole THEN PartOf(sending'.id, sending'.size, sending'.sent)
                    ELSE Delivery!NoMessage]
    PROVE  DeliveryInv' /\ sending' # Delivery!Idle
<1> USE DEF DeliveryInv
<1>1. sending' # Delivery!Idle
  BY IdleIsNot
<1>2. /\ receiver \in Delivery!Receivers \cup {"none"} /\ left \in [Delivery!Receivers -> Int]
      /\ DOMAIN message = Delivery!Receivers /\ messages \in Nat /\ heard \in Seq(HeardRec)
      /\ receiver' = receiver /\ messages' = messages
  BY Zenon DEF DeliveryTypes
<1>3. /\ sending.id = messages /\ sending.sent \in Nat /\ sending.size \in Nat /\ sending.id \in Nat
      /\ sending'.sent \in Nat
  BY SendingFields DEF FramesInTurn
<1>4. /\ b \in Seq(HeardRec) /\ Len(b) \in {0, 1}
      /\ \A i \in 1..Len(b) :
            /\ i = 1 /\ b[i].who = sending.to /\ b[i].what = "data"
            /\ b[i].id = sending.id /\ b[i].body[1][2] = sending.sent + 1
            /\ Delivery!Last(b[i].body)[2] = sending.sent + n
  BY DataFields
<1>5. left' \in [Delivery!Receivers -> Int] /\ DOMAIN message' = Delivery!Receivers
  <2>1. sending'.size - sending'.sent \in Int
    BY <1>3
  <2>2. QED
    BY <1>2, <2>1
<1>6. FramesInTurn'
  BY <1>2, <1>3 DEF FramesInTurn
<1>7. Holding'
  <2>1. CASE receiver = "none" /\ UNCHANGED <<left, message, heard>>
    <3>1. message' = message /\ receiver' = "none"
      BY <1>2, <2>1
    <3>2. QED
      BY <2>1, <3>1, Zenon DEF Holding
  <2>2. CASE /\ receiver # "none" /\ heard' = heard \o b
             /\ left' = [left EXCEPT ![receiver] = sending'.size - sending'.sent]
             /\ message' = [message EXCEPT ![receiver] =
                    IF sending'.whole THEN PartOf(sending'.id, sending'.size, sending'.sent)
                    ELSE Delivery!NoMessage]
    <3>1. receiver \in Delivery!Receivers
      BY <1>2, <2>2
    <3>2. /\ left'[receiver] = sending'.size - sending'.sent
          /\ message'[receiver] = IF sending'.whole
                                  THEN PartOf(sending'.id, sending'.size, sending'.sent)
                                  ELSE Delivery!NoMessage
          /\ \A r \in Delivery!Receivers : r # receiver => message'[r] = message[r]
      BY <1>2, <2>2, <3>1
    <3>3. PartSent' = PartOf(sending'.id, sending'.size, sending'.sent)
      BY DEF PartSent
    <3>4. receiver = sending.to /\ \A r \in Delivery!Receivers : r # receiver => message[r] = Delivery!NoMessage
      BY <2>2, Zenon DEF Holding
    <3>5. QED
      BY <1>1, <1>2, <3>2, <3>3, <3>4, Zenon DEF Holding
  <2>3. QED
    BY <2>1, <2>2
<1>8. heard' \in Seq(HeardRec) /\ Behind' /\ Whole(heard')
  <2>1. Before(heard, sending.id, sending.to, sending.sent) /\ Whole(heard)
    BY Zenon DEF Behind
  <2>2. \A h, id, to, x, y : /\ Before(h, id, to, x) /\ id \in Nat /\ x \in Nat /\ y \in Nat /\ x <= y
                             => Before(h, id, to, y)
    BY DEF Before
  <2>3. sending.sent <= sending'.sent
    BY <1>3
  <2>4. Before(heard, sending.id, sending.to, sending'.sent)
    BY <1>3, <2>1, <2>2, <2>3
  <2>5. CASE heard' = heard
    BY <1>2, <1>3, <2>1, <2>4, <2>5, Zenon DEF Behind, Before
  <2>6. CASE heard' = heard \o b
    <3> DEFINE h == heard
               g == heard \o b
               id == sending.id
               to == sending.to
               got == sending.sent
    <3>1. OfFrame(b, id, to, got)
      BY <1>4 DEF OfFrame
    <3>2. h \in Seq(HeardRec) /\ b \in Seq(HeardRec) /\ id \in Nat /\ got \in Nat
      BY <1>2, <1>3, <1>4
    <3>3. Whole(h) /\ Before(h, id, to, got)
      BY <2>1
    <3> HIDE DEF id, to, got, h
    <3>4. Whole(h \o b)
      BY <3>1, <3>2, <3>3, WholeMore
    <3> HIDE DEF g
    <3>5. /\ g \in Seq(HeardRec)
          /\ \A i \in 1..Len(g) : \/ i \in 1..Len(h) /\ g[i] = h[i]
                                  \/ i - Len(h) \in 1..Len(b) /\ g[i] = b[i - Len(h)]
      BY <3>2, ConcatParts DEF g, h
    <3>6. Before(h, id, to, sending'.sent)
      BY <2>4, Zenon DEF h, id, to
    <3>7. \A i \in 1..Len(b) : b[i].id = id /\ b[i].who = to /\ b[i].what = "data"
                               /\ Delivery!Last(b[i].body)[2] = sending'.sent
      BY <1>4 DEF id, to
    <3>8. id \in 0..id /\ sending'.sent \in 0..sending'.sent
      BY <1>3, <3>2
    <3>9. Before(g, id, to, sending'.sent)
      <4>1. ASSUME NEW i \in 1..Len(g)
            PROVE  /\ g[i].id \in 0..id
                   /\ g[i].id = id => /\ g[i].who = to /\ g[i].what = "data"
                                      /\ Delivery!Last(g[i].body)[2] \in 0..sending'.sent
        <5>1. CASE i \in 1..Len(h) /\ g[i] = h[i]
          BY <3>6, <5>1, Zenon DEF Before
        <5>2. CASE i - Len(h) \in 1..Len(b) /\ g[i] = b[i - Len(h)]
          BY <3>7, <3>8, <5>2, Zenon
        <5>3. QED
          BY <3>5, <5>1, <5>2, Zenon
      <4>2. QED
        BY <4>1, Zenon DEF Before
    <3>10. \A i \in 1..Len(g) : g[i].id \in 0..id
      BY <3>9, Zenon DEF Before
    <3>11. heard' = g
      BY <2>6, Zenon DEF g
    <3>12. id = messages' /\ sending'.id = id /\ sending'.to = to
      BY <1>2, <1>3 DEF id, to
    <3>13. Behind'
      BY <3>9, <3>10, <3>11, <3>12, Zenon DEF Behind
    <3>14. QED
      BY <3>4, <3>5, <3>11, <3>13, Zenon DEF g, h
  <2>7. QED
    BY <2>5, <2>6
<1>9. DeliveryTypes'
  BY <1>2, <1>5, <1>8, Zenon DEF DeliveryTypes
<1>10. QED
  BY <1>1, <1>6, <1>7, <1>8, <1>9, Zenon

\* Three calls at most, of one sort each.
OneOfEach(b, m, d) ==
    /\ Len(b) \in {0, 1} /\ Len(m) \in {0, 1} /\ Len(d) \in {0, 1}
    /\ \A i \in 1..Len(b) : b[i].what = "data"
    /\ \A i \in 1..Len(m) : m[i].what = "message"
    /\ \A i \in 1..Len(d) : d[i].what = "delivered"

Those(b, m, d, s) ==
    /\ s \in Seq(HeardRec)
    /\ \A i \in 1..Len(s) :
          \/ s[i].what = "data" /\ 1 \in 1..Len(b) /\ s[i] = b[1]
          \/ s[i].what = "message" /\ 1 \in 1..Len(m) /\ s[i] = m[1]
          \/ s[i].what = "delivered" /\ 1 \in 1..Len(d) /\ s[i] = d[1]
    /\ \A i, j \in 1..Len(s) : s[i].what = s[j].what => i = j
    /\ Len(m) = 1 => \E i \in 1..Len(s) : s[i] = m[1]

LEMMA ThreeCalls ==
    ASSUME NEW b \in Seq(HeardRec), NEW m \in Seq(HeardRec), NEW d \in Seq(HeardRec),
           OneOfEach(b, m, d)
    PROVE  Those(b, m, d, b \o (m \o d))
<1> USE DEF OneOfEach
<1> DEFINE s == b \o (m \o d)
           t == m \o d
           B == Len(b)
           M == Len(m)
           D == Len(d)
<1>1. /\ t \in Seq(HeardRec) /\ M \in Nat /\ D \in Nat
      /\ \A i \in 1..M : i \in 1..Len(t) /\ t[i] = m[i]
      /\ \A i \in 1..Len(t) : \/ i \in 1..M /\ t[i] = m[i]
                              \/ i - M \in 1..D /\ t[i] = d[i - M]
  BY ConcatParts
<1>2. s = b \o t
  OBVIOUS
<1> HIDE DEF s, t, M, D
<1>3. /\ s \in Seq(HeardRec) /\ B \in Nat /\ Len(t) \in Nat
      /\ \A i \in 1..Len(t) : B + i \in 1..Len(s) /\ s[B + i] = t[i]
      /\ \A i \in 1..Len(s) : \/ i \in 1..B /\ s[i] = b[i]
                              \/ i - B \in 1..Len(t) /\ s[i] = t[i - B]
  BY <1>1, <1>2, ConcatParts
<1> HIDE DEF B
<1>4. \A i \in 1..Len(s) : \/ i \in 1..B /\ s[i] = b[i]
                           \/ i - B \in 1..M /\ s[i] = m[i - B]
                           \/ (i - B) - M \in 1..D /\ s[i] = d[(i - B) - M]
  BY <1>1, <1>3, Zenon
<1>5. ASSUME NEW i \in 1..Len(s)
      PROVE  \/ s[i].what = "data" /\ i = 1 /\ 1 \in 1..B /\ s[i] = b[1]
             \/ s[i].what = "message" /\ i = B + 1 /\ 1 \in 1..M /\ s[i] = m[1]
             \/ s[i].what = "delivered" /\ i = B + M + 1 /\ 1 \in 1..D /\ s[i] = d[1]
  <2>1. B \in {0, 1} /\ M \in {0, 1} /\ D \in {0, 1}
    BY DEF B, M, D
  <2>2. CASE i \in 1..B /\ s[i] = b[i]
    <3>1. i = 1 /\ 1 \in 1..B
      BY <2>1, <2>2
    <3>2. QED
      BY <2>2, <3>1, Zenon DEF B
  <2>3. CASE i - B \in 1..M /\ s[i] = m[i - B]
    <3>1. i = B + 1 /\ i - B = 1 /\ 1 \in 1..M
      BY <2>1, <2>3
    <3>2. QED
      BY <2>3, <3>1, Zenon DEF M
  <2>4. CASE (i - B) - M \in 1..D /\ s[i] = d[(i - B) - M]
    <3>1. i = B + M + 1 /\ (i - B) - M = 1 /\ 1 \in 1..D
      BY <2>1, <2>4
    <3>2. QED
      BY <2>4, <3>1, Zenon DEF D
  <2>5. QED
    BY <1>4, <2>2, <2>3, <2>4, Zenon
<1>6. ASSUME NEW i \in 1..Len(s), NEW j \in 1..Len(s), s[i].what = s[j].what
      PROVE  i = j
  <2>1. \A k \in 1..Len(s) :
           /\ s[k].what \in {"data", "message", "delivered"}
           /\ s[k].what = "data" => k = 1
           /\ s[k].what = "message" => k = B + 1
           /\ s[k].what = "delivered" => k = B + M + 1
    <3>1. TAKE k \in 1..Len(s)
    <3>2. CASE s[k].what = "data" /\ k = 1
      BY <3>2
    <3>3. CASE s[k].what = "message" /\ k = B + 1
      BY <3>3
    <3>4. CASE s[k].what = "delivered" /\ k = B + M + 1
      BY <3>4
    <3>5. QED
      BY <1>5, <3>2, <3>3, <3>4, Zenon
  <2>2. CASE s[i].what = "data"
    BY <1>6, <2>1, <2>2
  <2>3. CASE s[i].what = "message"
    BY <1>6, <2>1, <2>3
  <2>4. CASE s[i].what = "delivered"
    BY <1>6, <2>1, <2>4
  <2>5. QED
    BY <2>1, <2>2, <2>3, <2>4
<1>7. Len(m) = 1 => \E i \in 1..Len(s) : s[i] = m[1]
  <2>1. HAVE Len(m) = 1
  <2>2. 1 \in 1..M
    BY <2>1 DEF M
  <2>3. 1 \in 1..Len(t) /\ t[1] = m[1]
    BY <1>1, <2>2
  <2>4. B + 1 \in 1..Len(s) /\ s[B + 1] = t[1]
    BY <1>3, <2>3
  <2>5. QED
    BY <2>3, <2>4
<1>8. \A i \in 1..Len(s) :
         \/ s[i].what = "data" /\ 1 \in 1..Len(b) /\ s[i] = b[1]
         \/ s[i].what = "message" /\ 1 \in 1..Len(m) /\ s[i] = m[1]
         \/ s[i].what = "delivered" /\ 1 \in 1..Len(d) /\ s[i] = d[1]
  BY <1>5, Zenon DEF B, M, D
<1>9. QED
  BY <1>3, <1>6, <1>7, <1>8, Zenon DEF s, Those

\* The calls of a step are those behind the earlier ones.
LEMMA CallsOfStep ==
    ASSUME NEW S, NEW h \in Seq(S), NEW s \in Seq(S)
    PROVE  SubSeq(h \o s, Len(h) + 1, Len(h \o s)) = s
<1>1. Len(h \o s) = Len(h) + Len(s) /\ Len(h) \in Nat /\ Len(s) \in Nat
  BY ConcatParts
<1>2. CASE Len(s) = 0
  <2>1. s = <<>>
    BY <1>2, EmptySeq
  <2>2. Len(h \o s) < Len(h) + 1 /\ Len(h) + 1 \in Int /\ Len(h \o s) \in Int
    BY <1>1, <1>2
  <2>3. QED
    BY <2>1, <2>2, SubSeqEmpty
<1>3. CASE Len(s) # 0
  <2> DEFINE i == Len(h) + 1
             j == Len(h) + Len(s)
  <2>1. i \in Len(h) + 1 .. Len(h) + Len(s) /\ j \in Len(h) + 1 .. Len(h) + Len(s)
    BY <1>1, <1>3
  <2>2. SubSeq(h \o s, i, j) = SubSeq(s, i - Len(h), j - Len(h))
    BY <2>1, SubSeqOfConcat2
  <2>3. i - Len(h) = 1 /\ j - Len(h) = Len(s)
    BY <1>1
  <2>4. SubSeq(s, 1, Len(s)) = s
    BY SubSeqFull
  <2>5. QED
    BY <1>1, <2>2, <2>3, <2>4
<1>4. QED
  BY <1>2, <1>3

\* The last frame, where nobody listens.
LEMMA EndsUnheard ==
    ASSUME DeliveryInv, sending # Delivery!Idle, receiver = "none", sending' = Delivery!Idle,
           UNCHANGED <<receiver, left, message, heard, messages>>
    PROVE  DeliveryInv' /\ Delivery!CompletedOnce
<1> USE DEF DeliveryInv
<1>1. /\ receiver' = receiver /\ left' = left /\ message' = message /\ heard' = heard
      /\ messages' = messages
  OBVIOUS
<1>2. DeliveryTypes'
  BY <1>1 DEF DeliveryTypes
<1>3. FramesInTurn' /\ Holding' /\ Behind'
  BY <1>1, Zenon DEF FramesInTurn, Holding, Behind
<1>4. Delivery!CompletedOnce
  <2>1. heard \in Seq(HeardRec) /\ Len(heard) \in Nat
    BY HeardLength
  <2>2. SubSeq(heard', Len(heard) + 1, Len(heard')) = <<>>
    <3>1. Len(heard) < Len(heard) + 1 /\ Len(heard) + 1 \in Int /\ Len(heard) \in Int
      BY <2>1
    <3>2. QED
      BY <1>1, <3>1, SubSeqEmpty
  <2>3. Delivery!ToSet(SubSeq(heard', Len(heard) + 1, Len(heard'))) = {}
    BY <2>2 DEF Delivery!ToSet
  <2>4. QED
    BY <2>3, Zenon DEF Delivery!CompletedOnce
<1>5. QED
  BY <1>1, <1>2, <1>3, <1>4, Zenon

\* The last frame for a receiver: it hears that all is there.
LEMMA EndsHeard ==
    ASSUME DeliveryInv, sending # Delivery!Idle, receiver # "none", sending' = Delivery!Idle,
           NEW m, NEW b, NEW n, FrameData(b, n), Delivery!Complete(receiver, m, b),
           UNCHANGED messages, left' = [left EXCEPT ![receiver] = 0],
           sending.whole => m.made /\ Delivery!Body(m) = Delivery!Bytes(sending.id, sending.size),
           ~sending.whole => ~m.made
    PROVE  DeliveryInv' /\ Delivery!CompletedOnce
<1> USE DEF DeliveryInv
<1> DEFINE to == sending.to
           id == sending.id
           got == sending.sent
           size == sending.size
           h == heard
           bytes == Delivery!Bytes(id, size)
           M == IF sending.whole THEN <<Delivery!Call(to, "message", bytes)>> ELSE <<>>
           D == Delivery!Calls(to, "delivered", <<>>)
           s == b \o (M \o D)
<1>1. /\ to \in Delivery!Receivers /\ receiver = to /\ id \in Nat /\ got \in Nat /\ size \in Nat
      /\ size \in 0..MaxSize /\ sending.whole \in BOOLEAN /\ id = messages
      /\ h \in Seq(HeardRec) /\ Whole(h) /\ Before(h, id, to, got)
  BY SendingFields DEF Holding, FramesInTurn, Behind, DeliveryTypes
<1>2. /\ b \in Seq(HeardRec) /\ Len(b) \in {0, 1}
      /\ \A i \in 1..Len(b) :
            /\ i = 1 /\ b[i].who = to /\ b[i].what = "data"
            /\ b[i].id = id /\ b[i].body[1][2] = got + 1
  BY DataFields
<1>3. /\ M \in Seq(HeardRec) /\ Len(M) = (IF sending.whole THEN 1 ELSE 0)
      /\ \A i \in 1..Len(M) : /\ M[i].who = to /\ M[i].id = id /\ M[i].what = "message"
                              /\ M[i].body = bytes
  <2> DEFINE c == Delivery!Call(to, "message", bytes)
  <2>1. bytes \in Seq(Nat \X Nat)
    <3> HIDE DEF id, size
    <3>1. QED
      BY <1>1, BytesUpTo
  <2>2. "message" \in Delivery!Callbacks
    BY DEF Delivery!Callbacks
  <2> HIDE DEF bytes
  <2>3. /\ c.who = to /\ c.what = "message" /\ c.id = id /\ c.body = bytes
        /\ <<c>> \in Seq(HeardRec) /\ Len(<<c>>) = 1 /\ <<c>>[1] = c
    BY <2>1, <2>2, CallFields
  <2> HIDE DEF c
  <2>4. CASE sending.whole
    <3>1. M = <<c>>
      BY <2>4, Zenon DEF c
    <3> HIDE DEF M
    <3>2. \A i \in 1..Len(M) : M[i] = c
      BY <2>3, <3>1
    <3>3. QED
      BY <2>3, <2>4, <3>1, <3>2
  <2>5. CASE ~sending.whole
    <3>1. M = <<>>
      BY <2>5, Zenon
    <3> HIDE DEF M
    <3>2. QED
      BY <2>5, <3>1
  <2>6. QED
    BY <2>4, <2>5
<1>4. /\ D \in Seq(HeardRec) /\ Len(D) \in {0, 1}
      /\ \A i \in 1..Len(D) : D[i].who = to /\ D[i].id = id /\ D[i].what = "delivered"
  <2> DEFINE c == Delivery!Call(to, "delivered", <<>>)
  <2>1. "delivered" \in Delivery!Callbacks /\ <<>> \in Seq(Nat \X Nat)
    BY DEF Delivery!Callbacks
  <2>2. /\ c.who = to /\ c.what = "delivered" /\ c.id = id
        /\ <<c>> \in Seq(HeardRec) /\ Len(<<c>>) = 1 /\ <<c>>[1] = c
    BY <2>1, CallFields
  <2>3. D = <<c>> \/ D = <<>>
    BY Zenon DEF Delivery!Calls
  <2> HIDE DEF c, D
  <2>4. CASE D = <<c>>
    <3>1. \A i \in 1..Len(D) : D[i] = c
      BY <2>2, <2>4
    <3>2. QED
      BY <2>2, <2>4, <3>1
  <2>5. CASE D = <<>>
    BY <2>5
  <2>6. QED
    BY <2>3, <2>4, <2>5
<1>5. heard' = h \o s /\ message' = [message EXCEPT ![to] = Delivery!NoMessage] /\ receiver' = "none"
  <2>1. (IF m.made THEN <<Delivery!Call(receiver, "message", Delivery!Body(m))>> ELSE <<>>) = M
    <3>1. CASE sending.whole
      BY <1>1, <3>1, Zenon
    <3>2. CASE ~sending.whole
      BY <3>2, Zenon
    <3>3. QED
      BY <3>1, <3>2
  <2>2. /\ heard' = heard \o b
                      \o (IF m.made THEN <<Delivery!Call(receiver, "message", Delivery!Body(m))>> ELSE <<>>)
                      \o Delivery!Calls(receiver, "delivered", <<>>)
        /\ message' = [message EXCEPT ![receiver] = Delivery!NoMessage] /\ receiver' = "none"
    BY Zenon DEF Delivery!Complete
  <2>3. Delivery!Calls(receiver, "delivered", <<>>) = D
    BY <1>1, Zenon
  <2> HIDE DEF M, D
  <2>4. heard' = h \o b \o M \o D
    BY <2>1, <2>2, <2>3, Zenon
  <2>5. /\ (h \o b) \in Seq(HeardRec) /\ (M \o D) \in Seq(HeardRec)
    BY <1>1, <1>2, <1>3, <1>4, ConcatProperties
  <2> DEFINE x == h \o b
             y == M \o D
  <2>6. x \o M \o D = x \o y
    <3>1. x \in Seq(HeardRec) /\ M \in Seq(HeardRec) /\ D \in Seq(HeardRec)
      BY <1>3, <1>4, <2>5, Zenon
    <3> HIDE DEF x
    <3>2. QED
      BY <3>1, ConcatAssociative
  <2>7. x \o y = h \o s
    <3>1. h \in Seq(HeardRec) /\ b \in Seq(HeardRec) /\ y \in Seq(HeardRec)
      BY <1>1, <1>2, <2>5, Zenon
    <3> HIDE DEF y, h
    <3>2. (h \o b) \o y = h \o (b \o y)
      BY <3>1, ConcatAssociative
    <3>3. QED
      BY <3>2, Zenon DEF y
  <2>8. QED
    BY <1>1, <2>2, <2>4, <2>6, <2>7, Zenon
<1> HIDE DEF to, id, got, size, h, bytes, M, D
<1>6. Len(M) \in {0, 1}
  BY <1>3
<1>7. /\ s \in Seq(HeardRec)
      /\ \A i \in 1..Len(s) :
            \/ s[i].what = "data" /\ 1 \in 1..Len(b) /\ s[i] = b[1]
            \/ s[i].what = "message" /\ 1 \in 1..Len(M) /\ s[i] = M[1]
            \/ s[i].what = "delivered" /\ 1 \in 1..Len(D) /\ s[i] = D[1]
      /\ \A i, j \in 1..Len(s) : s[i].what = s[j].what => i = j
      /\ Len(M) = 1 => \E i \in 1..Len(s) : s[i] = M[1]
  <2>1. b \in Seq(HeardRec) /\ M \in Seq(HeardRec) /\ D \in Seq(HeardRec)
    BY <1>2, <1>3, <1>4, Zenon
  <2>2. OneOfEach(b, M, D)
    BY <1>2, <1>3, <1>4, <1>6, Zenon DEF OneOfEach
  <2>3. Those(b, M, D, s)
    BY <2>1, <2>2, ThreeCalls, Zenon
  <2> HIDE DEF s
  <2>4. QED
    BY <2>3, Zenon DEF Those
<1> HIDE DEF s
<1>8. ASSUME NEW i \in 1..Len(s)
      PROVE  /\ s[i].id = id /\ s[i].who = to
             /\ s[i].what = "data" => s[i].body[1][2] = got + 1
             /\ s[i].what = "message" => s[i].body = bytes /\ sending.whole
  <2>1. CASE s[i].what = "data" /\ 1 \in 1..Len(b) /\ s[i] = b[1]
    BY <1>2, <2>1
  <2>2. CASE s[i].what = "message" /\ 1 \in 1..Len(M) /\ s[i] = M[1]
    BY <1>3, <2>2
  <2>3. CASE s[i].what = "delivered" /\ 1 \in 1..Len(D) /\ s[i] = D[1]
    BY <1>4, <2>3
  <2>4. QED
    BY <1>7, <2>1, <2>2, <2>3, Zenon
<1>9. OfFrame(s, id, to, got)
  BY <1>1, <1>7, <1>8, Zenon DEF OfFrame, bytes
<1>10. /\ heard' \in Seq(HeardRec) /\ Whole(heard')
       /\ \A i \in 1..Len(heard') : heard'[i].id \in 0..messages'
  <2>1. Whole(h \o s)
    BY <1>1, <1>7, <1>9, WholeMore
  <2> DEFINE g == h \o s
  <2>2. /\ g \in Seq(HeardRec)
        /\ \A i \in 1..Len(g) : \/ i \in 1..Len(h) /\ g[i] = h[i]
                                \/ i - Len(h) \in 1..Len(s) /\ g[i] = s[i - Len(h)]
    BY <1>1, <1>7, ConcatParts
  <2> HIDE DEF g
  <2>3. id \in 0..id
    BY <1>1
  <2>4. ASSUME NEW i \in 1..Len(g) PROVE g[i].id \in 0..id
    <3>1. CASE i \in 1..Len(h) /\ g[i] = h[i]
      BY <1>1, <3>1, Zenon DEF Before
    <3>2. CASE i - Len(h) \in 1..Len(s) /\ g[i] = s[i - Len(h)]
      BY <1>8, <2>3, <3>2, Zenon
    <3>3. QED
      BY <2>2, <3>1, <3>2, Zenon
  <2>5. heard' = g /\ messages' = id
    BY <1>1, <1>5, Zenon DEF g
  <2>6. QED
    BY <2>1, <2>2, <2>4, <2>5, Zenon DEF g
<1>11. DeliveryTypes' /\ Holding'
  <2>1. /\ left \in [Delivery!Receivers -> Int] /\ DOMAIN message = Delivery!Receivers
        /\ messages \in Nat
        /\ \A r \in Delivery!Receivers : r # to => message[r] = Delivery!NoMessage
    BY <1>1 DEF DeliveryTypes, Holding
  <2>2. left' \in [Delivery!Receivers -> Int]
    <3>1. left' = [left EXCEPT ![receiver] = 0] /\ 0 \in Int
      OBVIOUS
    <3>2. QED
      BY <2>1, <3>1
  <2>3. DOMAIN message' = Delivery!Receivers
    BY <1>5, <2>1
  <2>4. \A r \in Delivery!Receivers : message'[r] = Delivery!NoMessage
    BY <1>1, <1>5, <2>1
  <2>5. QED
    BY <1>5, <1>10, <2>1, <2>2, <2>3, <2>4 DEF DeliveryTypes, Holding
<1>12. FramesInTurn' /\ Behind'
  BY <1>10, Zenon DEF FramesInTurn, Behind
<1>13. Delivery!CompletedOnce
  <2>1. SubSeq(heard', Len(heard) + 1, Len(heard')) = s
    <3>1. SubSeq(h \o s, Len(h) + 1, Len(h \o s)) = s
      BY <1>1, <1>7, CallsOfStep
    <3>2. QED
      BY <1>5, <3>1, Zenon DEF h
  <2>2. Delivery!ToSet(s) = {s[i] : i \in 1..Len(s)}
    BY <1>7, LenProperties DEF Delivery!ToSet
  <2>3. ASSUME NEW c \in Delivery!ToSet(s), c.what = "message" PROVE sending.whole
    BY <1>8, <2>2, <2>3
  <2>4. ASSUME sending.whole
        PROVE  \E c \in Delivery!ToSet(s) : c.what = "message" /\ c.who = to /\ c.body = bytes
    <3>1. Len(M) = 1
      BY <1>3, <2>4
    <3>2. M[1].what = "message" /\ M[1].who = to /\ M[1].body = bytes
      BY <1>3, <3>1
    <3>3. PICK i \in 1..Len(s) : s[i] = M[1]
      BY <1>7, <3>1
    <3>4. s[i] \in Delivery!ToSet(s)
      BY <2>2
    <3>5. QED
      BY <3>2, <3>3, <3>4
  <2>5. (receiver # "none" /\ sending.whole) <=>
          \E c \in Delivery!ToSet(s) : c.what = "message" /\ c.who = to /\ c.body = bytes
    BY <2>3, <2>4, Zenon
  <2>6. QED
    BY <2>1, <2>5, Zenon DEF Delivery!CompletedOnce, to, bytes, id, size
<1>14. QED
  BY <1>10, <1>11, <1>12, <1>13, Zenon

\* What the channel does when a frame leaves n bytes to come.
LEMMA ProgressIs ==
    ASSUME NEW m, NEW n, NEW b, Delivery!Progress(receiver, m, n, b)
    PROVE  /\ left' = [left EXCEPT ![receiver] = n]
           /\ n = 0 => Delivery!Complete(receiver, m, b)
           /\ n # 0 => /\ message' = [message EXCEPT ![receiver] = m] /\ heard' = heard \o b
                       /\ receiver' = receiver
BY Zenon DEF Delivery!Progress

LEMMA NotMade == ~Delivery!NoMessage.made
BY DEF Delivery!NoMessage

LEMMA SizedPart ==
    ASSUME NEW id, NEW size, NEW x, x = [PartOf(id, 0, 0) EXCEPT !.size = size]
    PROVE  x = PartOf(id, size, 0)
<1>1. x = [made |-> TRUE, size |-> size, filled |-> 0, copies |-> FALSE,
           body |-> Delivery!Bytes(id, 0)]
  BY DEF PartOf
<1>2. QED
  BY <1>1 DEF PartOf

LEMMA HeaderKeeps ==
    ASSUME DeliveryInv, Delivery!Header
    PROVE  DeliveryInv' /\ Delivery!CompletedOnce
<1> USE DEF DeliveryInv
<1> DEFINE size == sending.size
           m == IF message[receiver].made THEN [message[receiver] EXCEPT !.size = size]
                                          ELSE message[receiver]
<1>1. /\ sending.at = "header" /\ messages' = messages
      /\ sending' = IF size = 0 THEN Delivery!Idle ELSE [sending EXCEPT !.at = "body"]
      /\ \/ receiver = "none" /\ UNCHANGED <<receiver, left, message, heard>>
         \/ receiver # "none" /\ Delivery!Progress(receiver, m, size, <<>>)
  BY Zenon DEF Delivery!Header
<1>2. sending # Delivery!Idle
  BY <1>1, IdleIsNot
<1>3. /\ sending \in SendingRec /\ size \in Nat /\ sending.id \in Nat /\ sending.sent = 0
      /\ sending.whole \in BOOLEAN
  BY <1>1, <1>2, SendingFields DEF FramesInTurn
<1>4. FrameData(<<>>, 0) /\ 0 \in Nat
  BY DEF FrameData
<1>5. ASSUME receiver # "none"
      PROVE  m = IF sending.whole THEN PartOf(sending.id, size, 0) ELSE Delivery!NoMessage
  <2>1. message[receiver] = IF sending.whole THEN PartSent ELSE Delivery!NoMessage
    BY <1>5, Zenon DEF Holding
  <2>2. PartSent = PartOf(sending.id, 0, 0)
    BY <1>1, <1>3 DEF PartSent
  <2>3. CASE sending.whole
    <3>1. message[receiver] = PartOf(sending.id, 0, 0)
      BY <2>1, <2>2, <2>3
    <3>2. PartOf(sending.id, 0, 0).made
      BY DEF PartOf
    <3>3. m = [PartOf(sending.id, 0, 0) EXCEPT !.size = size]
      BY <3>1, <3>2, Zenon
    <3>4. m = PartOf(sending.id, size, 0)
      BY <3>3, SizedPart, Zenon
    <3>5. QED
      BY <2>3, <3>4, Zenon
  <2>4. CASE ~sending.whole
    BY <2>1, <2>4, NotMade, Zenon
  <2>5. QED
    BY <2>3, <2>4
<1> HIDE DEF m
<1>6. CASE size = 0
  <2>1. sending' = Delivery!Idle
    BY <1>1, <1>6
  <2>2. CASE receiver = "none"
    <3>1. UNCHANGED <<receiver, left, message, heard, messages>>
      BY <1>1, <2>2
    <3>2. QED
      BY <1>2, <2>1, <2>2, <3>1, EndsUnheard
  <2>3. CASE receiver # "none"
    <3>1. left' = [left EXCEPT ![receiver] = 0] /\ Delivery!Complete(receiver, m, <<>>)
      BY <1>1, <1>6, <2>3, ProgressIs
    <3>2. sending.whole => m.made /\ Delivery!Body(m) = Delivery!Bytes(sending.id, sending.size)
      <4>1. HAVE sending.whole
      <4>2. m = PartOf(sending.id, 0, 0)
        BY <1>5, <1>6, <2>3, <4>1
      <4>3. m.made /\ m.size = 0 /\ m.body = Delivery!Bytes(sending.id, 0)
        BY <4>2 DEF PartOf
      <4>4. Delivery!Body(m) = Delivery!Bytes(sending.id, 0)
        BY <1>3, <1>4, <4>3, WholeBody
      <4>5. QED
        BY <1>6, <4>3, <4>4
    <3>3. ~sending.whole => ~m.made
      BY <1>5, <2>3, NotMade
    <3>4. QED
      BY <1>1, <1>2, <1>4, <2>1, <2>3, <3>1, <3>2, <3>3, EndsHeard
  <2>4. QED
    BY <2>2, <2>3
<1>7. CASE size # 0
  <2>1. sending' = [sending EXCEPT !.at = "body"]
    BY <1>1, <1>7
  <2>2. /\ sending' \in SendingRec /\ sending'.at = "body" /\ sending'.to = sending.to
        /\ sending'.id = sending.id /\ sending'.size = size /\ sending'.whole = sending.whole
        /\ sending'.sent = 0
    BY <1>3, <2>1 DEF SendingRec
  <2>3. sending'.sent = sending.sent + 0 /\ sending'.sent < sending'.size
        /\ sending'.size - sending'.sent = size
    BY <1>3, <1>7, <2>2
  <2>4. /\ receiver' = receiver
        /\ \/ receiver = "none" /\ UNCHANGED <<left, message, heard>>
           \/ /\ receiver # "none" /\ heard' = heard \o <<>>
              /\ left' = [left EXCEPT ![receiver] = sending'.size - sending'.sent]
              /\ message' = [message EXCEPT ![receiver] =
                    IF sending'.whole THEN PartOf(sending'.id, sending'.size, sending'.sent)
                    ELSE Delivery!NoMessage]
    <3>1. CASE receiver = "none"
      BY <1>1, <3>1
    <3>2. CASE receiver # "none"
      <4>1. /\ left' = [left EXCEPT ![receiver] = size] /\ receiver' = receiver
            /\ message' = [message EXCEPT ![receiver] = m] /\ heard' = heard \o <<>>
        <5>1. Delivery!Progress(receiver, m, size, <<>>)
          BY <1>1, <3>2, Zenon
        <5> HIDE DEF m
        <5>2. /\ left' = [left EXCEPT ![receiver] = size]
              /\ size # 0 => /\ message' = [message EXCEPT ![receiver] = m] /\ heard' = heard \o <<>>
                             /\ receiver' = receiver
          BY <5>1, ProgressIs
        <5>3. QED
          BY <1>7, <5>2, Zenon
      <4>2. m = IF sending'.whole THEN PartOf(sending'.id, sending'.size, sending'.sent)
                ELSE Delivery!NoMessage
        BY <1>5, <2>2, <3>2, Zenon
      <4>3. QED
        BY <2>3, <3>2, <4>1, <4>2, Zenon
    <3>3. QED
      BY <3>1, <3>2
  <2>5. receiver' = receiver /\ messages' = messages
    BY <1>1, <2>4
  <2>6. DeliveryInv' /\ sending' # Delivery!Idle
    BY <1>2, <1>4, <2>2, <2>3, <2>4, <2>5, GoesOn
  <2>7. QED
    BY <2>6, Zenon DEF Delivery!CompletedOnce
<1>8. QED
  BY <1>6, <1>7

LEMMA BodyFrameKeeps ==
    ASSUME DeliveryInv, Delivery!BodyFrame
    PROVE  DeliveryInv' /\ Delivery!CompletedOnce
<1> USE DEF DeliveryInv
<1> DEFINE size == sending.size
           id == sending.id
           got == sending.sent
<1>1. sending.at = "body" /\ messages' = messages
  BY Zenon DEF Delivery!BodyFrame
<1>2. sending # Delivery!Idle
  BY <1>1, IdleIsNot
<1>3. /\ sending \in SendingRec /\ size \in Nat /\ id \in Nat /\ got \in Nat
      /\ sending.whole \in BOOLEAN
  BY <1>2, SendingFields
<1>4. PICK n \in 1..(size - got) :
         /\ sending' = IF got + n = size THEN Delivery!Idle ELSE [sending EXCEPT !.sent = @ + n]
         /\ \/ receiver = "none" /\ UNCHANGED <<receiver, left, message, heard>>
            \/ /\ receiver # "none"
               /\ Delivery!Progress(receiver,
                     IF message[receiver].made
                     THEN Delivery!AppendBytes(message[receiver], FrameBytes(id, got, n))
                     ELSE message[receiver],
                     left[receiver] - n, Delivery!Calls(receiver, "data", FrameBytes(id, got, n)))
  BY Zenon DEF Delivery!BodyFrame, FrameBytes
<1> DEFINE bytes == FrameBytes(id, got, n)
           m == IF message[receiver].made THEN Delivery!AppendBytes(message[receiver], bytes)
                                          ELSE message[receiver]
           b == Delivery!Calls(receiver, "data", bytes)
<1>5. n \in Nat /\ n > 0 /\ got + n \in Nat /\ got + n <= size
  BY <1>3
<1>6. ASSUME receiver # "none"
      PROVE  /\ FrameData(b, n) /\ left[receiver] - n = size - (got + n)
             /\ sending.whole => /\ m.made /\ m.size = size
                                 /\ m.body = Delivery!Bytes(id, got + n)
                                 /\ got + n < size => m = PartOf(id, size, got + n)
             /\ ~sending.whole => m = Delivery!NoMessage
  <2>1. /\ receiver = sending.to
        /\ message[receiver] = IF sending.whole THEN PartSent ELSE Delivery!NoMessage
        /\ left[receiver] = size - got
    BY <1>1, <1>6, Zenon DEF Holding
  <2>2. FrameData(b, n)
    <3>1. b = <<Delivery!Call(sending.to, "data", bytes)>> \/ b = <<>>
      BY <2>1, Zenon DEF Delivery!Calls
    <3>2. QED
      BY <1>5, <3>1, Zenon DEF FrameData
  <2>3. left[receiver] - n = size - (got + n)
    BY <1>3, <1>5, <2>1
  <2>4. PartSent = PartOf(id, size, got)
    BY <1>1 DEF PartSent
  <2>5. CASE sending.whole
    <3>1. message[receiver] = PartOf(id, size, got)
      BY <2>1, <2>4, <2>5
    <3>2. PartOf(id, size, got).made
      BY DEF PartOf
    <3>3. m = Delivery!AppendBytes(PartOf(id, size, got), FrameBytes(id, got, n))
      BY <3>1, <3>2, Zenon
    <3> HIDE DEF m, id, size, got, bytes, b
    <3>4. /\ m.made /\ m.size = size /\ m.body = Delivery!Bytes(id, got + n)
          /\ got + n < size => m = PartOf(id, size, got + n)
      BY <1>3, <1>5, <3>3, AppendTogether
    <3>5. QED
      BY <2>2, <2>3, <2>5, <3>4, Zenon
  <2>6. CASE ~sending.whole
    <3>1. message[receiver] = Delivery!NoMessage
      BY <2>1, <2>6
    <3>2. m = Delivery!NoMessage
      BY <3>1, NotMade, Zenon
    <3>3. QED
      BY <2>2, <2>3, <2>6, <3>2, Zenon
  <2>7. QED
    BY <2>5, <2>6
<1>7. receiver # "none" => Delivery!Progress(receiver, m, left[receiver] - n, b)
  BY <1>4, Zenon
<1> HIDE DEF m, b, bytes
<1>8. CASE got + n = size
  <2>1. sending' = Delivery!Idle
    BY <1>4, <1>8
  <2>2. CASE receiver = "none"
    <3>1. UNCHANGED <<receiver, left, message, heard, messages>>
      BY <1>1, <1>4, <2>2
    <3>2. QED
      BY <1>2, <2>1, <2>2, <3>1, EndsUnheard
  <2>3. CASE receiver # "none"
    <3>1. left[receiver] - n = 0
      BY <1>3, <1>6, <1>8, <2>3
    <3>2. Delivery!Progress(receiver, m, 0, b)
      BY <1>7, <2>3, <3>1
    <3>3. left' = [left EXCEPT ![receiver] = 0] /\ Delivery!Complete(receiver, m, b)
      BY <3>2, ProgressIs
    <3>4. sending.whole => m.made /\ Delivery!Body(m) = Delivery!Bytes(sending.id, sending.size)
      <4>1. HAVE sending.whole
      <4>2. m.made /\ m.size = size /\ m.body = Delivery!Bytes(id, size)
        BY <1>6, <1>8, <2>3, <4>1
      <4>3. Delivery!Body(m) = Delivery!Bytes(id, size)
        <5> HIDE DEF id, size
        <5>1. QED
          BY <1>3, <4>2, WholeBody
      <4>4. QED
        BY <4>2, <4>3
    <3>5. ~sending.whole => ~m.made
      BY <1>6, <2>3, NotMade
    <3>6. FrameData(b, n)
      BY <1>6, <2>3
    <3>7. QED
      BY <1>1, <1>2, <2>1, <2>3, <3>3, <3>4, <3>5, <3>6, EndsHeard
  <2>4. QED
    BY <2>2, <2>3
<1>9. CASE got + n # size
  <2>1. sending' = [sending EXCEPT !.sent = @ + n]
    BY <1>4, <1>9
  <2>2. /\ sending' \in SendingRec /\ sending'.at = "body" /\ sending'.to = sending.to
        /\ sending'.id = id /\ sending'.size = size /\ sending'.whole = sending.whole
        /\ sending'.sent = got + n
    BY <1>1, <1>3, <1>5, <2>1 DEF SendingRec
  <2>3. got + n < size
    BY <1>3, <1>5, <1>9
  <2>4. receiver = "none" => /\ UNCHANGED <<receiver, left, message, heard>>
                             /\ FrameData(<<>>, n)
    BY <1>4 DEF FrameData
  <2>5. receiver # "none" =>
           /\ receiver' = receiver /\ heard' = heard \o b
           /\ left' = [left EXCEPT ![receiver] = sending'.size - sending'.sent]
           /\ message' = [message EXCEPT ![receiver] =
                    IF sending'.whole THEN PartOf(sending'.id, sending'.size, sending'.sent)
                    ELSE Delivery!NoMessage]
           /\ FrameData(b, n)
    <3>1. HAVE receiver # "none"
    <3>2. left[receiver] - n = size - (got + n) /\ FrameData(b, n)
      BY <1>6, <3>1
    <3>3. size - (got + n) # 0
      BY <1>3, <1>5, <2>3
    <3>4. Delivery!Progress(receiver, m, size - (got + n), b)
      BY <1>7, <3>1, <3>2
    <3>5. /\ left' = [left EXCEPT ![receiver] = size - (got + n)] /\ receiver' = receiver
          /\ message' = [message EXCEPT ![receiver] = m] /\ heard' = heard \o b
      BY <3>3, <3>4, ProgressIs
    <3>6. m = IF sending'.whole THEN PartOf(sending'.id, sending'.size, sending'.sent)
              ELSE Delivery!NoMessage
      BY <1>6, <2>2, <2>3, <3>1, Zenon
    <3>7. QED
      BY <2>2, <3>2, <3>5, <3>6, Zenon
  <2>6. receiver' = receiver
    BY <2>4, <2>5
  <2>7. sending'.sent = sending.sent + n /\ sending'.sent < sending'.size
    BY <2>2, <2>3
  <2>8. DeliveryInv' /\ sending' # Delivery!Idle
    <3>1. CASE receiver = "none"
      BY <1>1, <1>2, <1>5, <2>2, <2>4, <2>6, <2>7, <3>1, GoesOn
    <3>2. CASE receiver # "none"
      BY <1>1, <1>2, <1>5, <2>2, <2>5, <2>6, <2>7, <3>2, GoesOn
    <3>3. QED
      BY <3>1, <3>2
  <2>9. QED
    BY <2>8, Zenon DEF Delivery!CompletedOnce
<1>10. QED
  BY <1>8, <1>9
-----------------------------------------------------------------------------
(* The steps of the receivers *)

LEMMA DeliveryStarts ==
    ASSUME Init
    PROVE  DeliveryInv
<1>1. /\ receiver = "none" /\ left = [r \in Delivery!Receivers |-> 0]
      /\ message = [r \in Delivery!Receivers |-> Delivery!NoMessage]
      /\ sending = Delivery!Idle /\ messages = 0 /\ heard = <<>>
  BY Zenon DEF Init, Delivery!Init
<1>2. heard \in Seq(HeardRec) /\ \A i \in 1..Len(heard) : FALSE
  BY <1>1
<1>3. DeliveryTypes
  BY <1>1, <1>2 DEF DeliveryTypes
<1>4. FramesInTurn /\ Holding
  BY <1>1 DEF FramesInTurn, Holding
<1>5. Behind /\ Whole(heard)
  BY <1>1, <1>2, Zenon DEF Behind, Whole
<1>6. QED
  BY <1>3, <1>4, <1>5, Zenon DEF DeliveryInv

\* Registrations, consumers that come and go, and what happens elsewhere.
LEMMA DeliveryApart ==
    ASSUME DeliveryInv, UNCHANGED <<receiver, left, message, sending, messages, heard>>
    PROVE  DeliveryInv' /\ Delivery!CompletedOnce
<1>1. /\ receiver' = receiver /\ left' = left /\ message' = message /\ sending' = sending
      /\ messages' = messages /\ heard' = heard
  OBVIOUS
<1>2. DeliveryTypes' /\ FramesInTurn'
  BY <1>1, Zenon DEF DeliveryInv, DeliveryTypes, FramesInTurn
<1>3. Holding' /\ Behind' /\ Whole(heard')
  BY <1>1, Zenon DEF DeliveryInv, Holding, PartSent, Behind
<1>4. Delivery!CompletedOnce
  BY <1>1, Zenon DEF Delivery!CompletedOnce
<1>5. QED
  BY <1>2, <1>3, <1>4, Zenon DEF DeliveryInv

LEMMA MessageStarts ==
    ASSUME DeliveryInv, Delivery!Deliver \/ Delivery!GetOk \/ Delivery!Return
    PROVE  DeliveryInv' /\ Delivery!CompletedOnce
<1>1. PICK to \in Delivery!Receivers :
         /\ Delivery!StartSending(to) /\ UNCHANGED <<heard, left>>
         /\ \/ (to \in Tags => to \in consumers) /\ Delivery!Initialize(to)
            \/ UNCHANGED <<receiver, message>>
  <2>1. CASE Delivery!Deliver
    <3>1. PICK t \in Tags :
             /\ Delivery!StartSending(t)
             /\ IF t \in consumers THEN Delivery!Initialize(t) ELSE UNCHANGED <<receiver, message>>
      BY <2>1, Zenon DEF Delivery!Deliver
    <3>2. UNCHANGED <<heard, left>>
      BY <2>1 DEF Delivery!Deliver
    <3>3. t \in Delivery!Receivers
      BY DEF Delivery!Receivers
    <3>4. QED
      BY <3>1, <3>2, <3>3, Zenon
  <2>2. ASSUME NEW to \in {"get", "returned"}, Delivery!StartSending(to), Delivery!Initialize(to),
               UNCHANGED <<heard, left>>
        PROVE  \E r \in Delivery!Receivers :
                  /\ Delivery!StartSending(r) /\ UNCHANGED <<heard, left>>
                  /\ (r \in Tags => r \in consumers) /\ Delivery!Initialize(r)
    <3>1. to \notin Tags /\ to \in Delivery!Receivers
      BY AmqpObjectsAssumption DEF Delivery!Receivers
    <3>2. QED
      BY <2>2, <3>1, Zenon
  <2>3. CASE Delivery!GetOk
    <3>1. /\ Delivery!StartSending("get") /\ Delivery!Initialize("get") /\ UNCHANGED <<heard, left>>
      BY <2>3 DEF Delivery!GetOk
    <3>2. QED
      BY <2>2, <3>1, Zenon
  <2>4. CASE Delivery!Return
    <3>1. /\ Delivery!StartSending("returned") /\ Delivery!Initialize("returned")
          /\ UNCHANGED <<heard, left>>
      BY <2>4 DEF Delivery!Return
    <3>2. QED
      BY <2>2, <3>1, Zenon
  <2>5. QED
    BY <2>1, <2>3, <2>4
<1>2. DeliveryInv'
  BY <1>1, StartKeeps
<1>3. sending = Delivery!Idle
  BY <1>1, Zenon DEF Delivery!StartSending
<1>4. QED
  BY <1>2, <1>3, Zenon DEF Delivery!CompletedOnce

LEMMA DeliveryStepKeeps ==
    ASSUME DeliveryInv, [Next]_vars
    PROVE  DeliveryInv' /\ [Delivery!CompletedOnce]_deliveryVars
<1>1. CASE UNCHANGED deliveryVars
  BY <1>1, DeliveryApart DEF deliveryVars
<1>2. CASE Delivery!Deliver \/ Delivery!GetOk \/ Delivery!Return
  BY <1>2, MessageStarts
<1>3. CASE Delivery!Header \/ Delivery!BodyFrame
  BY <1>3, HeaderKeeps, BodyFrameKeeps
<1>4. CASE \/ Delivery!Consume \/ Delivery!Cancel \/ Delivery!ListenConsumer
           \/ Delivery!ListenGet \/ Delivery!ListenReturned
  <2>1. UNCHANGED <<receiver, left, message, sending, messages, heard>>
    BY <1>4 DEF Delivery!Consume, Delivery!Cancel, Delivery!ListenConsumer, Delivery!ListenGet,
       Delivery!ListenReturned, Delivery!Listen, Delivery!Changes
  <2>2. QED
    BY <2>1, DeliveryApart
<1>5. CASE UNCHANGED vars
  BY <1>1, <1>5 DEF vars
<1>6. QED
  BY <1>1, <1>2, <1>3, <1>4, <1>5, Zenon
     DEF Next, ChannelStep, DeferredStep, DeliveryStep, ValueStep

LEMMA DeliverySeen ==
    ASSUME DeliveryInv
    PROVE  Delivery!MessagesWhole /\ Delivery!NoStrayReceiver
<1>1. Delivery!MessagesWhole
  BY WholeIsWhole, Zenon DEF DeliveryInv
<1>2. Delivery!NoStrayReceiver
  <2>1. receiver # "none" => sending # Delivery!Idle /\ receiver = sending.to
    BY Zenon DEF DeliveryInv, Holding
  <2>2. QED
    BY <2>1 DEF Delivery!NoStrayReceiver
<1>3. QED
  BY <1>1, <1>2

\* message.h and the receivers: a message that is handed out is whole, it was told once,
\* to its receiver, and just when the server had sent it all; for any consumers and
\* callbacks that come and go meanwhile, and however the body is cut.
THEOREM MessagesComplete == Spec => MessagesArrive
<1>1. Init => DeliveryInv
  BY DeliveryStarts
<1>2. DeliveryInv /\ [Next]_vars => DeliveryInv' /\ [Delivery!CompletedOnce]_deliveryVars
  BY DeliveryStepKeeps
<1>3. DeliveryInv => Delivery!MessagesWhole /\ Delivery!NoStrayReceiver
  BY DeliverySeen
<1>4. Delivery!MessagesWhole' /\ Delivery!NoStrayReceiver' /\ [Delivery!CompletedOnce]_deliveryVars
        => [Delivery!Arrives]_deliveryVars
  BY Zenon DEF Delivery!Arrives
<1>5. QED
  BY <1>1, <1>2, <1>3, <1>4, PTL DEF Spec, MessagesArrive
-----------------------------------------------------------------------------
(* Addresses: what is printed is read *)

Parts ==
    Words \cup Ports \cup {"@", ":", "/", "amqp://", "amqps://", "guest", "5671", "5672"}

Text == Seq(Parts)

\* The word c is not in the text s.
Lacks(s, c) == \A i \in 1..Len(s) : s[i] # c

LEMMA LackedFirst ==
    ASSUME NEW s \in Text, NEW c, Lacks(s, c)
    PROVE  Address!First(s, c) = 0
<1>1. ~Address!Contains(s, c)
  BY Zenon DEF Address!Contains, Lacks
<1>2. QED
  BY <1>1, Zenon DEF Address!First

LEMMA FoundFirst ==
    ASSUME NEW s \in Text, NEW c, NEW i \in 1..Len(s), s[i] = c, \A j \in 1..(i - 1) : s[j] # c
    PROVE  Address!First(s, c) = i
<1> DEFINE P(k) == s[k] = c /\ \A j \in 1..(k - 1) : s[j] # c
<1>1. DOMAIN s = 1..Len(s) /\ Len(s) \in Nat
  BY LenProperties, Zenon DEF Text
<1>2. Address!Contains(s, c)
  BY Zenon DEF Address!Contains
<1>3. Address!First(s, c) = CHOOSE k \in DOMAIN s : P(k)
  BY <1>2, Zenon DEF Address!First
<1>4. i \in DOMAIN s /\ P(i)
  BY <1>1, Zenon
<1>5. \A k \in DOMAIN s : P(k) => k = i
  <2> SUFFICES ASSUME NEW k \in DOMAIN s, P(k)
               PROVE  k = i
    OBVIOUS
  <2>1. k \in 1..Len(s) /\ k \in Int /\ i \in Int
    BY <1>1
  <2>2. ~(k < i)
    BY <2>1
  <2>3. ~(i < k)
    BY <2>1
  <2>4. QED
    BY <2>1, <2>2, <2>3
<1>6. (CHOOSE k \in DOMAIN s : P(k)) \in DOMAIN s /\ P(CHOOSE k \in DOMAIN s : P(k))
  <2> HIDE DEF P
  <2>1. QED
    BY <1>4, Zenon
<1> HIDE DEF P
<1>7. QED
  BY <1>3, <1>5, <1>6, Zenon

LEMMA FirstPlace ==
    ASSUME NEW s \in Text, NEW c, NEW i \in 1..Len(s), s[i] = c
    PROVE  Address!First(s, c) \in 1..Len(s) /\ s[Address!First(s, c)] = c
<1> DEFINE Q(n) == n \in 1..Len(s) /\ s[n] = c
           Found == {n \in Nat : Q(n)}
<1>1. Len(s) \in Nat
  BY LenProperties, Zenon DEF Text
<1>2. i \in Nat /\ Found \subseteq Nat /\ Found # {}
  BY <1>1
<1>3. PICK m \in Found : \A n \in Found : m <= n
  BY <1>2, LeastNumber
<1>4. m \in 1..Len(s) /\ s[m] = c
  BY <1>3
<1>5. \A j \in 1..(m - 1) : s[j] # c
  <2>1. \A j \in 1..(m - 1) : j \in Nat /\ j \in 1..Len(s) /\ ~(m <= j)
    BY <1>1, <1>4
  <2>2. QED
    BY <1>3, <2>1
<1>6. Address!First(s, c) = m
  BY <1>4, <1>5, FoundFirst, Zenon
<1>7. QED
  BY <1>4, <1>6, Zenon

\* The word c cuts s in x and y.
Cut(s, x, c, y) ==
    /\ s \in Text /\ Len(s) = Len(x) + 1 + Len(y) /\ Len(x) \in Nat /\ Len(y) \in Nat
    /\ \A i \in 1..Len(x) : s[i] = x[i]
    /\ s[Len(x) + 1] = c
    /\ \A i \in 1..Len(y) : s[Len(x) + 1 + i] = y[i]
    /\ Address!Before(s, Len(x) + 1) = x /\ Address!After(s, Len(x) + 1) = y
    /\ Lacks(x, c) => Address!First(s, c) = Len(x) + 1

LEMMA CutAt ==
    ASSUME NEW x \in Text, NEW y \in Text, NEW c \in Parts
    PROVE  Cut(x \o (<<c>> \o y), x, c, y)
<1> DEFINE t == <<c>> \o y
           s == x \o t
           N == Len(x)
           M == Len(y)
<1>1. N \in Nat /\ M \in Nat /\ <<c>> \in Text /\ Len(<<c>>) = 1
  BY LenProperties DEF Text
<1>2. t \in Text /\ Len(t) = 1 + M /\ t[1] = c /\ \A i \in 1..M : t[1 + i] = y[i]
  <2>1. /\ t \in Seq(Parts) /\ Len(t) = Len(<<c>>) + Len(y)
        /\ \A i \in 1..(Len(<<c>>) + Len(y)) :
              t[i] = IF i <= Len(<<c>>) THEN <<c>>[i] ELSE y[i - Len(<<c>>)]
    BY <1>1, ConcatProperties, Zenon DEF Text
  <2> HIDE DEF t
  <2>2. t[1] = c
    BY <1>1, <2>1
  <2>3. \A i \in 1..M : t[1 + i] = y[i]
    BY <1>1, <2>1
  <2>4. QED
    BY <1>1, <2>1, <2>2, <2>3 DEF Text
<1>0. s = x \o t
  OBVIOUS
<1> HIDE DEF t, s
<1>3. /\ s \in Text /\ Len(s) = N + 1 + M /\ s[N + 1] = c
      /\ \A i \in 1..N : s[i] = x[i]
      /\ \A i \in 1..M : s[N + 1 + i] = y[i]
  <2>0. x \in Seq(Parts) /\ t \in Seq(Parts)
    BY <1>2, Zenon DEF Text
  <2>1. /\ s \in Seq(Parts) /\ Len(s) = N + Len(t)
        /\ \A i \in 1..(N + Len(t)) : s[i] = IF i <= N THEN x[i] ELSE t[i - N]
    BY <1>0, <2>0, ConcatProperties, Zenon
  <2>2. s[N + 1] = c
    <3>1. N + 1 \in 1..(N + Len(t)) /\ ~(N + 1 <= N) /\ (N + 1) - N = 1
      BY <1>1, <1>2
    <3>2. QED
      BY <1>2, <2>1, <3>1
  <2>3. \A i \in 1..N : s[i] = x[i]
    BY <1>1, <1>2, <2>1
  <2>4. \A i \in 1..M : s[N + 1 + i] = y[i]
    <3> SUFFICES ASSUME NEW i \in 1..M
                 PROVE  s[N + 1 + i] = y[i]
      OBVIOUS
    <3>1. N + 1 + i \in 1..(N + Len(t)) /\ ~(N + 1 + i <= N) /\ (N + 1 + i) - N = 1 + i
      BY <1>1, <1>2
    <3>2. QED
      BY <1>2, <2>1, <3>1
  <2>5. QED
    BY <1>1, <1>2, <2>1, <2>2, <2>3, <2>4 DEF Text
<1>4. \A i \in 1..Len(s) : s[i] \in Parts
  BY <1>3 DEF Text
<1>5. Address!Before(s, N + 1) = x
  <2> DEFINE b == SubSeq(s, 1, N)
  <2>1. \A i \in 1..N : s[i] \in Parts
    BY <1>1, <1>3, <1>4
  <2>2. /\ b \in Seq(Parts) /\ Len(b) = (IF 1 <= N THEN N - 1 + 1 ELSE 0)
        /\ \A i \in 1..(N - 1 + 1) : b[i] = s[1 + i - 1]
    BY <1>1, <2>1, SubSeqProperties, 1 \in Int, N \in Int
  <2> HIDE DEF b
  <2>3. Len(b) = N /\ \A i \in 1..Len(b) : b[i] = x[i]
    BY <1>1, <1>3, <2>2
  <2>4. b = x
    BY <2>2, <2>3, SeqEqual, Zenon DEF Text
  <2>5. (N + 1) - 1 = N
    BY <1>1
  <2>6. QED
    BY <2>4, <2>5, Zenon DEF Address!Before, b
<1>6. Address!After(s, N + 1) = y
  <2> DEFINE b == SubSeq(s, N + 2, Len(s))
  <2>1. \A i \in (N + 2)..Len(s) : s[i] \in Parts
    BY <1>1, <1>3, <1>4
  <2>2. /\ b \in Seq(Parts) /\ Len(b) = (IF N + 2 <= Len(s) THEN Len(s) - (N + 2) + 1 ELSE 0)
        /\ \A i \in 1..(Len(s) - (N + 2) + 1) : b[i] = s[N + 2 + i - 1]
    BY <1>1, <1>3, <2>1, SubSeqProperties, N + 2 \in Int, Len(s) \in Int
  <2> HIDE DEF b
  <2>3. Len(b) = M
    BY <1>1, <1>3, <2>2
  <2>4. \A i \in 1..M : b[i] = y[i]
    <3> SUFFICES ASSUME NEW i \in 1..M
                 PROVE  b[i] = y[i]
      OBVIOUS
    <3>1. N + 2 + i - 1 = N + 1 + i /\ i \in 1..(Len(s) - (N + 2) + 1)
      BY <1>1, <1>3
    <3>2. QED
      BY <1>3, <2>2, <3>1
  <2>5. b = y
    BY <2>2, <2>3, <2>4, SeqEqual, Zenon DEF Text
  <2>6. (N + 1) + 1 = N + 2
    BY <1>1
  <2>7. QED
    BY <2>5, <2>6, Zenon DEF Address!After, b
<1>7. Lacks(x, c) => Address!First(s, c) = N + 1
  <2> SUFFICES ASSUME Lacks(x, c)
               PROVE  Address!First(s, c) = N + 1
    OBVIOUS
  <2>1. N + 1 \in 1..Len(s) /\ (N + 1) - 1 = N
    BY <1>1, <1>3
  <2>2. \A j \in 1..((N + 1) - 1) : s[j] # c
    BY <1>3, <2>1, Zenon DEF Lacks
  <2>3. QED
    BY <1>3, <2>1, <2>2, FoundFirst, Zenon
<1>8. QED
  BY <1>1, <1>3, <1>5, <1>6, <1>7, Zenon DEF Cut, s, t

\* In s, the host h is followed by "/" and v, with no ":" in between.
WithoutPort(s, h, v) ==
    /\ Address!First(s, "/") = Len(h) + 1
    /\ ~(Address!First(s, ":") # 0 /\ Address!First(s, ":") < Len(h) + 1)
    /\ Address!Before(s, Len(h) + 1) = h /\ Address!After(s, Len(h) + 1) = v
    /\ Len(h) + 1 < Len(s) <=> v # <<>>
    /\ Len(h) \in Nat

\* A text without "/", or with a ":" before it.
LEMMA PlaceBare ==
    ASSUME NEW h \in Text, NEW v \in Text, Lacks(h, ":"), Lacks(h, "/"),
           NEW s, s = h \o (<<"/">> \o v)
    PROVE  WithoutPort(s, h, v)
<1>1. "/" \in Parts /\ ":" \in Parts /\ "/" # ":"
  BY DEF Parts
<1>2. /\ s \in Text /\ Len(s) = Len(h) + 1 + Len(v) /\ Len(h) \in Nat /\ Len(v) \in Nat
      /\ \A i \in 1..Len(h) : s[i] = h[i]
      /\ s[Len(h) + 1] = "/"
      /\ Address!Before(s, Len(h) + 1) = h /\ Address!After(s, Len(h) + 1) = v
      /\ Address!First(s, "/") = Len(h) + 1
  <2>1. Cut(s, h, "/", v)
    BY <1>1, CutAt
  <2>2. QED
    BY <2>1, Zenon DEF Cut
<1>3. Len(h) + 1 < Len(s) <=> v # <<>>
  <2>1. Len(v) = 0 <=> v = <<>>
    BY <1>2, EmptySeq DEF Text
  <2>2. QED
    BY <1>2, <2>1
<1>4. ASSUME Address!First(s, ":") # 0
      PROVE  ~(Address!First(s, ":") < Len(h) + 1)
  <2> DEFINE k == Address!First(s, ":")
  <2>1. Address!Contains(s, ":")
    BY <1>4, Zenon DEF Address!First
  <2>2. PICK j \in 1..Len(s) : s[j] = ":"
    BY <2>1, Zenon DEF Address!Contains
  <2>3. k \in 1..Len(s) /\ s[k] = ":"
    BY <1>2, <2>2, FirstPlace
  <2>4. QED
    <3> HIDE DEF k
    <3>1. ~(k \in 1..Len(h))
      BY <1>2, <2>3, Zenon DEF Lacks
    <3>2. ~(k < Len(h) + 1)
      BY <1>2, <2>3, <3>1
    <3>3. QED
      BY <3>2, Zenon DEF k
<1>5. QED
  BY <1>2, <1>3, <1>4, Zenon DEF WithoutPort

LEMMA OneWord ==
    ASSUME NEW c \in Parts
    PROVE  <<c>> \in Text /\ Len(<<c>>) = 1 /\ <<c>>[1] = c
BY DEF Text

LEMMA Joined ==
    ASSUME NEW x \in Text, NEW y \in Text
    PROVE  x \o y \in Text
BY ConcatProperties, Zenon DEF Text

\* The texts x, y, z and u are the same in either grouping.
Three(x, y, z, u) == ((x \o y) \o z) \o u = x \o (y \o (z \o u))

LEMMA Regrouped ==
    ASSUME NEW x \in Text, NEW y \in Text, NEW z \in Text
    PROVE  Two(x, y, z)
<1>1. x \in Seq(Parts) /\ y \in Seq(Parts) /\ z \in Seq(Parts)
  BY Zenon DEF Text
<1>2. QED
  BY <1>1, EitherGrouping, Zenon

LEMMA ThreeFirst ==
    ASSUME NEW x \in Text, NEW y \in Text, NEW z \in Text, NEW u \in Text
    PROVE  Three(x, y, z, u)
<1> DEFINE a == x \o y
           b == z \o u
<1>1. a \in Text /\ b \in Text
  BY Joined, Zenon
<1>2. a \o b = x \o (y \o b)
  <2> HIDE DEF b
  <2>1. Two(x, y, b)
    BY Regrouped, <1>1, Zenon
  <2>2. QED
    BY <2>1, Zenon DEF Two
<1>3. (a \o z) \o u = a \o b
  <2> HIDE DEF a
  <2>1. Two(a, z, u)
    BY Regrouped, <1>1, Zenon
  <2>2. QED
    BY <2>1, Zenon DEF Two
<1> HIDE DEF a, b
<1>4. a \o b = x \o (y \o b) /\ (a \o z) \o u = a \o b
  BY <1>2, <1>3, Zenon
<1>5. ((x \o y) \o z) \o u = x \o (y \o (z \o u))
  BY <1>4, Zenon DEF a, b
<1>6. QED
  BY <1>5, Zenon DEF Three

\* In s, the host h is followed by ":", w, "/" and v.
WithPort(s, h, w, v) ==
    /\ Len(h) \in Nat
    /\ Address!First(s, "/") = Len(h) + 3 /\ Address!First(s, ":") = Len(h) + 1
    /\ Address!Before(s, Len(h) + 1) = h /\ Address!After(s, Len(h) + 3) = v
    /\ SubSeq(s, Len(h) + 2, Len(h) + 2) = <<w>>
    /\ Len(h) + 3 < Len(s) <=> v # <<>>

\* A text with a port before the "/".
LEMMA PlacePort ==
    ASSUME NEW h \in Text, NEW w \in Parts, NEW v \in Text, Lacks(h, ":"), Lacks(h, "/"),
           w # "/", NEW s, s = h \o (<<":">> \o (<<w>> \o (<<"/">> \o v)))
    PROVE  WithPort(s, h, w, v)
<1> DEFINE t == <<w>> \o (<<"/">> \o v)
           g == (h \o <<":">>) \o <<w>>
<1>1. "/" \in Parts /\ ":" \in Parts /\ "/" # ":" /\ <<"/">> \in Text /\ <<":">> \in Text
      /\ <<w>> \in Text
  <2>1. "/" \in Parts /\ ":" \in Parts /\ "/" # ":"
    BY DEF Parts
  <2>2. QED
    BY <2>1, OneWord, Zenon
<1>2. t \in Text /\ <<"/">> \o v \in Text /\ h \o <<":">> \in Text /\ g \in Text
  BY <1>1, Joined, Zenon
<1>3. s = h \o (<<":">> \o t)
  OBVIOUS
<1>4. s = g \o (<<"/">> \o v)
  <2> DEFINE b == <<"/">> \o v
             c == <<":">>
             d == <<w>>
  <2>1. b \in Text /\ c \in Text /\ d \in Text
    BY <1>1, <1>2, Zenon
  <2>2. s = h \o (c \o (d \o b))
    OBVIOUS
  <2>3. g \o b = ((h \o c) \o d) \o b
    OBVIOUS
  <2> HIDE DEF b, c, d, g, t
  <2>4. ((h \o c) \o d) \o b = h \o (c \o (d \o b))
    <3>1. Three(h, c, d, b)
      BY <2>1, ThreeFirst, Zenon
    <3>2. QED
      BY <3>1, Zenon DEF Three
  <2>5. QED
    BY <2>2, <2>3, <2>4, Zenon DEF b
<1>5. Cut(s, h, ":", t)
  <2> HIDE DEF t
  <2>1. QED
    BY <1>1, <1>2, <1>3, CutAt
<1>6. Cut(s, g, "/", v)
  <2> HIDE DEF g
  <2>1. QED
    BY <1>1, <1>2, <1>4, CutAt
<1>7. Cut(t, <<>>, w, <<"/">> \o v)
  <2>1. <<>> \in Text
    BY EmptySeq DEF Text
  <2>2. t = <<>> \o t
    BY <1>2, ConcatEmptySeq DEF Text
  <2>3. QED
    BY <1>2, <2>1, <2>2, CutAt
<1>8. /\ s \in Text /\ Len(h) \in Nat /\ Len(s) = Len(h) + 1 + Len(t)
      /\ \A i \in 1..Len(h) : s[i] = h[i]
      /\ s[Len(h) + 1] = ":" /\ \A i \in 1..Len(t) : s[Len(h) + 1 + i] = t[i]
      /\ Address!Before(s, Len(h) + 1) = h /\ Address!First(s, ":") = Len(h) + 1
  BY <1>5, Zenon DEF Cut
<1>9. Len(t) = 2 + Len(v) /\ t[1] = w /\ Len(v) \in Nat
  <2>1. Cut(<<"/">> \o v, <<>>, "/", v)
    <3>1. <<>> \in Text
      BY EmptySeq DEF Text
    <3>2. <<"/">> \o v = <<>> \o (<<"/">> \o v)
      BY <1>2, ConcatEmptySeq DEF Text
    <3>3. QED
      BY <1>1, <3>1, <3>2, CutAt
  <2>2. Len(<<>>) = 0
    OBVIOUS
  <2>3. /\ Len(t) = Len(<<>>) + 1 + Len(<<"/">> \o v) /\ t[Len(<<>>) + 1] = w
        /\ Len(<<"/">> \o v) = Len(<<>>) + 1 + Len(v) /\ Len(v) \in Nat
    BY <1>7, <2>1, Zenon DEF Cut
  <2> HIDE DEF t
  <2>4. QED
    BY <2>2, <2>3
<1>10. Len(g) = Len(h) + 2
  <2>1. /\ Len(s) = Len(g) + 1 + Len(v) /\ Len(g) \in Nat
    BY <1>6, Zenon DEF Cut
  <2> HIDE DEF t, g
  <2>2. QED
    BY <1>8, <1>9, <2>1
<1>11. \A i \in 1..Len(g) : s[i] = g[i]
  BY <1>6, Zenon DEF Cut
<1> HIDE DEF t, g
<1>12. Len(h) + 2 \in Int /\ s[Len(h) + 2] = w
  <2>1. 1 \in 1..Len(t) /\ Len(h) + 1 + 1 = Len(h) + 2
    BY <1>8, <1>9
  <2>2. s[Len(h) + 1 + 1] = w
    BY <1>8, <1>9, <2>1, Zenon
  <2>3. QED
    BY <1>8, <2>1, <2>2
<1>13. Lacks(g, "/")
  <2> SUFFICES ASSUME NEW i \in 1..Len(g)
               PROVE  g[i] # "/"
    BY DEF Lacks
  <2>1. CASE i \in 1..Len(h)
    BY <1>8, <1>11, <2>1, Zenon DEF Lacks
  <2>2. CASE i = Len(h) + 1
    BY <1>1, <1>8, <1>11, <2>2
  <2>3. CASE i = Len(h) + 2
    BY <1>11, <1>12, <2>3
  <2>4. QED
    BY <1>8, <1>10, <2>1, <2>2, <2>3
<1>14. Address!First(s, "/") = Len(h) + 3 /\ Address!After(s, Len(h) + 3) = v
  <2>1. Address!First(s, "/") = Len(g) + 1 /\ Address!After(s, Len(g) + 1) = v
    BY <1>6, <1>13, Zenon DEF Cut
  <2>2. Len(g) + 1 = Len(h) + 3
    BY <1>8, <1>10
  <2>3. QED
    BY <2>1, <2>2
<1>15. SubSeq(s, Len(h) + 2, Len(h) + 2) = <<w>>
  <2> DEFINE n == Len(h) + 2
             b == SubSeq(s, n, n)
  <2>1. \A i \in n..n : s[i] \in Parts
    BY <1>12
  <2>2. /\ b \in Seq(Parts) /\ Len(b) = (IF n <= n THEN n - n + 1 ELSE 0)
        /\ \A i \in 1..(n - n + 1) : b[i] = s[n + i - 1]
    BY <1>12, <2>1, SubSeqProperties
  <2> HIDE DEF b
  <2>3. Len(b) = 1 /\ b[1] = w
    <3>1. n \in Int /\ s[n] = w
      BY <1>12
    <3> HIDE DEF n
    <3>2. n <= n /\ n - n + 1 = 1 /\ 1 \in 1..(n - n + 1) /\ n + 1 - 1 = n
      BY <3>1
    <3>3. QED
      BY <2>2, <3>1, <3>2
  <2>4. \A i \in 1..Len(b) : b[i] = <<w>>[i]
    BY <2>3
  <2>5. b = <<w>>
    BY <2>2, <2>3, <2>4, OneWord, SeqEqual DEF Text
  <2>6. QED
    BY <2>5, Zenon DEF b
<1>16. Len(h) + 3 < Len(s) <=> v # <<>>
  <2>1. Len(v) = 0 <=> v = <<>>
    BY <1>9, EmptySeq DEF Text
  <2>2. QED
    BY <1>8, <1>9, <2>1
<1>17. QED
  BY <1>8, <1>14, <1>15, <1>16, Zenon DEF WithPort

\* What Read takes from the rest of a text, behind the login.
ReadPlace(rest, secure, login) ==
    LET slash == Address!First(rest, "/")
        colon == Address!First(rest, ":")
        end == IF slash = 0 THEN Len(rest) + 1 ELSE slash
        ported == colon # 0 /\ colon < end
    IN [secure |-> secure, login |-> login,
        host |-> Address!Before(rest, IF ported THEN colon ELSE end),
        port |-> IF ported THEN SubSeq(rest, colon + 1, end - 1)
                 ELSE <<Address!DefaultPort(secure)>>,
        vhost |-> IF slash # 0 /\ slash < Len(rest) THEN Address!After(rest, slash) ELSE <<"/">>]

\* Addresses of any words, that can be told apart once they are printed.
Printable(a) ==
    /\ a.secure \in BOOLEAN
    /\ a.login.user \in Text /\ Lacks(a.login.user, ":") /\ Lacks(a.login.user, "@")
    /\ a.login.password \in Text /\ Lacks(a.login.password, "@")
    /\ a.host \in Text /\ \A c \in {"@", ":", "/"} : Lacks(a.host, c)
    /\ \E p \in Parts \ {"@", ":", "/"} : a.port = <<p>>
    /\ a.vhost \in Text /\ a.vhost # <<>> /\ Lacks(a.vhost, "@")

LEMMA PlaceWithout ==
    ASSUME NEW h \in Text, NEW v \in Text, Lacks(h, ":"), Lacks(h, "/"), NEW secure, NEW login
    PROVE  ReadPlace(h \o (<<"/">> \o v), secure, login) =
             [secure |-> secure, login |-> login, host |-> h,
              port |-> <<Address!DefaultPort(secure)>>,
              vhost |-> IF v = <<>> THEN <<"/">> ELSE v]
<1> DEFINE s == h \o (<<"/">> \o v)
           slash == Address!First(s, "/")
           colon == Address!First(s, ":")
           end == IF slash = 0 THEN Len(s) + 1 ELSE slash
           ported == colon # 0 /\ colon < end
           host == Address!Before(s, IF ported THEN colon ELSE end)
           port == IF ported THEN SubSeq(s, colon + 1, end - 1)
                   ELSE <<Address!DefaultPort(secure)>>
           vhost == IF slash # 0 /\ slash < Len(s) THEN Address!After(s, slash) ELSE <<"/">>
<1>1. ReadPlace(s, secure, login) =
        [secure |-> secure, login |-> login, host |-> host, port |-> port, vhost |-> vhost]
  BY DEF ReadPlace
<1>2. /\ slash = Len(h) + 1 /\ ~(colon # 0 /\ colon < Len(h) + 1)
      /\ Address!Before(s, Len(h) + 1) = h /\ Address!After(s, Len(h) + 1) = v
      /\ Len(h) + 1 < Len(s) <=> v # <<>>
      /\ Len(h) \in Nat
  <2> HIDE DEF s
  <2>1. s = h \o (<<"/">> \o v)
    BY Zenon DEF s
  <2>2. WithoutPort(s, h, v)
    BY <2>1, PlaceBare
  <2>3. QED
    BY <2>2, Zenon DEF WithoutPort
<1> HIDE DEF s, slash, colon
<1>3. slash # 0 /\ end = slash
  BY <1>2
<1>4. ~ported
  BY <1>2, <1>3
<1>5. host = h /\ port = <<Address!DefaultPort(secure)>>
  BY <1>2, <1>3, <1>4, Zenon
<1>6. vhost = IF v = <<>> THEN <<"/">> ELSE v
  <2>1. slash < Len(s) <=> v # <<>>
    BY <1>2, Zenon
  <2>2. QED
    BY <1>2, <1>3, <2>1, Zenon
<1> HIDE DEF host, port, vhost
<1>7. QED
  BY <1>1, <1>5, <1>6, Zenon DEF s

LEMMA PlaceWith ==
    ASSUME NEW h \in Text, NEW w \in Parts, NEW v \in Text, Lacks(h, ":"), Lacks(h, "/"),
           w # "/", NEW secure, NEW login
    PROVE  ReadPlace(h \o (<<":">> \o (<<w>> \o (<<"/">> \o v))), secure, login) =
             [secure |-> secure, login |-> login, host |-> h, port |-> <<w>>,
              vhost |-> IF v = <<>> THEN <<"/">> ELSE v]
<1> DEFINE s == h \o (<<":">> \o (<<w>> \o (<<"/">> \o v)))
           slash == Address!First(s, "/")
           colon == Address!First(s, ":")
           end == IF slash = 0 THEN Len(s) + 1 ELSE slash
           ported == colon # 0 /\ colon < end
           host == Address!Before(s, IF ported THEN colon ELSE end)
           port == IF ported THEN SubSeq(s, colon + 1, end - 1)
                   ELSE <<Address!DefaultPort(secure)>>
           vhost == IF slash # 0 /\ slash < Len(s) THEN Address!After(s, slash) ELSE <<"/">>
<1>1. ReadPlace(s, secure, login) =
        [secure |-> secure, login |-> login, host |-> host, port |-> port, vhost |-> vhost]
  BY DEF ReadPlace
<1>2. /\ slash = Len(h) + 3 /\ colon = Len(h) + 1 /\ Len(h) \in Nat
      /\ Address!Before(s, Len(h) + 1) = h /\ Address!After(s, Len(h) + 3) = v
      /\ SubSeq(s, Len(h) + 2, Len(h) + 2) = <<w>>
      /\ Len(h) + 3 < Len(s) <=> v # <<>>
  <2> HIDE DEF s
  <2>1. s = h \o (<<":">> \o (<<w>> \o (<<"/">> \o v)))
    BY Zenon DEF s
  <2>2. WithPort(s, h, w, v)
    BY <2>1, PlacePort
  <2>3. QED
    BY <2>2, Zenon DEF WithPort
<1> HIDE DEF s, slash, colon
<1>3. slash # 0 /\ end = slash /\ ported /\ colon + 1 = Len(h) + 2 /\ end - 1 = Len(h) + 2
  BY <1>2
<1>4. host = h
  BY <1>2, <1>3, Zenon
<1>5. port = <<w>>
  BY <1>2, <1>3, Zenon
<1>6. vhost = IF v = <<>> THEN <<"/">> ELSE v
  <2>1. slash < Len(s) <=> v # <<>>
    BY <1>2, Zenon
  <2>2. QED
    BY <1>2, <1>3, <2>1, Zenon
<1> HIDE DEF host, port, vhost
<1>7. QED
  BY <1>1, <1>4, <1>5, <1>6, Zenon DEF s

LEMMA JoinedLacks ==
    ASSUME NEW x \in Text, NEW y \in Text, NEW c, Lacks(x, c), Lacks(y, c)
    PROVE  Lacks(x \o y, c)
<1> DEFINE s == x \o y
<1>1. /\ s \in Seq(Parts) /\ Len(s) = Len(x) + Len(y)
      /\ \A i \in 1..(Len(x) + Len(y)) : s[i] = IF i <= Len(x) THEN x[i] ELSE y[i - Len(x)]
  <2>1. x \in Seq(Parts) /\ y \in Seq(Parts)
    BY Zenon DEF Text
  <2>2. QED
    BY <2>1, ConcatProperties, Zenon
<1> HIDE DEF s
<1>2. Len(x) \in Nat /\ Len(y) \in Nat
  BY LenProperties DEF Text
<1>3. ASSUME NEW i \in 1..Len(s)
      PROVE  s[i] # c
  <2>1. CASE i <= Len(x)
    <3>1. i \in 1..Len(x)
      BY <1>1, <1>2, <2>1
    <3>2. QED
      BY <1>1, <2>1, <3>1 DEF Lacks
  <2>2. CASE ~(i <= Len(x))
    <3>1. i - Len(x) \in 1..Len(y)
      BY <1>1, <1>2, <2>2
    <3>2. QED
      BY <1>1, <2>2, <3>1 DEF Lacks
  <2>3. QED
    BY <2>1, <2>2
<1>4. QED
  BY <1>3, Zenon DEF Lacks, s

LEMMA WordLacks ==
    ASSUME NEW p, NEW c, p # c
    PROVE  Lacks(<<p>>, c)
BY DEF Lacks

\* What follows the "/".
Shown(v) == IF v = <<"/">> THEN <<>> ELSE v

\* Place, with a port or without.
LEMMA PlaceShape ==
    ASSUME NEW a, Printable(a), NEW d, NEW w \in Parts \ {"@", ":", "/"}, a.port = <<w>>
    PROVE  /\ Address!Place(a, d) = IF w = d THEN a.host \o (<<"/">> \o Shown(a.vhost))
                                    ELSE a.host \o (<<":">> \o (<<w>> \o (<<"/">> \o Shown(a.vhost))))
           /\ Address!Place(a, d) \in Text /\ Lacks(Address!Place(a, d), "@")
           /\ Shown(a.vhost) \in Text
<1> DEFINE h == a.host
           v == Shown(a.vhost)
           slash == <<"/">>
           colon == <<":">>
           q == IF a.port = <<d>> THEN <<>> ELSE colon \o <<w>>
<1>1. /\ h \in Text /\ Lacks(h, "@") /\ a.vhost \in Text /\ Lacks(a.vhost, "@")
      /\ w \in Parts /\ w # "@"
  BY Zenon DEF Printable
<1>2. slash \in Text /\ colon \in Text /\ <<w>> \in Text /\ <<>> \in Text
  <2>1. "/" \in Parts /\ ":" \in Parts
    BY DEF Parts
  <2>2. <<>> \in Text
    BY EmptySeq DEF Text
  <2>3. QED
    BY <1>1, <2>1, <2>2, OneWord, Zenon
<1>3. Lacks(slash, "@") /\ Lacks(colon, "@") /\ Lacks(<<w>>, "@") /\ Lacks(<<>>, "@")
  <2>1. "/" # "@" /\ ":" # "@"
    OBVIOUS
  <2>2. Lacks(<<>>, "@")
    BY DEF Lacks
  <2>3. QED
    BY <1>1, <2>1, <2>2, WordLacks, Zenon
<1>4. v \in Text /\ Lacks(v, "@")
  BY <1>1, <1>2, <1>3, Zenon DEF Shown
<1>5. Address!Place(a, d) = ((h \o q) \o slash) \o v
  <2>1. a.port = <<w>>
    OBVIOUS
  <2>2. QED
    BY <2>1 DEF Address!Place, Shown
<1>6. a.port = <<d>> <=> w = d
  OBVIOUS
<1>7. slash \o v \in Text /\ Lacks(slash \o v, "@") /\ colon \o <<w>> \in Text
      /\ Lacks(colon \o <<w>>, "@")
  BY <1>2, <1>3, <1>4, Joined, JoinedLacks
<1>8. q \in Text /\ Lacks(q, "@")
  BY <1>2, <1>3, <1>7, Zenon
<1> DEFINE end == slash \o v
<1>9. end \in Text /\ Lacks(end, "@")
  BY <1>7, Zenon
<1> HIDE DEF end
<1>10. /\ ((h \o q) \o slash) \o v \in Text
       /\ Lacks(((h \o q) \o slash) \o v, "@")
  <2> HIDE DEF q, h, slash, v
  <2>1. h \o q \in Text /\ Lacks(h \o q, "@")
    BY <1>1, <1>8, Joined, JoinedLacks
  <2>2. (h \o q) \o slash \in Text /\ Lacks((h \o q) \o slash, "@")
    BY <1>2, <1>3, <2>1, Joined, JoinedLacks
  <2>3. QED
    BY <1>4, <2>2, Joined, JoinedLacks
<1>11. CASE w = d
  <2>1. q = <<>> /\ h \o <<>> = h
    BY <1>1, <1>6, <1>11, ConcatEmptySeq DEF Text
  <2>2. (h \o slash) \o v = h \o end
    <3> HIDE DEF q, h, slash, v
    <3>1. Two(h, slash, v)
      BY <1>1, <1>2, <1>4, Regrouped, Zenon
    <3>2. QED
      BY <3>1, Zenon DEF end, Two
  <2>3. Address!Place(a, d) = h \o end
    <3> HIDE DEF q, h, slash, v
    <3>1. QED
      BY <1>5, <2>1, <2>2, Zenon
  <2>4. Address!Place(a, d) = a.host \o (<<"/">> \o Shown(a.vhost))
    BY <2>3, Zenon DEF end
  <2>5. QED
    BY <1>4, <1>5, <1>10, <1>11, <2>4, Zenon
<1>12. CASE w # d
  <2>1. q = colon \o <<w>>
    BY <1>6, <1>12, Zenon
  <2>2. ((h \o q) \o slash) \o v = h \o (q \o end)
    <3> HIDE DEF q, h, slash, v
    <3>1. Three(h, q, slash, v)
      BY <1>1, <1>2, <1>4, <1>8, ThreeFirst, Zenon
    <3>2. QED
      BY <3>1, Zenon DEF end, Three
  <2>3. (colon \o <<w>>) \o end = colon \o (<<w>> \o end)
    <3> DEFINE word == <<w>>
    <3>1. word \in Text
      BY <1>2, Zenon
    <3> HIDE DEF word, colon
    <3>2. Two(colon, word, end)
      BY <1>2, <1>9, <3>1, Regrouped, Zenon
    <3>3. QED
      BY <3>2, Zenon DEF word, Two
  <2>4. Address!Place(a, d) = h \o (colon \o (<<w>> \o end))
    <3> HIDE DEF q, h, slash, v, colon
    <3>1. QED
      BY <1>5, <2>1, <2>2, <2>3, Zenon
  <2>5. Address!Place(a, d) = a.host \o (<<":">> \o (<<w>> \o (<<"/">> \o Shown(a.vhost))))
    BY <2>4, Zenon DEF end
  <2>6. QED
    BY <1>4, <1>5, <1>10, <1>12, <2>5, Zenon
<1>13. QED
  BY <1>11, <1>12

\* A printed place is read as it was, but that a port of d is that of the protocol.
LEMMA PlaceRead ==
    ASSUME NEW a, Printable(a), NEW d, NEW secure, NEW login
    PROVE  ReadPlace(Address!Place(a, d), secure, login) =
             [secure |-> secure, login |-> login, host |-> a.host,
              port |-> IF a.port = <<d>> THEN <<Address!DefaultPort(secure)>> ELSE a.port,
              vhost |-> a.vhost]
<1> DEFINE v == Shown(a.vhost)
           R(port, vhost) == [secure |-> secure, login |-> login, host |-> a.host,
                              port |-> port, vhost |-> vhost]
<1>1. PICK w \in Parts \ {"@", ":", "/"} : a.port = <<w>>
  BY Zenon DEF Printable
<1>2. /\ Address!Place(a, d) = IF w = d THEN a.host \o (<<"/">> \o v)
                               ELSE a.host \o (<<":">> \o (<<w>> \o (<<"/">> \o v)))
      /\ v \in Text
  BY <1>1, PlaceShape, Zenon
<1>3. a.host \in Text /\ Lacks(a.host, ":") /\ Lacks(a.host, "/") /\ w \in Parts /\ w # "/"
  BY <1>1, Zenon DEF Printable
<1>4. (IF v = <<>> THEN <<"/">> ELSE v) = a.vhost
  <2>1. a.vhost # <<>>
    BY Zenon DEF Printable
  <2>2. QED
    BY <2>1, Zenon DEF Shown
<1>5. a.port = <<d>> <=> w = d
  BY <1>1
<1> HIDE DEF v
<1>6. CASE w = d
  <2>1. ReadPlace(a.host \o (<<"/">> \o v), secure, login) =
          R(<<Address!DefaultPort(secure)>>, IF v = <<>> THEN <<"/">> ELSE v)
    BY <1>2, <1>3, PlaceWithout
  <2> HIDE DEF R
  <2>2. ReadPlace(Address!Place(a, d), secure, login) = R(<<Address!DefaultPort(secure)>>, a.vhost)
    BY <1>2, <1>4, <1>6, <2>1, Zenon
  <2>3. QED
    BY <1>5, <1>6, <2>2, Zenon DEF R
<1>7. CASE w # d
  <2>1. ReadPlace(a.host \o (<<":">> \o (<<w>> \o (<<"/">> \o v))), secure, login) =
          R(<<w>>, IF v = <<>> THEN <<"/">> ELSE v)
    BY <1>2, <1>3, PlaceWith
  <2> HIDE DEF R
  <2>2. ReadPlace(Address!Place(a, d), secure, login) = R(a.port, a.vhost)
    BY <1>1, <1>2, <1>4, <1>7, <2>1, Zenon
  <2>3. QED
    BY <1>5, <1>7, <2>2, Zenon DEF R
<1>8. QED
  BY <1>6, <1>7

LEMMA TextBehind ==
    ASSUME NEW p \in Parts, NEW t \in Text
    PROVE  /\ (<<p>> \o t)[1] = p /\ Tail(<<p>> \o t) = t
<1> DEFINE s == <<p>> \o t
<1>1. <<p>> \in Text /\ Len(<<p>>) = 1 /\ <<p>>[1] = p /\ Len(t) \in Nat
  BY OneWord, LenProperties DEF Text
<1>2. /\ s \in Seq(Parts) /\ Len(s) = Len(<<p>>) + Len(t)
      /\ \A i \in 1..(Len(<<p>>) + Len(t)) :
            s[i] = IF i <= Len(<<p>>) THEN <<p>>[i] ELSE t[i - Len(<<p>>)]
  <2>1. <<p>> \in Seq(Parts) /\ t \in Seq(Parts)
    BY <1>1, Zenon DEF Text
  <2>2. QED
    BY <2>1, ConcatProperties, Zenon
<1> HIDE DEF s
<1>3. s[1] = p /\ Len(s) = 1 + Len(t) /\ s # <<>>
  BY <1>1, <1>2
<1>4. /\ Tail(s) \in Seq(Parts) /\ Len(Tail(s)) = Len(s) - 1
      /\ \A i \in 1..Len(Tail(s)) : Tail(s)[i] = s[i + 1]
  BY <1>2, <1>3, HeadTailProperties
<1>5. Len(Tail(s)) = Len(t)
  BY <1>1, <1>3, <1>4
<1>6. \A i \in 1..Len(Tail(s)) : Tail(s)[i] = t[i]
  <2> SUFFICES ASSUME NEW i \in 1..Len(Tail(s))
               PROVE  Tail(s)[i] = t[i]
    OBVIOUS
  <2>1. i + 1 \in 1..(Len(<<p>>) + Len(t)) /\ ~(i + 1 <= Len(<<p>>)) /\ (i + 1) - Len(<<p>>) = i
    BY <1>1, <1>5
  <2>2. QED
    BY <1>2, <1>4, <2>1
<1>7. Tail(s) = t
  BY <1>4, <1>5, <1>6, SeqEqual DEF Text
<1>8. QED
  BY <1>3, <1>7, Zenon DEF s

\* A text without a login.
LEMMA ReadBare ==
    ASSUME NEW p \in {"amqp://", "amqps://"}, NEW r \in Text, Lacks(r, "@")
    PROVE  Address!Read(<<p>> \o r) = ReadPlace(r, p = "amqps://", Address!Guest)
<1> DEFINE text == <<p>> \o r
<1>1. text[1] = p /\ Tail(text) = r
  BY TextBehind DEF Parts
<1>2. Address!First(r, "@") = 0
  BY LackedFirst
<1>3. Address!After(r, 0) = r
  <2> DEFINE b == SubSeq(r, 1, Len(r))
  <2>1. Len(r) \in Nat /\ \A i \in 1..Len(r) : r[i] \in Parts
    BY LenProperties DEF Text
  <2>2. /\ b \in Seq(Parts) /\ Len(b) = (IF 1 <= Len(r) THEN Len(r) - 1 + 1 ELSE 0)
        /\ \A i \in 1..(Len(r) - 1 + 1) : b[i] = r[1 + i - 1]
    BY <2>1, SubSeqProperties, 1 \in Int, Len(r) \in Int
  <2> HIDE DEF b
  <2>3. Len(b) = Len(r) /\ \A i \in 1..Len(b) : b[i] = r[i]
    BY <2>1, <2>2
  <2>4. b = r
    BY <2>2, <2>3, SeqEqual DEF Text
  <2>5. 0 + 1 = 1
    OBVIOUS
  <2>6. QED
    BY <2>4, <2>5, Zenon DEF Address!After, b
<1> HIDE DEF text
<1>4. Address!Read(text) = ReadPlace(r, p = "amqps://", Address!Guest)
  BY <1>1, <1>2, <1>3 DEF Address!Read, ReadPlace
<1>5. QED
  BY <1>4, Zenon DEF text

\* A text with a login, that holds no "@".
LEMMA ReadLogged ==
    ASSUME NEW p \in {"amqp://", "amqps://"}, NEW l \in Text, NEW r \in Text, Lacks(l, "@")
    PROVE  Address!Read(<<p>> \o (l \o (<<"@">> \o r))) =
             ReadPlace(r, p = "amqps://", Address!ReadLogin(l))
<1> DEFINE t == l \o (<<"@">> \o r)
           text == <<p>> \o t
           at == Len(l) + 1
<1>1. Cut(t, l, "@", r)
  <2>1. "@" \in Parts
    BY DEF Parts
  <2>2. QED
    BY <2>1, CutAt
<1>2. /\ t \in Text /\ Address!Before(t, at) = l /\ Address!After(t, at) = r
      /\ Address!First(t, "@") = at /\ Len(l) \in Nat
  BY <1>1, Zenon DEF Cut
<1> HIDE DEF t
<1>3. text[1] = p /\ Tail(text) = t
  <2>1. p \in Parts
    BY DEF Parts
  <2>2. QED
    BY <1>2, <2>1, TextBehind
<1>4. at # 0
  BY <1>2
<1> HIDE DEF text, at
<1>5. Address!Read(text) = ReadPlace(r, p = "amqps://", Address!ReadLogin(l))
  BY <1>2, <1>3, <1>4 DEF Address!Read, ReadPlace
<1>6. QED
  BY <1>5, Zenon DEF text, t

LEMMA LoginRead ==
    ASSUME NEW u \in Text, NEW w \in Text, Lacks(u, ":")
    PROVE  Address!ReadLogin(u \o (<<":">> \o w)) = [user |-> u, password |-> w]
<1> DEFINE s == u \o (<<":">> \o w)
           colon == Len(u) + 1
<1>1. Cut(s, u, ":", w)
  <2>1. ":" \in Parts
    BY DEF Parts
  <2>2. QED
    BY <2>1, CutAt
<1>2. /\ Address!Before(s, colon) = u /\ Address!After(s, colon) = w
      /\ Address!First(s, ":") = colon /\ Len(u) \in Nat
  BY <1>1, Zenon DEF Cut
<1>3. colon # 0
  BY <1>2
<1> HIDE DEF s, colon
<1>4. Address!ReadLogin(s) = [user |-> u, password |-> w]
  BY <1>2, <1>3 DEF Address!ReadLogin
<1>5. QED
  BY <1>4, Zenon DEF s

\* A printed address is a protocol, a login, "@" and a place.
PrintedInTwo(p, u, c, w, at, r) ==
    ((((p \o u) \o c) \o w) \o at) \o r = p \o ((u \o (c \o w)) \o (at \o r))

OutputInTwo(p, u, c, w, at, r) ==
    (p \o (((u \o c) \o w) \o at)) \o r = p \o ((u \o (c \o w)) \o (at \o r))

LEMMA PrintedGroups ==
    ASSUME NEW p \in Text, NEW u \in Text, NEW c \in Text, NEW w \in Text, NEW at \in Text,
           NEW r \in Text
    PROVE  PrintedInTwo(p, u, c, w, at, r)
<1> DEFINE l == u \o (c \o w)
<1>1. l \in Text
  BY Joined, Zenon
<1>2. Three(p, u, c, w) /\ Three(p, l, at, r)
  <2> HIDE DEF l
  <2>1. QED
    BY <1>1, ThreeFirst, Zenon
<1>3. ((p \o u) \o c) \o w = p \o l
  BY <1>2, Zenon DEF Three
<1>4. ((p \o l) \o at) \o r = p \o (l \o (at \o r))
  <2> HIDE DEF l
  <2>1. QED
    BY <1>2, Zenon DEF Three
<1> HIDE DEF l
<1>5. QED
  BY <1>3, <1>4, Zenon DEF l, PrintedInTwo

LEMMA OutputGroups ==
    ASSUME NEW p \in Text, NEW u \in Text, NEW c \in Text, NEW w \in Text, NEW at \in Text,
           NEW r \in Text
    PROVE  OutputInTwo(p, u, c, w, at, r)
<1> DEFINE l == u \o (c \o w)
           m == l \o at
<1>1. l \in Text
  BY Joined, Zenon
<1>2. Two(u, c, w)
  BY Regrouped, Zenon
<1>3. (u \o c) \o w = l
  BY <1>2, Zenon DEF Two
<1> HIDE DEF l
<1>4. m \in Text
  BY <1>1, Joined, Zenon
<1>5. Two(l, at, r)
  BY <1>1, Regrouped, Zenon
<1>6. m \o r = l \o (at \o r)
  BY <1>5, Zenon DEF Two
<1> HIDE DEF m
<1>7. Two(p, m, r)
  BY <1>4, Regrouped, Zenon
<1>8. (p \o m) \o r = p \o (m \o r)
  BY <1>7, Zenon DEF Two
<1>9. QED
  BY <1>3, <1>6, <1>8, Zenon DEF l, m, OutputInTwo

AddressRec ==
    [secure : BOOLEAN, login : [user : Text, password : Text], host : Text, port : Text,
     vhost : Text]

LEMMA AddressFields ==
    ASSUME NEW a \in AddressRec
    PROVE  /\ a = [secure |-> a.secure, login |-> a.login, host |-> a.host, port |-> a.port,
                   vhost |-> a.vhost]
           /\ a.login = [user |-> a.login.user, password |-> a.login.password]
BY DEF AddressRec

\* The address a with another login and port.
With(a, login, port) ==
    [secure |-> a.secure, login |-> login, host |-> a.host, port |-> port, vhost |-> a.vhost]

\* What a printed address is read as, with and without its login.
LEMMA AnyReadBack ==
    ASSUME NEW a \in AddressRec, Printable(a), NEW d
    PROVE  LET p == Address!Protocol(a)
               u == a.login.user
               w == a.login.password
               r == Address!Place(a, d)
               port == IF a.port = <<d>> THEN <<Address!DefaultPort(a.secure)>> ELSE a.port
           IN /\ Address!Read(p \o ((u \o (<<":">> \o w)) \o (<<"@">> \o r))) =
                    With(a, a.login, port)
              /\ Address!Read(p \o r) = With(a, Address!Guest, port)
              /\ r \in Text
<1> DEFINE word == IF a.secure THEN "amqps://" ELSE "amqp://"
           u == a.login.user
           w == a.login.password
           r == Address!Place(a, d)
           l == u \o (<<":">> \o w)
           port == IF a.port = <<d>> THEN <<Address!DefaultPort(a.secure)>> ELSE a.port
           As(login) == With(a, login, port)
<1>1. Address!Protocol(a) = <<word>> /\ word \in {"amqp://", "amqps://"}
  BY DEF Address!Protocol
<1>2. a.secure \in BOOLEAN /\ (word = "amqps://") = a.secure
  BY DEF Printable
<1>3. r \in Text /\ Lacks(r, "@")
  <2>1. PICK q \in Parts \ {"@", ":", "/"} : a.port = <<q>>
    BY Zenon DEF Printable
  <2>2. QED
    BY <2>1, PlaceShape, Zenon
<1>4. u \in Text /\ w \in Text /\ Lacks(u, ":") /\ Lacks(u, "@") /\ Lacks(w, "@")
  BY Zenon DEF Printable
<1>5. l \in Text /\ Lacks(l, "@")
  <2> DEFINE colon == <<":">>
  <2>1. colon \in Text /\ Lacks(colon, "@")
    <3>1. ":" \in Parts /\ ":" # "@"
      BY DEF Parts
    <3>2. QED
      BY <3>1, OneWord, WordLacks, Zenon
  <2>2. l = u \o (colon \o w)
    OBVIOUS
  <2> HIDE DEF colon, l, u, w
  <2>3. colon \o w \in Text /\ Lacks(colon \o w, "@")
    BY <1>4, <2>1, Joined, JoinedLacks
  <2>4. QED
    BY <1>4, <2>2, <2>3, Joined, JoinedLacks
<1>6. Address!ReadLogin(l) = a.login
  <2>1. Address!ReadLogin(l) = [user |-> u, password |-> w]
    BY <1>4, LoginRead, Zenon
  <2>2. QED
    BY <2>1, AddressFields, Zenon
<1>7. \A login : ReadPlace(r, a.secure, login) = As(login)
  BY PlaceRead, Zenon DEF With
<1>8. Address!Read(<<word>> \o (l \o (<<"@">> \o r))) = As(a.login)
  <2> HIDE DEF r, l, word, As
  <2>1. Address!Read(<<word>> \o (l \o (<<"@">> \o r))) =
          ReadPlace(r, word = "amqps://", Address!ReadLogin(l))
    BY <1>1, <1>3, <1>5, ReadLogged
  <2>2. QED
    BY <1>2, <1>6, <1>7, <2>1, Zenon
<1>9. Address!Read(<<word>> \o r) = As(Address!Guest)
  <2> HIDE DEF r, word, As
  <2>1. Address!Read(<<word>> \o r) = ReadPlace(r, word = "amqps://", Address!Guest)
    BY <1>1, <1>3, ReadBare
  <2>2. QED
    BY <1>2, <1>7, <2>1, Zenon
<1>10. QED
  BY <1>1, <1>3, <1>8, <1>9, Zenon

LEMMA PlainWords ==
    /\ \A w \in Words \cup Ports : w \in Parts /\ w \notin {"@", ":", "/"}
    /\ Address!Separators \subseteq Parts
BY AmqpObjectsAssumption DEF Parts, Address!Separators

LEMMA LacksWithout ==
    ASSUME NEW s \in Text, NEW cs, Address!Without(s, cs), NEW c \in cs
    PROVE  Lacks(s, c)
<1>1. DOMAIN s = 1..Len(s)
  BY LenProperties, Zenon DEF Text
<1>2. {s[i] : i \in DOMAIN s} \cap cs = {}
  BY Zenon DEF Address!Without, Address!ToSet
<1>3. QED
  BY <1>1, <1>2, Zenon DEF Lacks

LEMMA TextsAreTexts == Address!Texts \subseteq Text
<1>1. \A w \in Words : w \in Parts
  BY PlainWords, Zenon
<1>2. \A c \in Address!Separators : c \in Parts
  BY PlainWords, Zenon
<1>3. <<>> \in Seq(Parts) /\ \A w \in Words : <<w>> \in Seq(Parts)
  BY <1>1
<1>4. \A w \in Words, c \in Address!Separators : <<w, c, w>> \in Seq(Parts)
  BY <1>1, <1>2
<1>5. ASSUME NEW s \in Address!Texts
      PROVE  s \in Seq(Parts)
  <2>1. \/ s = <<>> \/ s \in {<<w>> : w \in Words}
        \/ s \in {<<w, c, w>> : w \in Words, c \in Address!Separators}
    BY DEF Address!Texts
  <2>2. CASE s \in {<<w>> : w \in Words}
    BY <1>3, <2>2
  <2>3. CASE s \in {<<w, c, w>> : w \in Words, c \in Address!Separators}
    <3>1. PICK w \in Words, c \in Address!Separators : s = <<w, c, w>>
      BY <2>3
    <3>2. QED
      BY <1>4, <3>1, Zenon
  <2>4. CASE s = <<>>
    BY <2>4
  <2>5. QED
    BY <2>1, <2>2, <2>3, <2>4
<1>6. QED
  BY <1>5, Zenon DEF Text

LEMMA AddressesPrintable ==
    ASSUME NEW a \in Address!Addresses
    PROVE  a \in AddressRec /\ Printable(a)
<1>1. /\ a = [secure |-> a.secure, login |-> a.login, host |-> a.host, port |-> a.port,
              vhost |-> a.vhost]
      /\ a.login = [user |-> a.login.user, password |-> a.login.password]
      /\ a.secure \in BOOLEAN
      /\ a.login.user \in {s \in Address!Texts : Address!Without(s, {":", "@"})}
      /\ a.login.password \in {s \in Address!Texts : Address!Without(s, {"@"})}
      /\ a.host \in {<<w>> : w \in Words}
      /\ a.port \in {<<p>> : p \in Ports}
      /\ a.vhost \in {<<"/">>} \cup {s \in Address!Texts \ {<<>>} : Address!Without(s, {"@"})}
  BY DEF Address!Addresses
<1>2. a.login.user \in Text /\ Lacks(a.login.user, ":") /\ Lacks(a.login.user, "@")
  BY <1>1, TextsAreTexts, LacksWithout
<1>3. a.login.password \in Text /\ Lacks(a.login.password, "@")
  BY <1>1, TextsAreTexts, LacksWithout
<1>4. a.host \in Text /\ \A c \in {"@", ":", "/"} : Lacks(a.host, c)
  <2>1. PICK w \in Words : a.host = <<w>>
    BY <1>1
  <2>2. w \in Parts /\ \A c \in {"@", ":", "/"} : w # c
    BY PlainWords
  <2>3. QED
    BY <2>1, <2>2, OneWord, WordLacks, Zenon
<1>5. PICK p \in Ports : a.port = <<p>>
  BY <1>1
<1>6. p \in Parts \ {"@", ":", "/"}
  BY PlainWords
<1>7. a.port \in Text
  BY <1>5, <1>6, OneWord
<1>8. a.vhost \in Text /\ a.vhost # <<>> /\ Lacks(a.vhost, "@")
  <2>1. CASE a.vhost = <<"/">>
    <3>1. "/" \in Parts /\ "/" # "@"
      BY DEF Parts
    <3>2. a.vhost \in Text /\ Lacks(a.vhost, "@")
      BY <2>1, <3>1, OneWord, WordLacks
    <3>3. QED
      BY <2>1, <3>2
  <2>2. CASE a.vhost # <<"/">>
    BY <1>1, <2>2, TextsAreTexts, LacksWithout
  <2>3. QED
    BY <2>1, <2>2
<1>9. Printable(a)
  BY <1>1, <1>2, <1>3, <1>4, <1>5, <1>6, <1>8, Zenon DEF Printable
<1>10. a.login \in [user : Text, password : Text]
  BY <1>1, <1>2, <1>3
<1>11. a \in AddressRec
  BY <1>1, <1>4, <1>7, <1>8, <1>10 DEF AddressRec
<1>12. QED
  BY <1>9, <1>11

\* address.h: an address that is printed in either way is read back as it was, for
\* any words and ports, except that amqps:// on port 5672 loses its port to one of
\* them and an empty login becomes that of guest with the other.
THEOREM AddressesReadBack == Address!ReadsPrinted
<1> SUFFICES ASSUME NEW a \in Address!Addresses
             PROVE  /\ ~(a.secure /\ a.port = <<"5672">>) => Address!Read(Address!Printed(a)) = a
                    /\ Address!Read(Address!Output(a)) =
                         IF a.login = [user |-> <<>>, password |-> <<>>]
                         THEN [a EXCEPT !.login = Address!Guest] ELSE a
  BY Zenon DEF Address!ReadsPrinted
<1> DEFINE p == Address!Protocol(a)
           u == a.login.user
           w == a.login.password
           Port(d) == IF a.port = <<d>> THEN <<Address!DefaultPort(a.secure)>> ELSE a.port
           At(r) == p \o ((u \o (<<":">> \o w)) \o (<<"@">> \o r))
           default == Address!DefaultPort(a.secure)
<1>1. a \in AddressRec /\ Printable(a)
  BY AddressesPrintable
<1>2. \A d : /\ Address!Read(At(Address!Place(a, d))) = With(a, a.login, Port(d))
             /\ Address!Read(p \o Address!Place(a, d)) = With(a, Address!Guest, Port(d))
             /\ Address!Place(a, d) \in Text
  BY <1>1, AnyReadBack, Zenon
<1>3. p \in Text /\ u \in Text /\ w \in Text /\ <<":">> \in Text /\ <<"@">> \in Text
  <2>1. ":" \in Parts /\ "@" \in Parts /\ "amqp://" \in Parts /\ "amqps://" \in Parts
    BY DEF Parts
  <2>2. u \in Text /\ w \in Text
    BY <1>1, Zenon DEF Printable
  <2>3. QED
    BY <2>1, <2>2, OneWord, Zenon DEF Address!Protocol
<1>4. With(a, a.login, a.port) = a
  BY <1>1, AddressFields DEF With
<1>5. With(a, Address!Guest, a.port) = [a EXCEPT !.login = Address!Guest]
  <2> DEFINE g == Address!Guest
  <2> HIDE DEF g
  <2>1. With(a, g, a.port) = [a EXCEPT !.login = g]
    BY <1>1 DEF With, AddressRec
  <2>2. QED
    BY <2>1, Zenon DEF g
<1>6. Port(default) = a.port
  BY Zenon
<1>7. ~(a.secure /\ a.port = <<"5672">>) => Port("5672") = a.port
  <2>1. a.secure \in BOOLEAN
    BY <1>1, Zenon DEF Printable
  <2>2. QED
    BY <2>1 DEF Address!DefaultPort
<1>8. Address!Printed(a) = At(Address!Place(a, "5672"))
  <2> DEFINE r == Address!Place(a, "5672")
             c == <<":">>
             at == <<"@">>
  <2>1. Address!Printed(a) = ((((p \o u) \o c) \o w) \o at) \o r
    BY Zenon DEF Address!Printed
  <2>2. r \in Text /\ c \in Text /\ at \in Text
    BY <1>2, <1>3, Zenon
  <2>3. At(r) = p \o ((u \o (c \o w)) \o (at \o r))
    OBVIOUS
  <2> HIDE DEF r, c, at, p, u, w, At
  <2>4. ((((p \o u) \o c) \o w) \o at) \o r = p \o ((u \o (c \o w)) \o (at \o r))
    <3>1. PrintedInTwo(p, u, c, w, at, r)
      BY <1>3, <2>2, PrintedGroups, Zenon
    <3>2. QED
      BY <3>1, Zenon DEF PrintedInTwo
  <2>5. Address!Printed(a) = At(r)
    BY <2>1, <2>3, <2>4, Zenon
  <2>6. QED
    BY <2>5, Zenon DEF r
<1>9. Address!Output(a) = IF a.login = [user |-> <<>>, password |-> <<>>]
                          THEN p \o Address!Place(a, default) ELSE At(Address!Place(a, default))
  <2> DEFINE r == Address!Place(a, default)
             c == <<":">>
             at == <<"@">>
             empty == a.login = [user |-> <<>>, password |-> <<>>]
  <2>1. Address!Output(a) = (p \o (IF empty THEN <<>> ELSE ((u \o c) \o w) \o at)) \o r
    BY Zenon DEF Address!Output
  <2>2. r \in Text /\ c \in Text /\ at \in Text
    BY <1>2, <1>3, Zenon
  <2>3. At(r) = p \o ((u \o (c \o w)) \o (at \o r))
    OBVIOUS
  <2>4. CASE empty
    <3>1. Address!Output(a) = (p \o <<>>) \o r
      BY <2>1, <2>4, Zenon
    <3>2. p \o <<>> = p
      BY <1>3, ConcatEmptySeq, Zenon DEF Text
    <3>3. QED
      BY <2>4, <3>1, <3>2, Zenon
  <2>5. CASE ~empty
    <3>1. Address!Output(a) = (p \o (((u \o c) \o w) \o at)) \o r
      BY <2>1, <2>5, Zenon
    <3>2. (p \o (((u \o c) \o w) \o at)) \o r = p \o ((u \o (c \o w)) \o (at \o r))
      <4> HIDE DEF r, c, at, p, u, w, At
      <4>1. OutputInTwo(p, u, c, w, at, r)
        BY <1>3, <2>2, OutputGroups, Zenon
      <4>2. QED
        BY <4>1, Zenon DEF OutputInTwo
    <3>3. Address!Output(a) = At(r)
      BY <2>3, <3>1, <3>2, Zenon
    <3>4. QED
      BY <2>5, <3>3, Zenon
  <2>6. QED
    BY <2>4, <2>5
<1> HIDE DEF p, At, Port, default
<1>10. QED
  BY <1>2, <1>4, <1>5, <1>6, <1>7, <1>8, <1>9, Zenon
=============================================================================
