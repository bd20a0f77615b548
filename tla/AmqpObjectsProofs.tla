------------------------- MODULE AmqpObjectsProofs -------------------------
(***************************************************************************)
(* Theorems about a channel of AMQP-CPP, for any number of requests: no    *)
(* Deferred that waits is lost from the list, the server gets the requests *)
(* in turn, and each is told what its own answer says.                     *)
(***************************************************************************)
EXTENDS AmqpObjects, RangeInduction, SequenceTheorems, FiniteSetTheorems

-----------------------------------------------------------------------------
(* The inductive invariant *)

Request == [kind : {"open", "declare", "close", "publish"}, id : Nat]

Answerable == {"declare", "close", "close again"}

Told == {"success", "error"}

DeferredRec ==
    [kind : Answerable, failed : BOOLEAN, next : Nat,
     told : Seq(Told)]

ReportRec ==
    [at : {"ready", "notify"}]
      \cup [at : {"error"}, cb : Nat, notify : BOOLEAN]
      \cup [at : {"success"}, cb : Nat, closed : BOOLEAN]

\* Types, stronger than those that the run checks.
Types ==
    /\ state \in {"connected", "ready", "closing", "closed"}
    /\ synchronous \in BOOLEAN /\ alive \in BOOLEAN
    /\ queue \in Seq(Request) /\ sent \in Seq(Request)
    /\ answered \in 0..Len(sent) /\ made \in 0..MaxRequests
    /\ deferred \in Seq(DeferredRec)
    /\ report = <<>> \/ \E r \in ReportRec : report = <<r>>

\* The list is what was made last: from the oldest on, each Deferred is followed
\* by the one that was made next.  All before it have been told.
LinkedFrom(o) ==
    /\ o \in 0..Len(deferred)
    /\ \A d \in 1..Len(deferred) : deferred[d].next \in {0} \cup (d + 1)..Len(deferred)
    /\ o # 0 => \A d \in o..Len(deferred) :
                   deferred[d].next = IF d = Len(deferred) THEN 0 ELSE d + 1
    /\ \A d \in 1..Len(deferred) : deferred[d].told = <<>> => o # 0 /\ o <= d

Linked == LinkedFrom(oldest) /\ newest = (IF oldest = 0 THEN 0 ELSE Len(deferred))

\* A report that tells a Deferred tells the oldest.
Reporting ==
    \A r \in ReportRec : report = <<r>> /\ r.at \in {"error", "success"} =>
       oldest # 0 /\ r.cb = oldest /\ deferred[oldest].told # <<>>

IInv == Types /\ Linked /\ Reporting

-----------------------------------------------------------------------------
(* The list *)

LEMMA ToldWords ==
    /\ "success" \in Told /\ "error" \in Told
    /\ <<>> \in Seq(Told) /\ <<"error">> \in Seq(Told)
BY DEF Told

LEMMA LinkedListed ==
    ASSUME Types, Linked, NEW d \in 1..Len(deferred), oldest # 0, oldest <= d
    PROVE  Channel!Listed(d)
<1> DEFINE L == Len(deferred)
           D == 1..L
<1>1. L \in Nat /\ DOMAIN deferred = D
  BY DEF Types
<1>2. oldest \in 0..L
  BY DEF Linked, LinkedFrom
<1>3. \A e \in oldest..L : deferred[e].next = IF e = L THEN 0 ELSE e + 1
  BY DEF Linked, LinkedFrom
<1>d. d \in 1..L
  OBVIOUS
<1> HIDE DEF L
<1> SUFFICES ASSUME NEW S \in SUBSET D, oldest \in S,
                    \A e \in S : deferred[e].next \in S \cup {0}
             PROVE  d \in S
  BY <1>1, Zenon DEF Channel!Listed, Channel!Deferreds
<1> DEFINE T == {i \in Nat : oldest + i \in S}
<1>4. 0 \in T
  BY <1>2
<1>5. ASSUME NEW i \in 0..((d - oldest) - 1), i \in T PROVE i + 1 \in T
  <2>1. /\ oldest + i \in oldest..L /\ oldest + i # L /\ oldest + (i + 1) = (oldest + i) + 1
        /\ (oldest + i) + 1 # 0 /\ i + 1 \in Nat
    BY <1>1, <1>2, <1>d
  <2>2. deferred[oldest + i].next = (oldest + i) + 1
    BY <2>1, <1>3
  <2>3. oldest + i \in S
    BY <1>5
  <2>4. (oldest + i) + 1 \in S
    BY <2>1, <2>2, <2>3
  <2>5. QED
    BY <2>1, <2>4
<1>6. d - oldest \in Nat /\ d - oldest \in 0..(d - oldest) /\ oldest + (d - oldest) = d
  BY <1>1, <1>2, <1>d
<1> HIDE DEF T
<1>7. d - oldest \in T
  <2>1. \A i \in 0..(d - oldest) : i \in T
    BY <1>4, <1>5, <1>6, RangeInduction
  <2>2. QED
    BY <1>6, <2>1
<1>8. QED
  BY <1>6, <1>7 DEF T

\* A Deferred is a record.
LEMMA DeferredFields ==
    ASSUME NEW x \in DeferredRec, NEW n \in Nat
    PROVE  /\ x.next \in Nat /\ x.told \in Seq(Told) /\ x.failed \in BOOLEAN
           /\ [x EXCEPT !.next = n] \in DeferredRec
           /\ [x EXCEPT !.next = n].told = x.told /\ [x EXCEPT !.next = n].next = n
           /\ [x EXCEPT !.next = n].failed = x.failed
BY DEF DeferredRec

\* The Deferreds made are a sequence of records.
LEMMA DeferredLength ==
    ASSUME Types
    PROVE  /\ deferred \in Seq(DeferredRec) /\ Len(deferred) \in Nat
           /\ DOMAIN deferred = 1..Len(deferred)
<1>1. deferred \in Seq(DeferredRec)
  BY Zenon DEF Types
<1>2. QED
  BY <1>1, LenProperties

\* push() links the newest to the Deferred that is made.
LEMMA PushLinks ==
    ASSUME Types, Linked, NEW k \in Answerable, NEW f \in BOOLEAN,
           Channel!Push(k, f)
    PROVE  /\ deferred' \in Seq(DeferredRec) /\ Len(deferred') = Len(deferred) + 1
           /\ \A d \in 1..Len(deferred) :
                 /\ deferred'[d].told = deferred[d].told
                 /\ deferred'[d].failed = deferred[d].failed
                 /\ deferred'[d].next = IF newest # 0 /\ d = Len(deferred) THEN Len(deferred) + 1
                                        ELSE deferred[d].next
           /\ deferred'[Len(deferred) + 1].next = 0 /\ deferred'[Len(deferred) + 1].failed = f
           /\ deferred'[Len(deferred) + 1].told = IF f THEN <<"error">> ELSE <<>>
<1> DEFINE L == Len(deferred)
           linked == IF newest = 0 THEN deferred ELSE [deferred EXCEPT ![newest].next = L + 1]
           new == [kind |-> k, failed |-> f, next |-> 0, told |-> IF f THEN <<"error">> ELSE <<>>]
<1>1. deferred' = Append(linked, new)
  BY DEF Channel!Push
<1>2. L \in Nat /\ deferred \in Seq(DeferredRec)
  BY DeferredLength, Zenon
<1>3. /\ new \in DeferredRec /\ new.next = 0 /\ new.failed = f
      /\ new.told = IF f THEN <<"error">> ELSE <<>>
  <2>1. (IF f THEN <<"error">> ELSE <<>>) \in Seq(Told)
    BY ToldWords, Zenon
  <2>2. QED
    BY <2>1 DEF DeferredRec
<1>4. newest = 0 \/ (newest = L /\ L \in 1..L)
  <2>1. oldest \in 0..L /\ newest = (IF oldest = 0 THEN 0 ELSE L)
    BY Zenon DEF Linked, LinkedFrom
  <2>n. L \in Nat
    BY <1>2
  <2> HIDE DEF L
  <2>2. QED
    BY <2>n, <2>1
<1>5. /\ linked \in Seq(DeferredRec) /\ Len(linked) = L
      /\ \A d \in 1..L : /\ linked[d].told = deferred[d].told
                         /\ linked[d].failed = deferred[d].failed
                         /\ linked[d].next = IF newest # 0 /\ d = L THEN L + 1 ELSE deferred[d].next
  <2>1. CASE newest = 0
    BY <1>2, <2>1
  <2>2. CASE newest # 0
    <3> DEFINE x == [deferred[L] EXCEPT !.next = L + 1]
    <3>1. newest = L /\ L \in 1..L
      BY <1>4, <2>2
    <3>2. deferred[L] \in DeferredRec /\ L + 1 \in Nat
      <4>1. L + 1 \in Nat
        BY <1>2
      <4>2. QED
        BY <1>2, <3>1, <4>1, ElementOfSeq, Zenon
    <3>3. /\ x \in DeferredRec /\ x.told = deferred[L].told /\ x.next = L + 1
          /\ x.failed = deferred[L].failed
      BY <3>2, DeferredFields
    <3>4. linked = [deferred EXCEPT ![L] = x]
      BY <2>2, <3>1
    <3> HIDE DEF x, linked, L
    <3>5. /\ linked \in Seq(DeferredRec) /\ Len(linked) = L
          /\ \A d \in 1..L : linked[d] = IF d = L THEN x ELSE deferred[d]
      <4>1. L = Len(deferred)
        BY DEF L
      <4>2. QED
        BY <1>2, <3>1, <3>3, <3>4, <4>1, ExceptSeq
    <3>6. QED
      BY <2>2, <3>3, <3>5, Zenon
  <2>3. QED
    BY <2>1, <2>2
<1> HIDE DEF linked, new, L
<1>6. /\ deferred' \in Seq(DeferredRec) /\ Len(deferred') = L + 1
      /\ \A d \in 1..L : deferred'[d] = linked[d]
      /\ deferred'[L + 1] = new
  <2>1. linked \in Seq(DeferredRec) /\ Len(linked) = L /\ new \in DeferredRec
    BY <1>3, <1>5
  <2>2. QED
    BY <1>1, <2>1, AppendProperties
<1>7. QED
  BY <1>3, <1>5, <1>6, Zenon DEF L

\* push() at the end of the list.
LEMMA PushKeeps ==
    ASSUME Types, Linked, Reporting, NEW k \in Answerable,
           NEW f \in BOOLEAN, Channel!Push(k, f), report' = report
    PROVE  deferred' \in Seq(DeferredRec) /\ Linked' /\ Reporting'
<1> DEFINE L == Len(deferred)
<1>1. /\ deferred' \in Seq(DeferredRec) /\ Len(deferred') = L + 1
      /\ \A d \in 1..L : /\ deferred'[d].told = deferred[d].told
                         /\ deferred'[d].next = IF newest # 0 /\ d = L THEN L + 1
                                                ELSE deferred[d].next
      /\ deferred'[L + 1].next = 0
  BY PushLinks
<1>2. newest' = L + 1 /\ oldest' = IF oldest = 0 THEN L + 1 ELSE oldest
  BY DEF Channel!Push
<1>3. L \in Nat
  BY DeferredLength
<1>n. oldest \in 0..L /\ newest = (IF oldest = 0 THEN 0 ELSE L)
  BY Zenon DEF Linked, LinkedFrom
<1>4. /\ oldest \in 0..L /\ newest = (IF oldest = 0 THEN 0 ELSE L)
      /\ \A d \in 1..L : deferred[d].next \in {0} \cup (d + 1)..L
      /\ oldest # 0 => \A d \in oldest..L : deferred[d].next = IF d = L THEN 0 ELSE d + 1
      /\ \A d \in 1..L : deferred[d].told = <<>> => oldest # 0 /\ oldest <= d
  BY DEF Linked, LinkedFrom
<1>5. Len(deferred') = L + 1
  BY <1>1
<1> HIDE DEF L
<1>6. oldest' \in 1..(L + 1)
  BY <1>2, <1>3, <1>n
<1>7. ASSUME NEW d \in 1..(L + 1) PROVE deferred'[d].next \in {0} \cup (d + 1)..(L + 1)
  <2>1. CASE d = L + 1
    BY <1>1, <2>1
  <2>2. CASE d # L + 1
    <3>1. d \in 1..L
      BY <1>3, <2>2
    <3>2. deferred[d].next \in {0} \cup (d + 1)..L
      BY <1>4, <3>1
    <3>3. deferred'[d].next = IF newest # 0 /\ d = L THEN L + 1 ELSE deferred[d].next
      BY <1>1, <3>1
    <3>4. QED
      BY <1>3, <3>1, <3>2, <3>3
  <2>3. QED
    BY <2>1, <2>2
<1>8. ASSUME NEW d \in oldest'..(L + 1)
      PROVE  deferred'[d].next = IF d = L + 1 THEN 0 ELSE d + 1
  <2>1. CASE d = L + 1
    BY <1>1, <2>1
  <2>2. CASE d # L + 1
    <3>1. oldest # 0 /\ newest = L /\ L # 0 /\ d \in 1..L /\ d \in oldest..L
      BY <1>2, <1>3, <1>n, <2>2
    <3>2. deferred[d].next = IF d = L THEN 0 ELSE d + 1
      BY <1>4, <3>1
    <3>3. deferred'[d].next = IF newest # 0 /\ d = L THEN L + 1 ELSE deferred[d].next
      BY <1>1, <3>1
    <3>4. QED
      BY <2>2, <3>1, <3>2, <3>3
  <2>3. QED
    BY <2>1, <2>2
<1>9. ASSUME NEW d \in 1..(L + 1), deferred'[d].told = <<>>
      PROVE  oldest' # 0 /\ oldest' <= d
  <2>1. CASE d = L + 1
    BY <1>3, <1>6, <2>1
  <2>2. CASE d # L + 1
    <3>1. d \in 1..L
      BY <1>3, <2>2
    <3>2. deferred[d].told = <<>>
      BY <1>1, <1>9, <3>1
    <3>3. QED
      BY <1>2, <1>4, <3>1, <3>2
  <2>3. QED
    BY <2>1, <2>2
<1>10. newest' = (IF oldest' = 0 THEN 0 ELSE L + 1) /\ oldest' \in 0..(L + 1)
  <2>1. oldest' # 0 /\ oldest' \in 0..(L + 1)
    BY <1>3, <1>6
  <2>2. QED
    BY <1>2, <2>1, Zenon
<1>11. Linked'
  BY <1>5, <1>7, <1>8, <1>9, <1>10, Zenon DEF Linked, LinkedFrom
<1>12. Reporting'
  <2> SUFFICES ASSUME NEW r \in ReportRec, report' = <<r>>, r.at \in {"error", "success"}
               PROVE  oldest' # 0 /\ r.cb = oldest' /\ deferred'[oldest'].told # <<>>
    BY Zenon DEF Reporting
  <2>1. oldest # 0 /\ r.cb = oldest /\ deferred[oldest].told # <<>>
    BY Zenon DEF Reporting
  <2>2. oldest' = oldest /\ oldest \in 1..L
    BY <1>2, <1>3, <1>n, <2>1
  <2>3. QED
    BY <1>1, <2>1, <2>2
<1>13. QED
  BY <1>1, <1>11, <1>12, Zenon

\* What a Deferred is told changes nothing else.
LEMMA TellKeeps ==
    ASSUME Types, NEW o, LinkedFrom(o), NEW d \in 1..Len(deferred), NEW w \in Told,
           deferred' = Channel!Tell(d, w)
    PROVE  /\ deferred' \in Seq(DeferredRec) /\ Len(deferred') = Len(deferred)
           /\ LinkedFrom(o)' /\ deferred'[d].told # <<>>
<1> DEFINE L == Len(deferred)
           x == [deferred[d] EXCEPT !.told = Append(@, w)]
<1>1. L \in Nat /\ deferred \in Seq(DeferredRec) /\ DOMAIN deferred = 1..L
  BY DeferredLength, Zenon
<1>2. deferred[d] \in DeferredRec
  BY <1>1, ElementOfSeq, Zenon
<1>3. x \in DeferredRec /\ x.next = deferred[d].next /\ x.told # <<>>
  <2>1. deferred[d].told \in Seq(Told)
    BY <1>2, DeferredFields, 0 \in Nat, Zenon
  <2>2. Append(deferred[d].told, w) \in Seq(Told) /\ Append(deferred[d].told, w) # <<>>
    BY <2>1
  <2>3. QED
    BY <1>2, <2>2 DEF DeferredRec
<1>4. deferred' = [deferred EXCEPT ![d] = x]
  BY <1>1 DEF Channel!Tell
<1> HIDE DEF x
<1>5. /\ deferred' \in Seq(DeferredRec) /\ Len(deferred') = L
      /\ \A j \in 1..L : deferred'[j] = IF j = d THEN x ELSE deferred[j]
  BY <1>1, <1>3, <1>4, ExceptSeq
<1>6. \A j \in 1..L : /\ deferred'[j].next = deferred[j].next
                      /\ deferred'[j].told = <<>> => deferred[j].told = <<>>
  BY <1>3, <1>5, Zenon
<1>7. /\ o \in 0..L
      /\ \A j \in 1..L : deferred[j].next \in {0} \cup (j + 1)..L
      /\ o # 0 => \A j \in o..L : deferred[j].next = IF j = L THEN 0 ELSE j + 1
      /\ \A j \in 1..L : deferred[j].told = <<>> => o # 0 /\ o <= j
  BY Zenon DEF LinkedFrom
<1>8. Len(deferred') = L
  BY <1>5
<1> HIDE DEF L
<1>9. o # 0 => \A j \in o..L : j \in 1..L
  BY <1>1, <1>7
<1>10. o # 0 => \A j \in o..L : deferred'[j].next = IF j = L THEN 0 ELSE j + 1
  BY <1>6, <1>7, <1>9, Zenon
<1>11. LinkedFrom(o)'
  BY <1>6, <1>7, <1>8, <1>10, Zenon DEF LinkedFrom
<1>12. deferred'[d].told # <<>>
  BY <1>3, <1>5, Zenon DEF L
<1>13. QED
  BY <1>5, <1>11, <1>12, Zenon DEF L

\* When the oldest has been told, the list goes on behind it.
LEMMA NextLinked ==
    ASSUME Types, Linked, oldest # 0, deferred[oldest].told # <<>>
    PROVE  LinkedFrom(deferred[oldest].next)
<1> DEFINE L == Len(deferred)
           o == deferred[oldest].next
<1>1. L \in Nat
  BY DeferredLength
<1>2. /\ oldest \in 0..L
      /\ \A j \in 1..L : deferred[j].next \in {0} \cup (j + 1)..L
      /\ \A j \in oldest..L : deferred[j].next = IF j = L THEN 0 ELSE j + 1
      /\ \A j \in 1..L : deferred[j].told = <<>> => oldest # 0 /\ oldest <= j
  BY Zenon DEF Linked, LinkedFrom
<1>3. oldest \in 0..L
  BY <1>2
<1> HIDE DEF L
<1>4. oldest \in oldest..L /\ oldest \in 1..L
  BY <1>1, <1>3
<1>5. o = IF oldest = L THEN 0 ELSE oldest + 1
  BY <1>2, <1>4
<1> HIDE DEF o
<1>6. o \in 0..L
  BY <1>1, <1>3, <1>5
<1>7. ASSUME o # 0, NEW j \in o..L PROVE deferred[j].next = IF j = L THEN 0 ELSE j + 1
  <2>1. j \in oldest..L
    BY <1>1, <1>3, <1>5, <1>7
  <2>2. QED
    BY <1>2, <2>1
<1>8. ASSUME NEW j \in 1..L, deferred[j].told = <<>> PROVE o # 0 /\ o <= j
  <2>1. oldest <= j /\ oldest # j
    BY <1>2, <1>8
  <2>2. QED
    BY <1>1, <1>3, <1>5, <2>1
<1>9. LinkedFrom(o)
  BY <1>2, <1>6, <1>7, <1>8, Zenon DEF LinkedFrom, L
<1>10. QED
  BY <1>9 DEF o

\* reportError() goes on with the Deferred o, or ends.
LEMMA ErrorKeeps ==
    ASSUME Types, NEW o, LinkedFrom(o), o # 0 => newest = Len(deferred), NEW n \in BOOLEAN,
           Channel!ReportsError(n, o, deferred)
    PROVE  /\ deferred' \in Seq(DeferredRec) /\ Linked' /\ Reporting'
           /\ report' = <<>> \/ \E r \in ReportRec : report' = <<r>>
<1>1. deferred \in Seq(DeferredRec) /\ Len(deferred) \in Nat /\ DOMAIN deferred = 1..Len(deferred)
  BY DeferredLength
<1>2. CASE o # 0
  <2> DEFINE r == [at |-> "error", cb |-> o, notify |-> n]
  <2>1. /\ deferred' = Channel!Tell(o, "error") /\ oldest' = o /\ newest' = newest
        /\ report' = <<r>>
    BY <1>2 DEF Channel!ReportsError, Channel!Tell
  <2>2. o \in 0..Len(deferred)
    BY Zenon DEF LinkedFrom
  <2>3. o \in 1..Len(deferred) /\ o \in Nat
    BY <1>1, <1>2, <2>2
  <2>4. /\ deferred' \in Seq(DeferredRec) /\ Len(deferred') = Len(deferred)
        /\ LinkedFrom(o)' /\ deferred'[o].told # <<>>
    BY <2>1, <2>3, TellKeeps, ToldWords, Zenon
  <2>5. Linked'
    BY <1>2, <2>1, <2>4, Zenon DEF Linked, LinkedFrom
  <2>6. r \in ReportRec /\ r.cb = o
    BY <2>3 DEF ReportRec
  <2> HIDE DEF r
  <2>7. \A q : report' = <<q>> => q = r
    BY <2>1
  <2>8. Reporting'
    BY <1>2, <2>1, <2>4, <2>6, <2>7, Zenon DEF Reporting
  <2>9. QED
    BY <2>1, <2>4, <2>5, <2>6, <2>8, Zenon
<1>3. CASE o = 0
  <2> DEFINE r == [at |-> "notify"]
  <2>1. /\ deferred' = deferred /\ oldest' = 0 /\ newest' = 0
        /\ report' = <<>> \/ report' = <<r>>
    BY <1>3 DEF Channel!ReportsError
  <2>2. r \in ReportRec /\ r.at \notin {"error", "success"}
    BY DEF ReportRec
  <2> HIDE DEF r
  <2>3. \A q : report' = <<q>> => q = r
    BY <2>1
  <2>4. Reporting'
    BY <2>2, <2>3, Zenon DEF Reporting
  <2>5. Linked'
    BY <1>3, <2>1, Zenon DEF Linked, LinkedFrom
  <2>6. QED
    BY <1>1, <2>1, <2>2, <2>4, <2>5, Zenon
<1>4. QED
  BY <1>2, <1>3

-----------------------------------------------------------------------------
(* What is sent *)

\* flush() sends the queue up to a request; all before that are not synchronous.
LEMMA FlushedIs ==
    ASSUME NEW q \in Seq(Request)
    PROVE  \E m \in 0..Len(q) :
              /\ Channel!Flushed(q) = SubSeq(q, 1, m)
              /\ \A i \in 1..m : i # m => ~Channel!IsSync(q[i])
<1> DEFINE stops == {i \in DOMAIN q : Channel!IsSync(q[i])}
<1>1. Len(q) \in Nat /\ DOMAIN q = 1..Len(q)
  OBVIOUS
<1>2. CASE stops = {}
  <2>1. Channel!Flushed(q) = q /\ q = SubSeq(q, 1, Len(q))
    BY <1>2 DEF Channel!Flushed
  <2>2. \A i \in 1..Len(q) : ~Channel!IsSync(q[i])
    BY <1>1, <1>2
  <2>3. Len(q) \in 0..Len(q)
    BY <1>1
  <2>4. QED
    BY <2>1, <2>2, <2>3, Zenon
<1>3. CASE stops # {}
  <2> DEFINE m == CHOOSE i \in stops : \A j \in stops : i <= j
  <2>1. \E i \in stops : \A j \in stops : i <= j
    <3>1. stops \subseteq Nat
      BY <1>1
    <3> HIDE DEF stops
    <3>2. QED
      BY <1>3, <3>1, LeastNumber, Zenon
  <2>2. m \in stops /\ \A j \in stops : m <= j
    BY <2>1, Zenon
  <2>3. Channel!Flushed(q) = SubSeq(q, 1, m)
    BY <1>3, Zenon DEF Channel!Flushed
  <2> HIDE DEF m
  <2>4. m \in 1..Len(q)
    BY <1>1, <2>2
  <2>5. ASSUME NEW i \in 1..m, i # m PROVE ~Channel!IsSync(q[i])
    <3>1. i \in DOMAIN q /\ ~(m <= i)
      BY <1>1, <2>4, <2>5
    <3>2. QED
      BY <2>2, <3>1
  <2>6. m \in 0..Len(q)
    BY <1>1, <2>4
  <2>7. QED
    BY <2>3, <2>5, <2>6
<1>4. QED
  BY <1>2, <1>3

\* A part of the queue is a sequence of requests.
LEMMA PartOfQueue ==
    ASSUME NEW q \in Seq(Request), NEW m \in 0..Len(q)
    PROVE  /\ SubSeq(q, 1, m) \in Seq(Request) /\ Len(SubSeq(q, 1, m)) = m
           /\ \A i \in 1..m : SubSeq(q, 1, m)[i] = q[i]
           /\ SubSeq(q, m + 1, Len(q)) \in Seq(Request)
           /\ Len(SubSeq(q, m + 1, Len(q))) = Len(q) - m
           /\ \A i \in 1..(Len(q) - m) : SubSeq(q, m + 1, Len(q))[i] = q[m + i]
OBVIOUS

LEMMA FlushTypes ==
    ASSUME Types, Channel!Flush
    PROVE  /\ queue' \in Seq(Request) /\ sent' \in Seq(Request) /\ synchronous' \in BOOLEAN
           /\ Len(sent') \in Nat /\ Len(sent) <= Len(sent')
<1>1. PICK m \in 0..Len(queue) : Channel!Flushed(queue) = SubSeq(queue, 1, m)
  BY FlushedIs DEF Types
<1> DEFINE out == SubSeq(queue, 1, m)
<1>2. /\ sent' = sent \o out
      /\ queue' = SubSeq(queue, Len(out) + 1, Len(queue))
      /\ synchronous' = (\E i \in DOMAIN out : Channel!IsSync(out[i]))
  BY <1>1, Zenon DEF Channel!Flush
<1>3. queue \in Seq(Request) /\ sent \in Seq(Request)
  BY DEF Types
<1>4. out \in Seq(Request) /\ Len(out) = m /\ SubSeq(queue, m + 1, Len(queue)) \in Seq(Request)
  BY <1>3, PartOfQueue
<1> HIDE DEF out
<1>5. synchronous' \in BOOLEAN
  BY <1>2, Zenon
<1>6. sent' \in Seq(Request) /\ Len(sent') = Len(sent) + Len(out) /\ Len(sent) \in Nat
  BY <1>2, <1>3, <1>4, ConcatProperties
<1>7. queue' \in Seq(Request)
  BY <1>2, <1>4
<1>8. QED
  BY <1>4, <1>5, <1>6, <1>7

LEMMA SendTypes ==
    ASSUME Types, NEW r \in Request, Channel!Send(r)
    PROVE  /\ queue' \in Seq(Request) /\ sent' \in Seq(Request) /\ synchronous' \in BOOLEAN
           /\ Len(sent') \in Nat /\ Len(sent) <= Len(sent')
<1>1. queue \in Seq(Request) /\ sent \in Seq(Request) /\ synchronous \in BOOLEAN
  BY DEF Types
<1>2. \/ queue' = queue /\ sent' = sent /\ synchronous' = synchronous
      \/ queue' = Append(queue, r) /\ sent' = sent /\ synchronous' = synchronous
      \/ queue' = queue /\ sent' = Append(sent, r) /\ synchronous' = Channel!IsSync(r)
  BY Zenon DEF Channel!Send
<1>3. Channel!IsSync(r) \in BOOLEAN
  BY Zenon DEF Channel!IsSync
<1>4. Append(queue, r) \in Seq(Request) /\ Append(sent, r) \in Seq(Request)
  BY <1>1, AppendProperties
<1>5. Len(sent) \in Nat /\ Len(Append(sent, r)) = Len(sent) + 1
  BY <1>1, AppendProperties
<1>6. Len(sent') \in Nat /\ Len(sent) <= Len(sent')
  BY <1>2, <1>5
<1>7. QED
  BY <1>1, <1>2, <1>3, <1>4, <1>6, Zenon

-----------------------------------------------------------------------------
(* The actions of the channel *)

\* A report that is not under way, or that tells no Deferred.
LEMMA NoDeferredTold ==
    ASSUME report' = <<>> \/ report' = <<[at |-> "ready"]>>
    PROVE  Reporting' /\ (report' = <<>> \/ \E r \in ReportRec : report' = <<r>>)
<1> DEFINE r == [at |-> "ready"]
<1>1. r \in ReportRec /\ r.at \notin {"error", "success"}
  BY DEF ReportRec
<1> HIDE DEF r
<1>2. \A q : report' = <<q>> => report' # <<>>
  OBVIOUS
<1>3. \A q : <<r>> = <<q>> => q = r
  OBVIOUS
<1>4. report' = <<>> \/ report' = <<r>>
  BY DEF r
<1>5. QED
  BY <1>1, <1>2, <1>3, <1>4, Zenon DEF Reporting

LEMMA AnswersKeep ==
    ASSUME IInv, Channel!Answers
    PROVE  IInv'
<1>1. Types /\ Linked /\ Reporting
  BY Zenon DEF IInv
<1>2. answered' = answered + 1 /\ alive' = alive /\ made' = made /\ answered < Len(sent)
  BY DEF Channel!Answers
<1>3. /\ state \in {"connected", "ready", "closing", "closed"}
      /\ synchronous \in BOOLEAN /\ alive \in BOOLEAN
      /\ queue \in Seq(Request) /\ sent \in Seq(Request)
      /\ made \in 0..MaxRequests /\ deferred \in Seq(DeferredRec)
  BY <1>1, Zenon DEF Types
<1>4. answered \in 0..Len(sent) /\ Len(sent) \in Nat
  BY <1>1 DEF Types
<1>5. ASSUME Len(sent') \in Nat, Len(sent) <= Len(sent') PROVE answered' \in 0..Len(sent')
  BY <1>2, <1>4, <1>5
<1>6. /\ report = <<>>
      /\ \/ Channel!ReportReady
         \/ UNCHANGED <<Channel!channel, report, sent>>
         \/ \E c \in BOOLEAN : Channel!ReportSuccess(c)
  BY Zenon DEF Channel!Answers
<1>7. CASE Channel!ReportReady
  <2>1. /\ queue' = queue /\ oldest' = oldest /\ newest' = newest /\ deferred' = deferred
        /\ sent' = sent /\ report' = <<[at |-> "ready"]>>
    BY <1>7 DEF Channel!ReportReady
  <2>2. state' \in {"connected", "ready", "closing", "closed"} /\ synchronous' \in BOOLEAN
    BY <1>3, <1>7, Zenon DEF Channel!ReportReady
  <2>3. Linked'
    BY <1>1, <2>1, Zenon DEF Linked, LinkedFrom
  <2>4. Reporting' /\ (report' = <<>> \/ \E r \in ReportRec : report' = <<r>>)
    BY <2>1, NoDeferredTold, Zenon
  <2>5. answered' \in 0..Len(sent')
    BY <1>4, <1>5, <2>1
  <2>6. QED
    BY <1>2, <1>3, <2>1, <2>2, <2>3, <2>4, <2>5, Zenon DEF IInv, Types
<1>8. CASE UNCHANGED <<Channel!channel, report, sent>>
  <2>1. /\ state' = state /\ synchronous' = synchronous /\ queue' = queue /\ oldest' = oldest
        /\ newest' = newest /\ deferred' = deferred /\ sent' = sent /\ report' = report
    BY <1>8 DEF Channel!channel
  <2>2. Linked'
    BY <1>1, <2>1, Zenon DEF Linked, LinkedFrom
  <2>3. Reporting' /\ (report' = <<>> \/ \E r \in ReportRec : report' = <<r>>)
    BY <1>6, <2>1, NoDeferredTold, Zenon
  <2>4. answered' \in 0..Len(sent')
    BY <1>4, <1>5, <2>1
  <2>5. QED
    BY <1>2, <1>3, <2>1, <2>2, <2>3, <2>4, Zenon DEF IInv, Types
<1>9. ASSUME NEW c \in BOOLEAN, Channel!ReportSuccess(c) PROVE IInv'
  <2>1. oldest' = oldest /\ newest' = newest
    BY <1>9, Zenon DEF Channel!ReportSuccess
  <2>2. state' \in {"connected", "ready", "closing", "closed"}
    BY <1>3, <1>9, Zenon DEF Channel!ReportSuccess
  <2>3. CASE oldest = 0
    <3>1. /\ queue' = queue /\ deferred' = deferred /\ sent' = sent
          /\ synchronous' = synchronous /\ report' = report
      BY <1>9, <2>3, Zenon DEF Channel!ReportSuccess
    <3>2. Linked'
      BY <1>1, <2>1, <3>1, Zenon DEF Linked, LinkedFrom
    <3>3. Reporting' /\ (report' = <<>> \/ \E r \in ReportRec : report' = <<r>>)
      BY <1>6, <3>1, NoDeferredTold, Zenon
    <3>4. answered' \in 0..Len(sent')
      BY <1>4, <1>5, <3>1
    <3>5. QED
      BY <1>2, <1>3, <2>2, <3>1, <3>2, <3>3, <3>4, Zenon DEF IInv, Types
  <2>4. CASE oldest # 0
    <3> DEFINE r == [at |-> "success", cb |-> oldest, closed |-> c]
    <3>1. Channel!Flush /\ deferred' = Channel!Tell(oldest, "success") /\ report' = <<r>>
      BY <1>9, <2>4, Zenon DEF Channel!ReportSuccess
    <3>2. LinkedFrom(oldest) /\ oldest \in 0..Len(deferred) /\ Len(deferred) \in Nat
      BY <1>1, DeferredLength, Zenon DEF Linked, LinkedFrom
    <3>3. oldest \in 1..Len(deferred) /\ oldest \in Nat
      BY <2>4, <3>2
    <3>4. /\ deferred' \in Seq(DeferredRec) /\ Len(deferred') = Len(deferred)
          /\ LinkedFrom(oldest)' /\ deferred'[oldest].told # <<>>
      <4>1. /\ deferred' \in Seq(DeferredRec) /\ Len(deferred') = Len(deferred)
            /\ deferred'[oldest].told # <<>>
        BY <1>1, <3>1, <3>2, <3>3, TellKeeps, ToldWords, Zenon
      <4>2. LinkedFrom(oldest)'
        BY <1>1, <2>1, <3>1, <3>2, <3>3, TellKeeps, ToldWords, Zenon DEF LinkedFrom
      <4>3. QED
        BY <4>1, <4>2
    <3>5. Linked'
      BY <1>1, <2>1, <3>4, Zenon DEF Linked
    <3>6. r \in ReportRec /\ r.cb = oldest
      BY <3>3 DEF ReportRec
    <3> HIDE DEF r
    <3>7. \A q : report' = <<q>> => q = r
      BY <3>1
    <3>8. Reporting'
      BY <2>1, <2>4, <3>4, <3>6, <3>7, Zenon DEF Reporting
    <3>9. /\ queue' \in Seq(Request) /\ sent' \in Seq(Request) /\ synchronous' \in BOOLEAN
          /\ Len(sent') \in Nat /\ Len(sent) <= Len(sent')
      BY <1>1, <3>1, FlushTypes, Zenon
    <3>10. answered' \in 0..Len(sent')
      BY <1>5, <3>9
    <3>11. QED
      BY <1>2, <1>3, <2>2, <3>1, <3>4, <3>5, <3>6, <3>8, <3>9, <3>10, Zenon DEF IInv, Types
  <2>5. QED
    BY <2>3, <2>4
<1>10. QED
  BY <1>6, <1>7, <1>8, <1>9, Zenon

LEMMA RefusesKeep ==
    ASSUME IInv, Channel!Refuses
    PROVE  IInv'
<1>1. Types /\ Linked /\ Reporting
  BY Zenon DEF IInv
<1>2. /\ alive' = alive /\ answered' = answered /\ made' = made /\ sent' = sent
      /\ state' = "closed" /\ synchronous' = FALSE /\ queue' = <<>>
      /\ Channel!ReportsError(TRUE, oldest, deferred)
  BY DEF Channel!Refuses, Channel!ReportError
<1>3. LinkedFrom(oldest) /\ (oldest # 0 => newest = Len(deferred))
  BY <1>1, Zenon DEF Linked
<1>4. /\ deferred' \in Seq(DeferredRec) /\ Linked' /\ Reporting'
      /\ report' = <<>> \/ \E r \in ReportRec : report' = <<r>>
  BY <1>1, <1>2, <1>3, ErrorKeeps, Zenon
<1>5. queue' \in Seq(Request) /\ synchronous' \in BOOLEAN
  BY <1>2, EmptySeq, Zenon
<1>6. QED
  BY <1>1, <1>2, <1>4, <1>5, Zenon DEF IInv, Types

LEMMA ReturnsKeep ==
    ASSUME IInv, Channel!Returns
    PROVE  IInv'
<1>1. Types /\ Linked /\ Reporting
  BY Zenon DEF IInv
<1>2. alive' = alive /\ answered' = answered /\ made' = made
  BY DEF Channel!Returns
<1>3. /\ state \in {"connected", "ready", "closing", "closed"}
      /\ synchronous \in BOOLEAN /\ alive \in BOOLEAN
      /\ queue \in Seq(Request) /\ sent \in Seq(Request)
      /\ made \in 0..MaxRequests /\ deferred \in Seq(DeferredRec)
  BY <1>1, Zenon DEF Types
<1>4. answered \in 0..Len(sent) /\ Len(sent) \in Nat
  BY <1>1 DEF Types
<1>5. ASSUME Len(sent') \in Nat, Len(sent) <= Len(sent') PROVE answered' \in 0..Len(sent')
  BY <1>2, <1>4, <1>5
<1>6. PICK top \in ReportRec : report = <<top>>
  BY <1>1, Zenon DEF Channel!Returns, Types
<1>7. Channel!Top = top
  BY <1>6 DEF Channel!Top
<1>8. ASSUME oldest' = oldest, newest' = newest, deferred' = deferred PROVE Linked'
  BY <1>1, <1>8, Zenon DEF Linked, LinkedFrom
<1>9. ASSUME report' = <<>>
      PROVE  Reporting' /\ (report' = <<>> \/ \E r \in ReportRec : report' = <<r>>)
  BY <1>9, NoDeferredTold, Zenon
<1>10. CASE Channel!Ready
  <2>1. /\ report' = <<>> /\ state' = state
        /\ oldest' = oldest /\ newest' = newest /\ deferred' = deferred
        /\ \/ Channel!Flush
           \/ queue' = queue /\ sent' = sent /\ synchronous' = synchronous
    BY <1>10, Zenon DEF Channel!Ready
  <2>2. /\ queue' \in Seq(Request) /\ sent' \in Seq(Request) /\ synchronous' \in BOOLEAN
        /\ Len(sent') \in Nat /\ Len(sent) <= Len(sent')
    <3>1. CASE Channel!Flush
      BY <1>1, <3>1, FlushTypes, Zenon
    <3>2. CASE queue' = queue /\ sent' = sent /\ synchronous' = synchronous
      BY <1>3, <1>4, <3>2
    <3>3. QED
      BY <2>1, <3>1, <3>2
  <2>3. QED
    BY <1>2, <1>3, <1>5, <1>8, <1>9, <2>1, <2>2, Zenon DEF IInv, Types
<1>11. CASE Channel!Notified
  <2>1. /\ report' = <<>> /\ state' = state /\ synchronous' = synchronous /\ queue' = queue
        /\ oldest' = oldest /\ newest' = newest /\ deferred' = deferred /\ sent' = sent
    BY <1>11 DEF Channel!Notified, Channel!channel
  <2>2. answered' \in 0..Len(sent')
    BY <1>2, <1>4, <2>1
  <2>3. QED
    BY <1>2, <1>3, <1>8, <1>9, <2>1, <2>2, Zenon DEF IInv, Types
<1>12. CASE Channel!Success
  <2>1. top.at = "success"
    BY <1>7, <1>12, Zenon DEF Channel!Success
  <2>2. oldest # 0 /\ top.cb = oldest /\ deferred[oldest].told # <<>>
    BY <1>1, <1>6, <2>1, Zenon DEF Reporting
  <2>3. CASE ~alive
    <3>1. /\ report' = <<>> /\ state' = state /\ synchronous' = synchronous /\ queue' = queue
          /\ oldest' = oldest /\ newest' = newest /\ deferred' = deferred /\ sent' = sent
      BY <1>12, <2>3 DEF Channel!Success, Channel!channel
    <3>2. answered' \in 0..Len(sent')
      BY <1>2, <1>4, <3>1
    <3>3. QED
      BY <1>2, <1>3, <1>8, <1>9, <3>1, <3>2, Zenon DEF IInv, Types
  <2>4. CASE alive
    <3> DEFINE next == deferred[oldest].next
    <3>1. LinkedFrom(next)
      BY <1>1, <2>2, NextLinked, Zenon
    <3>2. /\ state' = state /\ sent' = sent
          /\ IF top.closed
             THEN /\ synchronous' = FALSE /\ queue' = <<>>
                  /\ Channel!ReportsError(FALSE, next, deferred)
             ELSE /\ oldest' = next
                  /\ newest' = IF next = 0 THEN 0 ELSE newest
                  /\ report' = <<>>
                  /\ queue' = queue /\ synchronous' = synchronous /\ deferred' = deferred
      BY <1>7, <1>12, <2>2, <2>4, Zenon DEF Channel!Success
    <3>3. newest = Len(deferred)
      BY <1>1, <2>2, Zenon DEF Linked
    <3> HIDE DEF next
    <3>4. answered' \in 0..Len(sent')
      BY <1>2, <1>4, <3>2
    <3>5. CASE top.closed
      <4>1. /\ deferred' \in Seq(DeferredRec) /\ Linked' /\ Reporting'
            /\ report' = <<>> \/ \E r \in ReportRec : report' = <<r>>
        BY <1>1, <3>1, <3>2, <3>3, <3>5, ErrorKeeps, Zenon
      <4>2. queue' \in Seq(Request) /\ synchronous' \in BOOLEAN
        BY <3>2, <3>5, EmptySeq, Zenon
      <4>3. QED
        BY <1>2, <1>3, <3>2, <3>4, <4>1, <4>2, Zenon DEF IInv, Types
    <3>6. CASE ~top.closed
      <4>1. Linked'
        BY <3>1, <3>2, <3>3, <3>6, Zenon DEF Linked, LinkedFrom
      <4>2. QED
        BY <1>2, <1>3, <1>9, <3>2, <3>4, <3>6, <4>1, Zenon DEF IInv, Types
    <3>7. QED
      BY <3>5, <3>6
  <2>5. QED
    BY <2>3, <2>4
<1>13. CASE Channel!Error
  <2>1. top.at = "error"
    BY <1>7, <1>13, Zenon DEF Channel!Error
  <2>2. oldest # 0 /\ top.cb = oldest /\ deferred[oldest].told # <<>>
    BY <1>1, <1>6, <2>1, Zenon DEF Reporting
  <2>3. state' = state /\ queue' = queue /\ sent' = sent /\ synchronous' = synchronous
    BY <1>13, Zenon DEF Channel!Error
  <2>4. answered' \in 0..Len(sent')
    BY <1>2, <1>4, <2>3
  <2>5. CASE ~alive
    <3>1. report' = <<>> /\ oldest' = oldest /\ newest' = newest /\ deferred' = deferred
      BY <1>13, <2>5, Zenon DEF Channel!Error
    <3>2. QED
      BY <1>2, <1>3, <1>8, <1>9, <2>3, <2>4, <3>1, Zenon DEF IInv, Types
  <2>6. CASE alive
    <3>1. LinkedFrom(deferred[oldest].next)
      BY <1>1, <2>2, NextLinked, Zenon
    <3>2. Channel!ReportsError(top.notify, deferred[oldest].next, deferred)
      BY <1>7, <1>13, <2>2, <2>6, Zenon DEF Channel!Error
    <3>3. newest = Len(deferred)
      BY <1>1, <2>2, Zenon DEF Linked
    <3>4. top.notify \in BOOLEAN
      BY <2>1 DEF ReportRec
    <3>5. /\ deferred' \in Seq(DeferredRec) /\ Linked' /\ Reporting'
          /\ report' = <<>> \/ \E r \in ReportRec : report' = <<r>>
      BY <1>1, <3>1, <3>2, <3>3, <3>4, ErrorKeeps, Zenon
    <3>6. QED
      BY <1>2, <1>3, <2>3, <2>4, <3>5, Zenon DEF IInv, Types
  <2>7. QED
    BY <2>5, <2>6
<1>14. QED
  BY <1>10, <1>11, <1>12, <1>13, Zenon DEF Channel!Returns

LEMMA RequestsKeep ==
    ASSUME IInv, NEW k \in {"declare", "publish", "close"}, Channel!Requests(k)
    PROVE  IInv'
<1> DEFINE r == [kind |-> k, id |-> made + 1]
<1>1. Types /\ Linked /\ Reporting
  BY Zenon DEF IInv
<1>2. /\ state \in {"connected", "ready", "closing", "closed"}
      /\ synchronous \in BOOLEAN /\ alive \in BOOLEAN
      /\ made \in 0..MaxRequests /\ deferred \in Seq(DeferredRec)
      /\ report = <<>> \/ \E q \in ReportRec : report = <<q>>
  BY <1>1, Zenon DEF Types
<1>3. answered \in 0..Len(sent) /\ Len(sent) \in Nat
  BY <1>1 DEF Types
<1>4. /\ made' = made + 1 /\ Channel!Send(r)
      /\ report' = report /\ alive' = alive /\ answered' = answered /\ made < MaxRequests
      /\ state' = IF k = "close" THEN "closing" ELSE state
      /\ IF k = "publish" THEN oldest' = oldest /\ newest' = newest /\ deferred' = deferred
                          ELSE Channel!Push(k, state = "closed")
  BY Zenon DEF Channel!Requests
<1>5. made' \in 0..MaxRequests /\ r \in Request
  <2>1. made + 1 \in Nat /\ made + 1 \in 0..MaxRequests
    BY <1>2, <1>4, AmqpObjectsAssumption
  <2>2. QED
    BY <1>4, <2>1 DEF Request
<1>6. state' \in {"connected", "ready", "closing", "closed"}
  BY <1>2, <1>4, Zenon
<1> HIDE DEF r
<1>7. /\ queue' \in Seq(Request) /\ sent' \in Seq(Request) /\ synchronous' \in BOOLEAN
      /\ Len(sent') \in Nat /\ Len(sent) <= Len(sent')
  BY <1>1, <1>4, <1>5, SendTypes, Zenon
<1>8. answered' \in 0..Len(sent')
  BY <1>3, <1>4, <1>7
<1>9. deferred' \in Seq(DeferredRec) /\ Linked' /\ Reporting'
  <2>1. CASE k = "publish"
    BY <1>1, <1>2, <1>4, <2>1, Zenon DEF Linked, LinkedFrom, Reporting
  <2>2. CASE k # "publish"
    <3>1. k \in Answerable /\ (state = "closed") \in BOOLEAN
      BY <2>2 DEF Answerable
    <3>2. QED
      BY <1>1, <1>4, <2>2, <3>1, PushKeeps, Zenon
  <2>3. QED
    BY <2>1, <2>2
<1>10. QED
  BY <1>2, <1>4, <1>5, <1>6, <1>7, <1>8, <1>9, Zenon DEF IInv, Types

LEMMA CloseAgainKeeps ==
    ASSUME IInv, Channel!CloseAgain
    PROVE  IInv'
<1>1. Types /\ Linked /\ Reporting
  BY Zenon DEF IInv
<1>2. /\ made' = made + 1 /\ made < MaxRequests
      /\ Channel!Push("close again", state = "closing")
      /\ state' = state /\ synchronous' = synchronous /\ queue' = queue /\ report' = report
      /\ alive' = alive /\ sent' = sent /\ answered' = answered
  BY DEF Channel!CloseAgain
<1>3. made' \in 0..MaxRequests
  <2>1. made \in 0..MaxRequests
    BY <1>1, Zenon DEF Types
  <2>2. made' = made + 1 /\ made < MaxRequests /\ MaxRequests \in Nat
    BY <1>2, AmqpObjectsAssumption, Zenon
  <2>3. QED
    BY <2>1, <2>2
<1>4. "close again" \in Answerable /\ (state = "closing") \in BOOLEAN
  BY DEF Answerable
<1>5. deferred' \in Seq(DeferredRec) /\ Linked' /\ Reporting'
  BY <1>1, <1>2, <1>4, PushKeeps, Zenon
<1>6. QED
  BY <1>1, <1>2, <1>3, <1>5, Zenon DEF IInv, Types

LEMMA UnchangedKeeps ==
    ASSUME IInv, alive' \in BOOLEAN,
           UNCHANGED <<state, synchronous, queue, oldest, newest, deferred, report, sent,
                       answered, made>>
    PROVE  IInv'
<1>1. /\ state' = state /\ synchronous' = synchronous /\ queue' = queue /\ oldest' = oldest
      /\ newest' = newest /\ deferred' = deferred /\ report' = report /\ sent' = sent
      /\ answered' = answered /\ made' = made
  OBVIOUS
<1>2. QED
  BY <1>1, Zenon DEF IInv, Types, Linked, LinkedFrom, Reporting

-----------------------------------------------------------------------------
(* Theorems *)

\* The invariant is inductive: it holds at first, and every step keeps it.
LEMMA StepKeeps ==
    ASSUME IInv, [Next]_vars
    PROVE  IInv'
<1>1. CASE part = "channel" /\ Channel!Next
  <2>1. ASSUME NEW k \in {"declare", "publish", "close"}, Channel!Requests(k) PROVE IInv'
    BY <2>1, RequestsKeep, Zenon
  <2>2. CASE Channel!Declare \/ Channel!DeclareQueue \/ Channel!Consume
    BY <2>1, <2>2, Zenon DEF Channel!Declare, Channel!DeclareQueue, Channel!Consume
  <2>3. CASE Channel!Publish \/ Channel!Acknowledge
    BY <2>1, <2>3, Zenon DEF Channel!Publish, Channel!Acknowledge
  <2>4. CASE Channel!Close
    BY <2>1, <2>4, Zenon DEF Channel!Close
  <2>5. CASE Channel!Destroy
    BY <2>5, UnchangedKeeps DEF Channel!Destroy, Channel!channel
  <2>6. QED
    BY <1>1, <2>2, <2>3, <2>4, <2>5, AnswersKeep, RefusesKeep, ReturnsKeep, CloseAgainKeeps,
       Zenon DEF Channel!Next
<1>2. CASE UNCHANGED channelVars
  <2>1. alive' \in BOOLEAN
    BY <1>2, Zenon DEF channelVars, IInv, Types
  <2>2. QED
    BY <1>2, <2>1, UnchangedKeeps DEF channelVars
<1>3. (part = "channel" /\ Channel!Next) \/ UNCHANGED channelVars
  BY Zenon DEF Next, vars, Channel!Next, ChannelStep, DeferredStep, DeliveryStep, ValueStep
<1>4. QED
  BY <1>1, <1>2, <1>3

LEMMA StartHolds == Init => IInv
<1> SUFFICES ASSUME Init PROVE IInv
  OBVIOUS
<1> DEFINE open == [kind |-> "open", id |-> 0]
<1>1. /\ state = "connected" /\ synchronous = TRUE /\ queue = <<>>
      /\ oldest = 0 /\ newest = 0 /\ deferred = <<>>
      /\ report = <<>> /\ alive = TRUE /\ sent = <<open>> /\ answered = 0 /\ made = 0
  BY DEF Init, Channel!Init
<1>2. open \in Request
  BY DEF Request
<1> HIDE DEF open
<1>3. sent \in Seq(Request) /\ queue \in Seq(Request) /\ answered \in 0..Len(sent)
  BY <1>1, <1>2
<1>4. made \in 0..MaxRequests
  BY <1>1, AmqpObjectsAssumption
<1>5. deferred \in Seq(DeferredRec) /\ Len(deferred) = 0
  BY <1>1
<1>6. Types
  BY <1>1, <1>3, <1>4, <1>5, Zenon DEF Types
<1>7. Linked
  <2>1. 1..Len(deferred) = {} /\ oldest \in 0..Len(deferred)
    BY <1>1, <1>5
  <2>2. QED
    BY <1>1, <2>1, Zenon DEF Linked, LinkedFrom
<1>8. Reporting
  <2>1. \A q : report # <<q>>
    BY <1>1
  <2>2. QED
    BY <2>1, Zenon DEF Reporting
<1>9. QED
  BY <1>6, <1>7, <1>8, Zenon DEF IInv

\* What the run checks follows from the invariant.
LEMMA WaitingHeld ==
    ASSUME IInv
    PROVE  ChainHoldsWaiting
<1>1. Types /\ Linked /\ Reporting
  BY Zenon DEF IInv
<1>2. DOMAIN deferred = 1..Len(deferred) /\ Len(deferred) \in Nat /\ deferred \in Seq(DeferredRec)
  BY <1>1, DeferredLength, Zenon
<1>3. /\ oldest \in 0..Len(deferred)
      /\ \A d \in 1..Len(deferred) : deferred[d].next \in {0} \cup (d + 1)..Len(deferred)
      /\ oldest # 0 => \A d \in oldest..Len(deferred) :
                          deferred[d].next = IF d = Len(deferred) THEN 0 ELSE d + 1
      /\ \A d \in 1..Len(deferred) : deferred[d].told = <<>> => oldest # 0 /\ oldest <= d
      /\ newest = (IF oldest = 0 THEN 0 ELSE Len(deferred))
  BY <1>1, Zenon DEF Linked, LinkedFrom
<1>4. Channel!TypeOK
  <2>1. \A d \in 1..Len(deferred) : deferred[d].failed \in BOOLEAN /\ deferred[d].told \in Seq(Told)
    BY <1>2, ElementOfSeq, DeferredFields, 0 \in Nat, Zenon
  <2>2. {oldest, newest} \subseteq (1..Len(deferred)) \cup {0}
    <3> DEFINE L == Len(deferred)
    <3>1. L \in Nat /\ oldest \in 0..L /\ newest = (IF oldest = 0 THEN 0 ELSE L)
      BY <1>2, <1>3
    <3> HIDE DEF L
    <3>2. {oldest, newest} \subseteq (1..L) \cup {0}
      BY <3>1
    <3>3. QED
      BY <3>2 DEF L
  <2>3. Len(report) <= 1
    <3>1. report = <<>> \/ \E r \in ReportRec : report = <<r>>
      BY <1>1, Zenon DEF Types
    <3>2. \A r : Len(<<r>>) <= 1
      OBVIOUS
    <3>3. Len(<<>>) <= 1
      OBVIOUS
    <3>4. QED
      BY <3>1, <3>2, <3>3, Zenon
  <2>4. answered <= Len(sent) /\ made <= MaxRequests
    BY <1>1, AmqpObjectsAssumption DEF Types
  <2>5. /\ state \in {"connected", "ready", "closing", "closed"}
        /\ {synchronous, alive} \subseteq BOOLEAN
    BY <1>1, Zenon DEF Types
  <2>6. QED
    BY <1>2, <1>3, <2>1, <2>2, <2>3, <2>4, <2>5, Zenon DEF Channel!TypeOK, Channel!Deferreds, Told
<1>5. Channel!ChainHoldsWaiting
  <2>1. oldest = 0 <=> newest = 0
    <3> DEFINE L == Len(deferred)
    <3>1. L \in Nat /\ oldest \in 0..L /\ newest = (IF oldest = 0 THEN 0 ELSE L)
      BY <1>2, <1>3
    <3> HIDE DEF L
    <3>2. QED
      BY <3>1
  <2>2. ASSUME oldest # 0 PROVE Channel!Listed(newest) /\ deferred[newest].next = 0
    <3> DEFINE L == Len(deferred)
    <3>1. L \in Nat /\ oldest \in 0..L /\ newest = L
      BY <1>2, <1>3, <2>2
    <3> HIDE DEF L
    <3>2. newest \in oldest..L /\ newest \in 1..L /\ oldest <= newest
      BY <2>2, <3>1
    <3>3. QED
      BY <1>1, <1>3, <2>2, <3>1, <3>2, LinkedListed, Zenon DEF L
  <2>3. ASSUME NEW d \in 1..Len(deferred), deferred[d].told = <<>> PROVE Channel!Listed(d)
    BY <1>1, <1>3, <2>3, LinkedListed, Zenon
  <2>4. QED
    BY <1>2, <2>1, <2>2, <2>3, Zenon DEF Channel!ChainHoldsWaiting, Channel!Deferreds
<1>6. QED
  BY <1>4, <1>5, Zenon DEF ChainHoldsWaiting

\* channelimpl.h, deferred.h: whatever the callbacks of a report add to the list
\* or cut off, no Deferred that waits is lost from it, for any number of requests.
THEOREM HoldsWaiting == Spec => []ChainHoldsWaiting
<1>1. Init => IInv
  BY StartHolds
<1>2. IInv /\ [Next]_vars => IInv'
  BY StepKeeps
<1>3. IInv => ChainHoldsWaiting
  BY WaitingHeld
<1>4. QED
  BY <1>1, <1>2, <1>3, PTL DEF Spec

-----------------------------------------------------------------------------
(* The order of what is sent *)

\* What the user has requested and was not dropped, sent or to be sent.
Requested == sent \o queue

\* s is in the order of the requests, n at most; only the first may open the channel.
InOrder(s, n) ==
    /\ \A i, j \in 1..Len(s) : i < j => s[i].id < s[j].id
    /\ \A i \in 1..Len(s) : s[i].id <= n
    /\ \A i \in 2..Len(s) : s[i].kind # "open"

\* The synchronous requests in s that are not answered, after the first n.
Syncs(s, n) == {i \in (n + 1)..Len(s) : Channel!IsSync(s[i])}

\* Nothing is sent directly.
Held == synchronous \/ ~Channel!Usable

\* A second synchronous request is the last of all, and what follows is held.
Turn ==
    /\ \A i, j \in Syncs(sent, answered) : i < j => j = Len(sent) /\ Held
    /\ answered = 0 => Len(sent) = 1 /\ Held

\* While the channel is being reported ready, there is no second one; and after the
\* report of a close nothing is sent.
ReportTurn ==
    \A r \in ReportRec : report = <<r>> =>
       /\ r.at = "ready" => /\ answered # 0
                            /\ \A i, j \in Syncs(sent, answered) : ~(i < j)
                            /\ Syncs(sent, answered) # {} => Held
       /\ r.at = "success" /\ r.closed => state = "closed"

TurnInv == InOrder(Requested, made) /\ Turn /\ ReportTurn

-----------------------------------------------------------------------------
LEMMA RequestFields ==
    ASSUME NEW r \in Request
    PROVE  r.id \in Nat
BY DEF Request

LEMMA OrderAppend ==
    ASSUME NEW s \in Seq(Request), NEW n \in Nat, InOrder(s, n), NEW r \in Request,
           r.id = n + 1, r.kind # "open"
    PROVE  InOrder(Append(s, r), n + 1)
<1> DEFINE t == Append(s, r)
           L == Len(s)
<1>1. /\ L \in Nat /\ Len(t) = L + 1 /\ t[L + 1] = r
      /\ \A i \in 1..L : t[i] = s[i] /\ s[i].id \in Nat
  <2>1. \A i \in 1..L : s[i] \in Request
    BY ElementOfSeq, Zenon
  <2>2. \A i \in 1..L : s[i].id \in Nat
    BY <2>1, RequestFields, Zenon
  <2>3. L \in Nat
    BY LenProperties, Zenon
  <2>4. Len(t) = L + 1 /\ t[L + 1] = r /\ \A i \in 1..L : t[i] = s[i]
    BY AppendProperties
  <2>5. QED
    BY <2>2, <2>3, <2>4
<1>2. /\ \A i, j \in 1..L : i < j => s[i].id < s[j].id
      /\ \A i \in 1..L : s[i].id <= n
      /\ \A i \in 2..L : s[i].kind # "open"
  BY DEF InOrder
<1> HIDE DEF t, L
<1>3. ASSUME NEW i \in 1..(L + 1), NEW j \in 1..(L + 1), i < j PROVE t[i].id < t[j].id
  <2>1. i \in 1..L
    BY <1>1, <1>3
  <2>2. t[i] = s[i] /\ s[i].id <= n /\ s[i].id \in Nat
    BY <1>1, <1>2, <2>1
  <2>3. CASE j = L + 1
    BY <1>1, <2>2, <2>3
  <2>4. CASE j # L + 1
    <3>1. j \in 1..L
      BY <1>1, <2>4
    <3>2. QED
      BY <1>1, <1>2, <1>3, <2>1, <3>1
  <2>5. QED
    BY <2>3, <2>4
<1>4. ASSUME NEW i \in 1..(L + 1) PROVE t[i].id <= n + 1
  <2>1. CASE i = L + 1
    BY <1>1, <2>1
  <2>2. CASE i # L + 1
    <3>1. i \in 1..L
      BY <1>1, <2>2
    <3>2. t[i].id <= n /\ t[i].id \in Nat
      BY <1>1, <1>2, <3>1
    <3>3. QED
      BY <3>2
  <2>3. QED
    BY <2>1, <2>2
<1>5. ASSUME NEW i \in 2..(L + 1) PROVE t[i].kind # "open"
  <2>1. CASE i = L + 1
    BY <1>1, <2>1
  <2>2. CASE i # L + 1
    <3>1. i \in 1..L /\ i \in 2..L
      BY <1>1, <2>2
    <3>2. QED
      BY <1>1, <1>2, <3>1
  <2>3. QED
    BY <2>1, <2>2
<1>6. QED
  BY <1>1, <1>3, <1>4, <1>5, Zenon DEF InOrder, t

\* A request that is not sent leaves all in order.
LEMMA OrderLater ==
    ASSUME NEW s \in Seq(Request), NEW n \in Nat, InOrder(s, n)
    PROVE  InOrder(s, n + 1)
<1>1. \A i \in 1..Len(s) : s[i].id \in Nat
  BY ElementOfSeq, RequestFields, Zenon
<1>2. \A i \in 1..Len(s) : s[i].id <= n
  BY Zenon DEF InOrder
<1>3. \A i \in 1..Len(s) : s[i].id <= n + 1
  BY <1>1, <1>2
<1>4. QED
  BY <1>3, Zenon DEF InOrder

\* So does to drop the last ones.
LEMMA OrderFirst ==
    ASSUME NEW s \in Seq(Request), NEW t \in Seq(Request), NEW n, InOrder(s \o t, n)
    PROVE  InOrder(s, n)
<1> DEFINE u == s \o t
<1>1. Len(s) \in Nat /\ Len(t) \in Nat /\ Len(u) = Len(s) + Len(t)
  BY ConcatProperties, LenProperties
<1>2. \A i \in 1..Len(s) : i \in 1..Len(u)
  BY <1>1
<1>3. \A i \in 2..Len(s) : i \in 1..Len(s) /\ i \in 2..Len(u)
  BY <1>1
<1>4. \A i \in 1..Len(s) : u[i] = s[i]
  BY <1>1, ConcatProperties
<1> HIDE DEF u
<1>5. InOrder(u, n)
  BY DEF u
<1>6. QED
  BY <1>2, <1>3, <1>4, <1>5, Zenon DEF InOrder

\* send() sends the request, or queues it behind all, or does nothing.
LEMMA SendIs ==
    ASSUME Types, NEW r \in Request, Channel!Send(r)
    PROVE  /\ Requested' = IF Channel!Usable THEN Append(Requested, r) ELSE Requested
           /\ \/ sent' = sent /\ synchronous' = synchronous
              \/ ~Held /\ sent' = Append(sent, r) /\ synchronous' = Channel!IsSync(r)
<1>1. queue \in Seq(Request) /\ sent \in Seq(Request)
  BY Zenon DEF Types
<1>2. CASE ~Channel!Usable
  BY <1>2, Zenon DEF Channel!Send, Requested
<1>3. CASE Channel!Usable /\ Channel!Waiting
  <2>1. sent' = sent /\ synchronous' = synchronous /\ queue' = Append(queue, r)
    BY <1>3, Zenon DEF Channel!Send
  <2>2. /\ Append(queue, r) = queue \o <<r>> /\ <<r>> \in Seq(Request)
        /\ Requested \in Seq(Request) /\ Append(Requested, r) = Requested \o <<r>>
    <3>1. <<r>> \in Seq(Request)
      <4>1. <<>> \in Seq(Request)
        BY EmptySeq, Zenon
      <4>2. Append(<<>>, r) \in Seq(Request) /\ Append(<<>>, r) = <<r>>
        BY <4>1, AppendProperties
      <4>3. QED
        BY <4>2
    <3>2. QED
      BY <1>1, <3>1, AppendIsConcat, ConcatProperties, Zenon DEF Requested
  <2>3. (sent \o queue) \o <<r>> = sent \o (queue \o <<r>>)
    <3> DEFINE last == <<r>>
    <3>1. last \in Seq(Request)
      BY <2>2, Zenon
    <3> HIDE DEF last
    <3>2. (sent \o queue) \o last = sent \o (queue \o last)
      BY <1>1, <3>1, ConcatAssociative
    <3>3. QED
      BY <3>2, Zenon DEF last
  <2>4. sent' \o queue' = sent \o (queue \o <<r>>)
    BY <2>1, <2>2
  <2>5. Requested' = Append(Requested, r)
    BY <2>2, <2>3, <2>4, Zenon DEF Requested
  <2>6. QED
    BY <1>3, <2>1, <2>5, Zenon
<1>4. CASE Channel!Usable /\ ~Channel!Waiting
  <2>1. ~Held /\ queue = <<>>
    BY <1>4, Zenon DEF Channel!Waiting, Held
  <2>2. /\ sent' = Append(sent, r) /\ synchronous' = Channel!IsSync(r) /\ queue' = queue
    BY <1>4, Zenon DEF Channel!Send
  <2>3. Append(sent, r) \in Seq(Request)
    BY <1>1, AppendProperties, Zenon
  <2>4. Requested' = Append(Requested, r)
    BY <1>1, <2>1, <2>2, <2>3, ConcatEmptySeq, Zenon DEF Requested
  <2>5. QED
    BY <1>4, <2>1, <2>2, <2>4, Zenon
<1>5. QED
  BY <1>2, <1>3, <1>4, Zenon

\* flush() sends requests of the queue in their order; if one is synchronous, it
\* is the last.
LEMMA FlushIs ==
    ASSUME Types, Channel!Flush
    PROVE  /\ Requested' = Requested
           /\ Len(sent') \in Nat /\ Len(sent) \in Nat /\ Len(sent) <= Len(sent')
           /\ \A i \in 1..Len(sent) : sent'[i] = sent[i]
           /\ \A i \in (Len(sent) + 1)..Len(sent') :
                 Channel!IsSync(sent'[i]) => i = Len(sent') /\ synchronous'
<1>1. queue \in Seq(Request) /\ sent \in Seq(Request)
  BY Zenon DEF Types
<1>2. PICK m \in 0..Len(queue) :
         /\ Channel!Flushed(queue) = SubSeq(queue, 1, m)
         /\ \A i \in 1..m : i # m => ~Channel!IsSync(queue[i])
  BY <1>1, FlushedIs, Zenon
<1> DEFINE out == SubSeq(queue, 1, m)
           rest == SubSeq(queue, m + 1, Len(queue))
           L == Len(sent)
<1>3. /\ out \in Seq(Request) /\ Len(out) = m /\ \A i \in 1..m : out[i] = queue[i]
      /\ rest \in Seq(Request)
  BY <1>1, PartOfQueue
<1>4. /\ sent' = sent \o out
      /\ queue' = SubSeq(queue, Len(out) + 1, Len(queue))
      /\ synchronous' = (\E i \in DOMAIN out : Channel!IsSync(out[i]))
  BY <1>2, Zenon DEF Channel!Flush
<1>5. Len(queue) \in Nat /\ L \in Nat /\ m \in Nat
  BY <1>1, LenProperties
<1>6. out \o rest = queue
  <2>1. 1 \in 1..(Len(queue) + 1) /\ m \in (1 - 1)..Len(queue) /\ Len(queue) \in m..Len(queue)
    BY <1>5
  <2>2. out \o rest = SubSeq(queue, 1, Len(queue))
    BY <1>1, <2>1, ConcatAdjacentSubSeq, Zenon
  <2>3. QED
    BY <1>1, <2>2, SubSeqFull, Zenon
<1> HIDE DEF out, rest, L
<1>7. queue' = rest
  BY <1>3, <1>4 DEF rest
<1>8. Requested' = Requested
  <2>1. (sent \o out) \o rest = sent \o (out \o rest)
    <3>1. sent \in Seq(Request) /\ out \in Seq(Request) /\ rest \in Seq(Request)
      BY <1>1, <1>3
    <3>2. QED
      BY <3>1, ConcatAssociative, SMT
  <2>2. sent' \o queue' = (sent \o out) \o rest
    BY <1>4, <1>7
  <2>3. sent' \o queue' = sent \o queue
    BY <1>6, <2>1, <2>2
  <2>4. QED
    BY <2>3, Zenon DEF Requested
<1>9. /\ Len(sent') = L + m
      /\ \A i \in 1..(L + m) : sent'[i] = IF i <= L THEN sent[i] ELSE out[i - L]
  <2>1. /\ Len(sent \o out) = Len(sent) + Len(out)
        /\ \A i \in 1..(Len(sent) + Len(out)) :
              (sent \o out)[i] = IF i <= Len(sent) THEN sent[i] ELSE out[i - Len(sent)]
    BY <1>1, <1>3, ConcatProperties
  <2>2. Len(sent) = L /\ Len(out) = m /\ sent' = sent \o out
    BY <1>3, <1>4 DEF L
  <2>3. QED
    BY <2>1, <2>2
<1>10. ASSUME NEW i \in (L + 1)..(L + m), Channel!IsSync(sent'[i])
       PROVE  i = L + m /\ synchronous'
  <2>1. i - L \in 1..m /\ i \in 1..(L + m) /\ ~(i <= L)
    BY <1>5
  <2>2. sent'[i] = out[i - L] /\ out[i - L] = queue[i - L]
    BY <1>3, <1>9, <2>1, Zenon
  <2>3. i - L = m
    BY <1>2, <1>10, <2>1, <2>2, Zenon
  <2>4. DOMAIN out = 1..m
    BY <1>3, LenProperties, Zenon
  <2>5. synchronous'
    BY <1>4, <1>10, <2>1, <2>2, <2>4, Zenon
  <2>6. i = L + m
    BY <1>5, <2>3
  <2>7. QED
    BY <2>5, <2>6
<1>11. \A i \in 1..L : sent'[i] = sent[i]
  <2>1. \A i \in 1..L : i \in 1..(L + m) /\ i <= L
    BY <1>5
  <2>2. QED
    BY <1>9, <2>1, Zenon
<1>12. Len(sent') \in Nat /\ L <= Len(sent')
  BY <1>5, <1>9
<1>13. QED
  BY <1>5, <1>8, <1>9, <1>10, <1>11, <1>12, Zenon DEF L

-----------------------------------------------------------------------------
(* What keeps the order *)

LEMMA HeldSame ==
    ASSUME state' = state, synchronous' = synchronous
    PROVE  (Held => Held') /\ (Held' => Held)
BY Zenon DEF Held, Channel!Usable

\* A step that sends nothing, where what was held still is.
LEMMA SameTurn ==
    ASSUME Turn, sent' = sent, answered' = answered, Held => Held'
    PROVE  Turn' /\ Syncs(sent, answered)' = Syncs(sent, answered)
<1>1. Syncs(sent, answered)' = Syncs(sent, answered)
  BY Zenon DEF Syncs, Channel!IsSync
<1>2. QED
  BY <1>1, Zenon DEF Turn

\* A report that is not under way, or tells an error, asks nothing.
LEMMA OtherReportTurn ==
    ASSUME report' = <<>> \/ \E r : report' = <<r>> /\ r.at \notin {"ready", "success"}
    PROVE  ReportTurn'
<1>1. \A q, r : <<r>> = <<q>> => q = r
  OBVIOUS
<1>2. \A q : <<q>> # <<>>
  OBVIOUS
<1>3. QED
  BY <1>1, <1>2, Zenon DEF ReportTurn

\* The queue is dropped.
LEMMA DropKeeps ==
    ASSUME Types, InOrder(Requested, made), sent' = sent, queue' = <<>>, made' = made
    PROVE  InOrder(Requested, made)'
<1>1. queue \in Seq(Request) /\ sent \in Seq(Request)
  BY Zenon DEF Types
<1>2. InOrder(sent, made)
  BY <1>1, OrderFirst, Zenon DEF Requested
<1>3. sent' \o queue' = sent
  BY <1>1, ConcatEmptySeq, Zenon
<1>4. Requested' = sent
  BY <1>3, Zenon DEF Requested
<1>5. QED
  BY <1>2, <1>4, Zenon DEF InOrder

LEMMA SendTurn ==
    ASSUME Types, TurnInv, NEW r \in Request, r.id = made + 1, r.kind # "open", Channel!Send(r),
           made' = made + 1, answered' = answered, report' = report,
           ~Channel!Usable => ~(Channel!Usable)', state = "closed" => state' = "closed"
    PROVE  TurnInv'
<1>1. queue \in Seq(Request) /\ sent \in Seq(Request) /\ made \in Nat
  BY AmqpObjectsAssumption DEF Types
<1>2. InOrder(Requested, made) /\ Turn /\ ReportTurn
  BY Zenon DEF TurnInv
<1>3. /\ Requested' = IF Channel!Usable THEN Append(Requested, r) ELSE Requested
      /\ \/ sent' = sent /\ synchronous' = synchronous
         \/ ~Held /\ sent' = Append(sent, r) /\ synchronous' = Channel!IsSync(r)
  BY SendIs, Zenon
<1>4. InOrder(Requested, made)'
  <2>1. Requested \in Seq(Request)
    BY <1>1, ConcatProperties, Zenon DEF Requested
  <2>2. InOrder(Requested, made + 1) /\ InOrder(Append(Requested, r), made + 1)
    BY <1>1, <1>2, <2>1, OrderLater, OrderAppend, Zenon
  <2>3. Requested' = Requested \/ Requested' = Append(Requested, r)
    BY <1>3, Zenon
  <2>4. QED
    BY <2>2, <2>3, Zenon DEF InOrder
<1>5. CASE sent' = sent /\ synchronous' = synchronous
  <2>1. Held => Held'
    BY <1>5, Zenon DEF Held
  <2>2. Turn' /\ Syncs(sent, answered)' = Syncs(sent, answered)
    BY <1>2, <1>5, <2>1, SameTurn, Zenon
  <2>3. ReportTurn'
    BY <1>2, <2>1, <2>2, Zenon DEF ReportTurn
  <2>4. QED
    BY <1>4, <2>2, <2>3, Zenon DEF TurnInv
<1>6. CASE ~Held /\ sent' = Append(sent, r) /\ synchronous' = Channel!IsSync(r)
  <2> DEFINE L == Len(sent)
  <2>1. /\ L \in Nat /\ Len(sent') = L + 1 /\ sent'[L + 1] = r
        /\ \A i \in 1..L : sent'[i] = sent[i]
    BY <1>1, <1>6, AppendProperties, LenProperties
  <2>n. answered \in Nat /\ L \in Nat
    BY <2>1 DEF Types
  <2>2. answered # 0 /\ \A i, j \in Syncs(sent, answered) : ~(i < j)
    BY <1>2, <1>6, Zenon DEF Turn
  <2>l. Len(sent') = L + 1
    BY <2>1
  <2> HIDE DEF L
  <2>3. ASSUME NEW i \in Syncs(sent, answered)', i # L + 1 PROVE i \in Syncs(sent, answered)
    <3>1. i \in (answered + 1)..(L + 1) /\ Channel!IsSync(sent'[i])
      BY <2>l, <2>3 DEF Syncs, Channel!IsSync
    <3>2. i \in (answered + 1)..L /\ i \in 1..L
      BY <2>n, <2>3, <3>1
    <3>3. QED
      BY <2>1, <3>1, <3>2, Zenon DEF Syncs, L
  <2>4. ASSUME L + 1 \in Syncs(sent, answered)' PROVE Held'
    <3>1. Channel!IsSync(sent'[L + 1])
      BY <2>4, Zenon DEF Syncs, Channel!IsSync
    <3>2. QED
      BY <1>6, <2>1, <3>1, Zenon DEF Held
  <2>i. \A i \in Syncs(sent, answered)' : i \in 1..(L + 1)
    BY <2>n, <2>l DEF Syncs
  <2>5. ASSUME NEW i \in Syncs(sent, answered)', NEW j \in Syncs(sent, answered)', i < j
        PROVE  j = L + 1 /\ Held'
    <3>1. i # L + 1
      BY <2>n, <2>i, <2>5
    <3>2. i \in Syncs(sent, answered)
      BY <2>3, <3>1
    <3>3. j = L + 1
      BY <2>2, <2>3, <2>5, <3>2, Zenon
    <3>4. QED
      BY <2>4, <2>5, <3>3, Zenon
  <2>6. Turn'
    BY <2>2, <2>5, <2>l, Zenon DEF Turn
  <2>7. ReportTurn'
    <3> SUFFICES ASSUME NEW q \in ReportRec, report' = <<q>>
                 PROVE  /\ q.at = "ready" =>
                             /\ answered' # 0
                             /\ \A i, j \in Syncs(sent, answered)' : ~(i < j)
                             /\ Syncs(sent, answered)' # {} => Held'
                        /\ q.at = "success" /\ q.closed => state' = "closed"
      BY Zenon DEF ReportTurn
    <3>1. report = <<q>>
      OBVIOUS
    <3>2. q.at = "success" /\ q.closed => state' = "closed"
      BY <1>2, <3>1, Zenon DEF ReportTurn
    <3>3. ASSUME q.at = "ready"
          PROVE  /\ answered' # 0
                 /\ \A i, j \in Syncs(sent, answered)' : ~(i < j)
                 /\ Syncs(sent, answered)' # {} => Held'
      <4>1. Syncs(sent, answered) = {}
        BY <1>2, <1>6, <3>1, <3>3, Zenon DEF ReportTurn
      <4>2. \A i \in Syncs(sent, answered)' : i = L + 1
        BY <2>3, <4>1, Zenon
      <4>3. ~(L + 1 < L + 1)
        BY <2>n
      <4>4. QED
        BY <2>2, <2>4, <4>2, <4>3, Zenon
    <3>4. QED
      BY <3>2, <3>3, Zenon
  <2>8. QED
    BY <1>4, <2>6, <2>7, Zenon DEF TurnInv
<1>7. QED
  BY <1>3, <1>5, <1>6, Zenon

\* flush(), when no two synchronous requests are unanswered.
LEMMA FlushTurn ==
    ASSUME Types, Channel!Flush, NEW n \in 1..Len(sent), answered' = n,
           \A i, j \in Syncs(sent, n) : ~(i < j)
    PROVE  Turn' /\ Requested' = Requested
<1> DEFINE L == Len(sent)
           M == Len(sent')
<1>1. /\ Requested' = Requested
      /\ M \in Nat /\ L \in Nat /\ L <= M
      /\ \A i \in 1..L : sent'[i] = sent[i]
      /\ \A i \in (L + 1)..M : Channel!IsSync(sent'[i]) => i = M /\ synchronous'
  BY FlushIs, Zenon
<1>2. M \in Nat /\ L \in Nat /\ L <= M /\ n \in 1..L
  BY <1>1
<1>3. Syncs(sent, answered)' = {i \in (n + 1)..M : Channel!IsSync(sent'[i])}
  BY Zenon DEF Syncs, Channel!IsSync
<1> HIDE DEF M, L
<1>4. ASSUME NEW i \in Syncs(sent, answered)', NEW j \in Syncs(sent, answered)', i < j
      PROVE  j = M /\ Held'
  <2>1. /\ i \in (n + 1)..M /\ Channel!IsSync(sent'[i])
        /\ j \in (n + 1)..M /\ Channel!IsSync(sent'[j])
    BY <1>3, Zenon
  <2>2. CASE j \in 1..L
    <3>1. i \in 1..L /\ i \in (n + 1)..L /\ j \in (n + 1)..L
      BY <1>2, <1>4, <2>1, <2>2
    <3>2. i \in Syncs(sent, n) /\ j \in Syncs(sent, n)
      BY <1>1, <2>1, <2>2, <3>1, Zenon DEF Syncs, L
    <3>3. QED
      BY <1>4, <3>2, Zenon
  <2>3. CASE j \notin 1..L
    <3>1. j \in (L + 1)..M
      BY <1>2, <2>1, <2>3
    <3>2. QED
      BY <1>1, <2>1, <3>1, Zenon DEF Held
  <2>4. QED
    BY <2>2, <2>3
<1>5. answered' # 0
  BY <1>2
<1>6. Turn'
  BY <1>4, <1>5, Zenon DEF Turn, M
<1>7. QED
  BY <1>1, <1>6

-----------------------------------------------------------------------------
(* The order, action by action *)

LEMMA AnswersTurn ==
    ASSUME Types, TurnInv, Channel!Answers
    PROVE  TurnInv'
<1> DEFINE L == Len(sent)
           n == answered + 1
<1>1. queue \in Seq(Request) /\ sent \in Seq(Request) /\ Len(sent) \in Nat
  BY LenProperties, Zenon DEF Types
<1>2. InOrder(Requested, made) /\ Turn /\ ReportTurn
  BY Zenon DEF TurnInv
<1>3. answered' = n /\ made' = made /\ report = <<>> /\ answered < L
  BY DEF Channel!Answers
<1>4. answered \in Nat /\ n \in 1..L /\ n \in Nat /\ L \in Nat /\ n # 0
  BY <1>1, <1>3 DEF Types
<1>5. \/ sent[n].kind = "open" /\ Channel!ReportReady
      \/ sent[n].kind = "publish" /\ UNCHANGED <<Channel!channel, report, sent>>
      \/ sent[n].kind # "publish" /\ \E c \in BOOLEAN : Channel!ReportSuccess(c)
  BY Zenon DEF Channel!Answers
<1> HIDE DEF L, n
<1>6. \A i : i \in Syncs(sent, n) => i \in Syncs(sent, answered)
  <2>1. \A i : i \in (n + 1)..L => i \in (answered + 1)..L
    BY <1>4 DEF n
  <2>2. QED
    BY <2>1, Zenon DEF Syncs, L
<1>7. ASSUME sent' = sent, queue' = queue PROVE InOrder(Requested, made)'
  <2>1. Requested' = Requested
    BY <1>7, Zenon DEF Requested
  <2>2. QED
    BY <1>2, <1>3, <2>1, Zenon DEF InOrder
<1>8. ASSUME sent' = sent PROVE Syncs(sent, answered)' = Syncs(sent, n)
  BY <1>3, <1>8, Zenon DEF Syncs, Channel!IsSync
<1>9. CASE sent[n].kind = "open" /\ Channel!ReportReady
  <2>1. sent' = sent /\ queue' = queue /\ report' = <<[at |-> "ready"]>>
    BY <1>9 DEF Channel!ReportReady
  <2>2. answered = 0
    <3>1. Requested[n] = sent[n] /\ Len(sent) <= Len(Requested) /\ Len(Requested) \in Nat
      <4>1. /\ Len(sent \o queue) = Len(sent) + Len(queue) /\ Len(queue) \in Nat
            /\ \A i \in 1..(Len(sent) + Len(queue)) :
                  (sent \o queue)[i] = IF i <= Len(sent) THEN sent[i] ELSE queue[i - Len(sent)]
        BY <1>1, ConcatProperties, LenProperties
      <4>2. n \in 1..(Len(sent) + Len(queue)) /\ n <= Len(sent)
        BY <1>1, <1>4, <4>1 DEF L
      <4>3. (sent \o queue)[n] = sent[n]
        BY <4>1, <4>2
      <4>4. Len(sent) <= Len(sent \o queue) /\ Len(sent \o queue) \in Nat
        BY <1>1, <4>1
      <4>5. QED
        BY <4>3, <4>4, Zenon DEF Requested
    <3>2. n \notin 2..Len(Requested)
      BY <1>2, <1>9, <3>1, Zenon DEF InOrder
    <3>3. n = 1
      BY <1>1, <1>4, <3>1, <3>2 DEF L
    <3>4. QED
      BY <1>4, <3>3 DEF n
  <2>3. Syncs(sent, n) = {}
    <3>1. L = 1
      BY <1>2, <2>2, Zenon DEF Turn, L
    <3>2. (n + 1)..L = {}
      BY <1>4, <2>2, <3>1 DEF n
    <3>3. QED
      BY <3>2, Zenon DEF Syncs, L
  <2>4. Turn'
    BY <1>3, <1>4, <1>8, <2>1, <2>3, Zenon DEF Turn
  <2>5. ReportTurn'
    <3>1. \A q \in ReportRec : report' = <<q>> => q.at # "success"
      BY <2>1
    <3>2. QED
      BY <1>3, <1>4, <1>8, <2>1, <2>3, <3>1, Zenon DEF ReportTurn
  <2>6. QED
    BY <1>7, <2>1, <2>4, <2>5, Zenon DEF TurnInv
<1>10. ASSUME sent' = sent, queue' = queue, Held => Held', report' = <<>>
       PROVE  TurnInv'
  <2>1. Turn'
    BY <1>2, <1>3, <1>4, <1>6, <1>8, <1>10, Zenon DEF Turn
  <2>2. ReportTurn'
    BY <1>10, OtherReportTurn, Zenon
  <2>3. QED
    BY <1>7, <1>10, <2>1, <2>2, Zenon DEF TurnInv
<1>11. CASE sent[n].kind = "publish" /\ UNCHANGED <<Channel!channel, report, sent>>
  <2>1. /\ sent' = sent /\ queue' = queue /\ state' = state /\ synchronous' = synchronous
        /\ report' = <<>>
    BY <1>3, <1>11 DEF Channel!channel
  <2>2. Held => Held'
    BY <2>1, Zenon DEF Held, Channel!Usable
  <2>3. QED
    BY <1>10, <2>1, <2>2, Zenon
<1>12. ASSUME sent[n].kind # "publish", NEW c \in BOOLEAN, Channel!ReportSuccess(c)
       PROVE  TurnInv'
  <2>1. state' = IF c THEN "closed" ELSE state
    BY <1>12, Zenon DEF Channel!ReportSuccess
  <2>2. CASE oldest = 0
    <3>1. /\ sent' = sent /\ queue' = queue /\ synchronous' = synchronous /\ report' = <<>>
      BY <1>3, <1>12, <2>2 DEF Channel!ReportSuccess
    <3>2. Held => Held'
      <4>1. ~Channel!Usable => ~(Channel!Usable)'
        BY <2>1 DEF Channel!Usable
      <4>2. QED
        BY <3>1, <4>1, Zenon DEF Held
    <3>3. QED
      BY <1>10, <3>1, <3>2, Zenon
  <2>3. CASE oldest # 0
    <3> DEFINE r == [at |-> "success", cb |-> oldest, closed |-> c]
    <3>1. Channel!Flush /\ report' = <<r>>
      BY <1>12, <2>3, Zenon DEF Channel!ReportSuccess
    <3>2. r.at = "success" /\ r.closed = c
      OBVIOUS
    <3> HIDE DEF r
    <3>3. n \in Syncs(sent, answered)
      <4>1. n \in (answered + 1)..L
        BY <1>4 DEF n
      <4>2. QED
        BY <1>12, <4>1, Zenon DEF Syncs, Channel!IsSync, L
    <3>4. ASSUME NEW i \in Syncs(sent, n), NEW j \in Syncs(sent, n) PROVE ~(i < j)
      <4>1. i \in (n + 1)..L /\ j \in (n + 1)..L
        BY <3>4, Zenon DEF Syncs, L
      <4>2. n < i /\ i \in Nat /\ j \in Nat
        BY <1>4, <4>1
      <4>3. i \in Syncs(sent, answered)
        BY <1>6, <3>4
      <4>4. i = L
        BY <1>2, <3>3, <4>2, <4>3, Zenon DEF Turn, L
      <4>5. QED
        BY <1>4, <4>1, <4>4
    <3>5. Turn' /\ Requested' = Requested
      BY <1>3, <1>4, <3>1, <3>4, FlushTurn, Zenon DEF L
    <3>6. InOrder(Requested, made)'
      BY <1>2, <1>3, <3>5, Zenon DEF InOrder
    <3>7. ReportTurn'
      <4>1. \A q : report' = <<q>> => q = r
        BY <3>1
      <4>2. "success" # "ready"
        OBVIOUS
      <4>3. QED
        BY <2>1, <3>2, <4>1, <4>2, Zenon DEF ReportTurn
    <3>8. QED
      BY <3>5, <3>6, <3>7, Zenon DEF TurnInv
  <2>4. QED
    BY <2>2, <2>3
<1>13. QED
  BY <1>5, <1>9, <1>11, <1>12, Zenon

\* A step that drops the queue, or leaves all as it was.
LEMMA OtherTurn ==
    ASSUME Types, TurnInv, sent' = sent, made' = made, answered' = answered,
           queue' = queue \/ queue' = <<>>, Held => Held',
           \/ report' = <<>>
           \/ \E r : report' = <<r>> /\ r.at \notin {"ready", "success"}
    PROVE  TurnInv'
<1>1. InOrder(Requested, made) /\ Turn
  BY Zenon DEF TurnInv
<1>2. InOrder(Requested, made)'
  <2>1. CASE queue' = queue
    <3>1. Requested' = Requested
      BY <2>1, Zenon DEF Requested
    <3>2. QED
      BY <1>1, <3>1, Zenon DEF InOrder
  <2>2. CASE queue' = <<>>
    BY <1>1, <2>2, DropKeeps, Zenon
  <2>3. QED
    BY <2>1, <2>2
<1>3. Turn'
  BY <1>1, SameTurn, Zenon
<1>4. ReportTurn'
  BY OtherReportTurn, Zenon
<1>5. QED
  BY <1>2, <1>3, <1>4, Zenon DEF TurnInv

\* What the report of an error leaves to do.
LEMMA ErrorReports ==
    ASSUME NEW o, NEW n, Channel!ReportsError(n, o, deferred)
    PROVE  report' = <<>> \/ \E r : report' = <<r>> /\ r.at \notin {"ready", "success"}
<1> DEFINE e == [at |-> "error", cb |-> o, notify |-> n]
           m == [at |-> "notify"]
<1>1. report' = <<>> \/ report' = <<e>> \/ report' = <<m>>
  BY DEF Channel!ReportsError
<1>2. e.at \notin {"ready", "success"} /\ m.at \notin {"ready", "success"}
  OBVIOUS
<1> HIDE DEF e, m
<1>3. QED
  BY <1>1, <1>2, Zenon

LEMMA RefusesTurn ==
    ASSUME Types, TurnInv, Channel!Refuses
    PROVE  TurnInv'
<1>1. /\ sent' = sent /\ made' = made /\ answered' = answered /\ queue' = <<>>
      /\ state' = "closed" /\ Channel!ReportsError(TRUE, oldest, deferred)
  BY DEF Channel!Refuses, Channel!ReportError
<1>2. Held'
  <2>1. ~(Channel!Usable)'
    BY <1>1 DEF Channel!Usable
  <2>2. QED
    BY <2>1, Zenon DEF Held
<1>3. report' = <<>> \/ \E r : report' = <<r>> /\ r.at \notin {"ready", "success"}
  BY <1>1, ErrorReports, Zenon
<1>4. QED
  BY <1>1, <1>2, <1>3, OtherTurn, Zenon

LEMMA ReturnsTurn ==
    ASSUME Types, TurnInv, Channel!Returns
    PROVE  TurnInv'
<1>1. InOrder(Requested, made) /\ Turn /\ ReportTurn
  BY Zenon DEF TurnInv
<1>2. made' = made /\ answered' = answered /\ alive' = alive
  BY DEF Channel!Returns
<1>3. PICK top \in ReportRec : report = <<top>>
  BY Zenon DEF Channel!Returns, Types
<1>4. Channel!Top = top
  BY <1>3 DEF Channel!Top
<1>5. ASSUME state' = state, synchronous' = synchronous PROVE Held => Held'
  BY <1>5, HeldSame, Zenon
<1>6. ASSUME sent' = sent, queue' = queue, state' = state, synchronous' = synchronous,
             \/ report' = <<>>
             \/ \E r : report' = <<r>> /\ r.at \notin {"ready", "success"}
      PROVE  TurnInv'
  BY <1>2, <1>5, <1>6, OtherTurn, Zenon
<1>7. CASE Channel!Ready
  <2>1. top.at = "ready" /\ report' = <<>> /\ state' = state
    BY <1>4, <1>7, Zenon DEF Channel!Ready
  <2>2. CASE alive
    <3>1. Channel!Flush
      BY <1>7, <2>2, Zenon DEF Channel!Ready
    <3>2. answered # 0 /\ \A i, j \in Syncs(sent, answered) : ~(i < j)
      BY <1>1, <1>3, <2>1, Zenon DEF ReportTurn
    <3>3. answered \in 1..Len(sent)
      BY <3>2 DEF Types
    <3>4. Turn' /\ Requested' = Requested
      BY <1>2, <3>1, <3>2, <3>3, FlushTurn, Zenon
    <3>5. ReportTurn'
      BY <2>1, OtherReportTurn, Zenon
    <3>6. QED
      BY <1>1, <1>2, <3>4, <3>5, Zenon DEF TurnInv, InOrder
  <2>3. CASE ~alive
    <3>1. queue' = queue /\ sent' = sent /\ synchronous' = synchronous
      BY <1>7, <2>3, Zenon DEF Channel!Ready
    <3>2. QED
      BY <1>6, <2>1, <3>1
  <2>4. QED
    BY <2>2, <2>3
<1>8. CASE Channel!Success
  <2>1. top.at = "success"
    BY <1>4, <1>8, Zenon DEF Channel!Success
  <2>2. CASE ~alive
    <3>1. /\ report' = <<>> /\ state' = state /\ synchronous' = synchronous /\ queue' = queue
          /\ sent' = sent
      BY <1>8, <2>2 DEF Channel!Success, Channel!channel
    <3>2. QED
      BY <1>6, <3>1
  <2>3. CASE alive /\ ~top.closed
    <3>1. /\ report' = <<>> /\ state' = state /\ synchronous' = synchronous /\ queue' = queue
          /\ sent' = sent
      BY <1>4, <1>8, <2>3, Zenon DEF Channel!Success
    <3>2. QED
      BY <1>6, <3>1
  <2>4. CASE alive /\ top.closed
    <3>1. /\ sent' = sent /\ state' = state /\ queue' = <<>>
          /\ Channel!ReportsError(FALSE, deferred[top.cb].next, deferred)
      BY <1>4, <1>8, <2>4, Zenon DEF Channel!Success
    <3>2. state = "closed"
      BY <1>1, <1>3, <2>1, <2>4, Zenon DEF ReportTurn
    <3>3. Held'
      <4>1. ~(Channel!Usable)'
        BY <3>1, <3>2 DEF Channel!Usable
      <4>2. QED
        BY <4>1, Zenon DEF Held
    <3>4. report' = <<>> \/ \E r : report' = <<r>> /\ r.at \notin {"ready", "success"}
      BY <3>1, ErrorReports, Zenon
    <3>5. QED
      BY <1>2, <3>1, <3>3, <3>4, OtherTurn, Zenon
  <2>5. QED
    BY <2>2, <2>3, <2>4
<1>9. CASE Channel!Error
  <2>1. state' = state /\ queue' = queue /\ sent' = sent /\ synchronous' = synchronous
    BY <1>9, Zenon DEF Channel!Error
  <2>2. report' = <<>> \/ Channel!ReportsError(top.notify, deferred[top.cb].next, deferred)
    BY <1>4, <1>9, Zenon DEF Channel!Error
  <2>3. report' = <<>> \/ \E r : report' = <<r>> /\ r.at \notin {"ready", "success"}
    BY <2>2, ErrorReports, Zenon
  <2>4. QED
    BY <1>6, <2>1, <2>3
<1>10. CASE Channel!Notified
  <2>1. /\ report' = <<>> /\ state' = state /\ synchronous' = synchronous /\ queue' = queue
        /\ sent' = sent
    BY <1>10 DEF Channel!Notified, Channel!channel
  <2>2. QED
    BY <1>6, <2>1
<1>11. QED
  BY <1>7, <1>8, <1>9, <1>10, Zenon DEF Channel!Returns

LEMMA RequestsTurn ==
    ASSUME Types, TurnInv, NEW k \in {"declare", "publish", "close"}, Channel!Requests(k),
           k = "close" => Channel!Usable
    PROVE  TurnInv'
<1> DEFINE r == [kind |-> k, id |-> made + 1]
<1>1. /\ Channel!Send(r) /\ made' = made + 1 /\ answered' = answered /\ report' = report
      /\ state' = IF k = "close" THEN "closing" ELSE state
  BY Zenon DEF Channel!Requests
<1>2. r \in Request /\ r.id = made + 1 /\ r.kind # "open"
  <2>1. made + 1 \in Nat
    BY AmqpObjectsAssumption DEF Types
  <2>2. QED
    BY <2>1 DEF Request
<1> HIDE DEF r
<1>3. ~Channel!Usable => ~(Channel!Usable)'
  BY <1>1 DEF Channel!Usable
<1>4. state = "closed" => state' = "closed"
  BY <1>1 DEF Channel!Usable
<1>5. QED
  BY <1>1, <1>2, <1>3, <1>4, SendTurn, Zenon

\* A request that is not sent, or a step that changes nothing of the order.
LEMMA UnchangedTurn ==
    ASSUME Types, TurnInv, made' = made \/ made' = made + 1,
           UNCHANGED <<state, synchronous, queue, report, sent, answered>>
    PROVE  TurnInv'
<1>1. /\ state' = state /\ synchronous' = synchronous /\ queue' = queue /\ report' = report
      /\ sent' = sent /\ answered' = answered
  OBVIOUS
<1>2. InOrder(Requested, made) /\ Turn /\ ReportTurn
  BY Zenon DEF TurnInv
<1>3. (Held => Held') /\ (Held' => Held)
  BY <1>1, HeldSame, Zenon
<1>4. Turn' /\ Syncs(sent, answered)' = Syncs(sent, answered)
  BY <1>1, <1>2, <1>3, SameTurn, Zenon
<1>5. ReportTurn'
  BY <1>1, <1>2, <1>3, <1>4, Zenon DEF ReportTurn
<1>6. InOrder(Requested, made)'
  <2>1. queue \in Seq(Request) /\ sent \in Seq(Request) /\ made \in Nat
    BY AmqpObjectsAssumption DEF Types
  <2>2. Requested \in Seq(Request) /\ Requested' = Requested
    BY <1>1, <2>1, ConcatProperties, Zenon DEF Requested
  <2>3. InOrder(Requested, made + 1)
    BY <1>2, <2>1, <2>2, OrderLater, Zenon
  <2>4. QED
    BY <1>2, <2>2, <2>3, Zenon DEF InOrder
<1>7. QED
  BY <1>4, <1>5, <1>6, Zenon DEF TurnInv

LEMMA TurnStep ==
    ASSUME Types, TurnInv, [Next]_vars
    PROVE  TurnInv'
<1>1. CASE part = "channel" /\ Channel!Next
  <2>1. CASE Channel!Declare \/ Channel!DeclareQueue \/ Channel!Consume
    BY <2>1, RequestsTurn, "declare" # "close", Zenon
       DEF Channel!Declare, Channel!DeclareQueue, Channel!Consume
  <2>2. CASE Channel!Publish \/ Channel!Acknowledge
    BY <2>2, RequestsTurn, "publish" # "close", Zenon DEF Channel!Publish, Channel!Acknowledge
  <2>3. CASE Channel!Close
    BY <2>3, RequestsTurn, Zenon DEF Channel!Close
  <2>4. CASE Channel!CloseAgain
    BY <2>4, UnchangedTurn DEF Channel!CloseAgain
  <2>5. CASE Channel!Destroy
    BY <2>5, UnchangedTurn DEF Channel!Destroy, Channel!channel
  <2>6. QED
    BY <1>1, <2>1, <2>2, <2>3, <2>4, <2>5, AnswersTurn, RefusesTurn, ReturnsTurn,
       Zenon DEF Channel!Next
<1>2. CASE UNCHANGED channelVars
  BY <1>2, UnchangedTurn DEF channelVars
<1>3. (part = "channel" /\ Channel!Next) \/ UNCHANGED channelVars
  BY Zenon DEF Next, vars, Channel!Next, ChannelStep, DeferredStep, DeliveryStep, ValueStep
<1>4. QED
  BY <1>1, <1>2, <1>3

LEMMA TurnStarts == Init => TurnInv
<1> SUFFICES ASSUME Init PROVE TurnInv
  OBVIOUS
<1> DEFINE open == [kind |-> "open", id |-> 0]
<1>1. /\ synchronous = TRUE /\ queue = <<>> /\ report = <<>>
      /\ sent = <<open>> /\ answered = 0 /\ made = 0
  BY DEF Init, Channel!Init
<1>2. open.id = 0
  OBVIOUS
<1> HIDE DEF open
<1>3. Requested = <<open>>
  BY <1>1 DEF Requested
<1>4. InOrder(Requested, made)
  BY <1>1, <1>2, <1>3 DEF InOrder
<1>5. Turn
  <2>1. Len(sent) = 1 /\ Held
    BY <1>1 DEF Held
  <2>2. \A i, j \in Syncs(sent, answered) : ~(i < j)
    BY <1>1, <2>1 DEF Syncs
  <2>3. QED
    BY <2>1, <2>2, Zenon DEF Turn
<1>6. ReportTurn
  <2>1. \A q : report # <<q>>
    BY <1>1
  <2>2. QED
    BY <2>1, Zenon DEF ReportTurn
<1>7. QED
  BY <1>4, <1>5, <1>6, Zenon DEF TurnInv

\* What the run checks follows from the invariant.
LEMMA TurnHeld ==
    ASSUME Types, TurnInv
    PROVE  SentInTurn
<1>1. sent \in Seq(Request) /\ queue \in Seq(Request) /\ DOMAIN sent = 1..Len(sent)
  BY LenProperties, Zenon DEF Types
<1>2. InOrder(sent, made)
  BY <1>1, OrderFirst, Zenon DEF TurnInv, Requested
<1>3. \A i, j \in Syncs(sent, answered) : i < j => j = Len(sent)
  BY Zenon DEF TurnInv, Turn
<1>4. \A i, j \in (answered + 1)..Len(sent) :
         (i < j /\ Channel!IsSync(sent[i]) /\ Channel!IsSync(sent[j])) => j = Len(sent)
  BY <1>3, Zenon DEF Syncs
<1>5. \A i, j \in DOMAIN sent : i < j => sent[i].id < sent[j].id
  BY <1>1, <1>2, Zenon DEF InOrder
<1>6. QED
  BY <1>4, <1>5, Zenon DEF SentInTurn, Channel!SentInTurn

\* channelimpl.h: the server gets the requests in turn, and behind a synchronous
\* one that it has not answered yet at most one other, the last, for any number
\* of requests.
THEOREM InTurn == Spec => []SentInTurn
<1>1. Init => IInv /\ TurnInv
  BY StartHolds, TurnStarts
<1>2. IInv /\ TurnInv /\ [Next]_vars => IInv' /\ TurnInv'
  BY StepKeeps, TurnStep DEF IInv
<1>3. IInv /\ TurnInv => SentInTurn
  BY TurnHeld DEF IInv
<1>4. QED
  BY <1>1, <1>2, <1>3, PTL DEF Spec
-----------------------------------------------------------------------------
(* What each Deferred is told *)

\* The requests with a Deferred that closes or declares, among the first n of s.
Answers(s, n) == {i \in 1..n : s[i].kind \in {"declare", "close"}}

Count(s, n) == Cardinality(Answers(s, n))

\* The requests with a Deferred that were answered, and those that were made on a
\* channel that could be used.
Served == Count(sent, answered)

Asked == Count(Requested, Len(Requested))

\* A Deferred is being told something.
Telling == \E r \in ReportRec : report = <<r>> /\ r.at \in {"error", "success"}

\* The Deferreds up to here have been told something.
Frontier ==
    IF oldest = 0 THEN Len(deferred) ELSE IF Telling THEN oldest ELSE oldest - 1

\* Of the requests that could be sent, the first n have succeeded.
Judged(ds, n) ==
    \A d \in 1..Len(ds) : ~ds[d].failed =>
        /\ ds[d].told \in {<<>>, <<"success">>, <<"error">>}
        /\ ds[d].told = <<"success">> <=> d <= n

ToldInTurn(ds) ==
    \A d \in 1..Len(ds) : ~ds[d].failed /\ ds[d].told # <<>> =>
        \A e \in 1..(d - 1) : ds[e].told # <<>>

\* Behind f, those that could be sent have been told nothing.
Ahead(ds, f) ==
    \A d \in (f + 1)..Len(ds) : ~ds[d].failed => ds[d].told = <<>>

\* The Deferreds of the requests are the first, and none of them has failed at birth.
InStep ==
    /\ Asked <= Len(deferred) /\ (Channel!Usable => Asked = Len(deferred))
    /\ \A d \in 1..Asked : ~deferred[d].failed

\* An error is told on a channel that is closed.
ReportEnds ==
    \A r \in ReportRec :
       report = <<r>> /\ (r.at = "error" \/ (r.at = "success" /\ r.closed)) => state = "closed"

\* The oldest that waits is that of the next answer.
VerdictInv ==
    /\ Judged(deferred, Served) /\ ToldInTurn(deferred) /\ ReportEnds
    /\ alive => Served <= Frontier /\ Ahead(deferred, Frontier)
    /\ alive /\ state # "closed" => Served = Frontier /\ InStep

-----------------------------------------------------------------------------
(* Counting *)

LEMMA CountNumber ==
    ASSUME NEW s, NEW n \in Nat
    PROVE  Count(s, n) \in Nat /\ IsFiniteSet(Answers(s, n))
<1>1. IsFiniteSet(1..n)
  BY FS_Interval, 1 \in Int, n \in Int
<1>2. Answers(s, n) \subseteq 1..n
  BY DEF Answers
<1>3. IsFiniteSet(Answers(s, n))
  BY <1>1, <1>2, FS_Subset, Zenon
<1>4. QED
  BY <1>3, FS_CardinalityType, Zenon DEF Count

LEMMA CountNone ==
    ASSUME NEW s
    PROVE  Count(s, 0) = 0
<1>1. Answers(s, 0) = {}
  BY DEF Answers
<1>2. QED
  BY <1>1, FS_EmptySet, Zenon DEF Count

LEMMA CountNext ==
    ASSUME NEW s, NEW n \in Nat
    PROVE  Count(s, n + 1) =
             IF s[n + 1].kind \in {"declare", "close"} THEN Count(s, n) + 1 ELSE Count(s, n)
<1>1. n + 1 \notin Answers(s, n)
  BY DEF Answers
<1>2. CASE s[n + 1].kind \in {"declare", "close"}
  <2>1. Answers(s, n + 1) = Answers(s, n) \cup {n + 1}
    BY <1>2 DEF Answers
  <2>2. IsFiniteSet(Answers(s, n))
    BY CountNumber, Zenon
  <2>3. Cardinality(Answers(s, n) \cup {n + 1}) = Cardinality(Answers(s, n)) + 1
    BY <1>1, <2>2, FS_AddElement
  <2>4. QED
    BY <1>2, <2>1, <2>3 DEF Count
<1>3. CASE s[n + 1].kind \notin {"declare", "close"}
  <2>1. Answers(s, n + 1) = Answers(s, n)
    BY <1>3 DEF Answers
  <2>2. QED
    BY <1>3, <2>1 DEF Count
<1>4. QED
  BY <1>2, <1>3

LEMMA CountMore ==
    ASSUME NEW s, NEW n \in Nat, NEW m \in Nat, n <= m
    PROVE  Count(s, n) <= Count(s, m)
<1>1. Answers(s, n) \subseteq Answers(s, m)
  BY DEF Answers
<1>2. IsFiniteSet(Answers(s, m))
  BY CountNumber, Zenon
<1>3. QED
  BY <1>1, <1>2, FS_Subset, Zenon DEF Count

LEMMA CountSame ==
    ASSUME NEW s, NEW t, NEW n \in Nat, \A i \in 1..n : s[i] = t[i]
    PROVE  Count(s, n) = Count(t, n)
<1>1. Answers(s, n) = Answers(t, n)
  BY Zenon DEF Answers
<1>2. QED
  BY <1>1, Zenon DEF Count

\* One more request.
LEMMA CountAppend ==
    ASSUME NEW s \in Seq(Request), NEW r \in Request
    PROVE  Count(Append(s, r), Len(Append(s, r))) =
             IF r.kind \in {"declare", "close"} THEN Count(s, Len(s)) + 1 ELSE Count(s, Len(s))
<1> DEFINE t == Append(s, r)
           L == Len(s)
<1>1. L \in Nat /\ Len(t) = L + 1 /\ t[L + 1] = r /\ \A i \in 1..L : t[i] = s[i]
  BY AppendProperties, LenProperties
<1> HIDE DEF t, L
<1>2. Count(t, L) = Count(s, L)
  BY <1>1, CountSame, Zenon
<1>3. Count(t, L + 1) = IF r.kind \in {"declare", "close"} THEN Count(t, L) + 1 ELSE Count(t, L)
  BY <1>1, CountNext, Zenon
<1>4. Count(t, Len(t)) = IF r.kind \in {"declare", "close"} THEN Count(s, L) + 1 ELSE Count(s, L)
  BY <1>1, <1>2, <1>3, Zenon
<1>5. QED
  BY <1>4, Zenon DEF t, L

\* The answers to what was sent do not depend on what is sent later.
LEMMA ServedSame ==
    ASSUME Types, answered' = answered, \A i \in 1..Len(sent) : sent'[i] = sent[i]
    PROVE  Served' = Served /\ Served \in Nat
<1>1. answered \in Nat /\ \A i \in 1..answered : i \in 1..Len(sent)
  BY DEF Types
<1>2. Count(sent', answered) = Count(sent, answered)
  BY <1>1, CountSame, Zenon
<1>3. Count(sent, answered) \in Nat
  BY <1>1, CountNumber, Zenon
<1>4. QED
  BY <1>2, <1>3, Zenon DEF Served, Count, Answers
-----------------------------------------------------------------------------
(* What a report tells *)

LEMMA FrontierHolds ==
    ASSUME Types, Linked, Reporting
    PROVE  /\ Frontier \in 0..Len(deferred) /\ Len(deferred) \in Nat
           /\ \A d \in 1..Frontier : deferred[d].told # <<>>
<1> DEFINE L == Len(deferred)
<1>1. L \in Nat /\ oldest \in 0..L
  BY DeferredLength DEF Linked, LinkedFrom
<1>2. \A d \in 1..L : deferred[d].told = <<>> => oldest # 0 /\ oldest <= d
  BY Zenon DEF Linked, LinkedFrom
<1>3. Telling => oldest # 0 /\ deferred[oldest].told # <<>>
  BY Zenon DEF Telling, Reporting
<1>4. Frontier = IF oldest = 0 THEN L ELSE IF Telling THEN oldest ELSE oldest - 1
  BY Zenon DEF Frontier
<1> HIDE DEF L
<1>5. Frontier \in 0..L
  BY <1>1, <1>4
<1>6. ASSUME NEW d \in 1..Frontier PROVE deferred[d].told # <<>>
  <2>1. d \in 1..L
    BY <1>1, <1>5
  <2>2. CASE oldest = 0
    BY <1>2, <2>1, <2>2
  <2>3. CASE oldest # 0 /\ Telling /\ d = oldest
    BY <1>3, <2>3
  <2>4. CASE oldest # 0 /\ ~(Telling /\ d = oldest)
    <3>1. ~(oldest <= d)
      BY <1>1, <1>4, <2>4
    <3>2. QED
      BY <1>2, <2>1, <3>1
  <2>5. QED
    BY <2>2, <2>3, <2>4
<1>7. QED
  BY <1>1, <1>5, <1>6, Zenon DEF L

LEMMA InTurnBehind ==
    ASSUME NEW ds, Len(ds) \in Nat, NEW f \in 0..Len(ds),
           \A d \in 1..f : ds[d].told # <<>>, Ahead(ds, f)
    PROVE  ToldInTurn(ds)
<1> SUFFICES ASSUME NEW d \in 1..Len(ds), ~ds[d].failed, ds[d].told # <<>>, NEW e \in 1..(d - 1)
             PROVE  ds[e].told # <<>>
  BY Zenon DEF ToldInTurn
<1>1. d \notin (f + 1)..Len(ds)
  BY Zenon DEF Ahead
<1>2. e \in 1..f
  BY <1>1
<1>3. QED
  BY <1>2

\* A Deferred that is told something is told nothing else.
LEMMA TellIs ==
    ASSUME Types, NEW d \in 1..Len(deferred), NEW w, deferred' = Channel!Tell(d, w)
    PROVE  /\ Len(deferred') = Len(deferred)
           /\ \A j \in 1..Len(deferred) :
                 /\ deferred'[j].failed = deferred[j].failed
                 /\ deferred'[j].told = IF j = d THEN Append(deferred[j].told, w)
                                        ELSE deferred[j].told
<1> DEFINE L == Len(deferred)
           x == [deferred[d] EXCEPT !.told = Append(@, w)]
<1>1. L \in Nat /\ deferred \in Seq(DeferredRec) /\ DOMAIN deferred = 1..L
  BY DeferredLength, Zenon
<1>2. deferred[d] \in DeferredRec
  BY <1>1, ElementOfSeq, Zenon
<1>3. x.failed = deferred[d].failed /\ x.told = Append(deferred[d].told, w)
  BY <1>2 DEF DeferredRec
<1>4. deferred' = [deferred EXCEPT ![d] = x]
  BY <1>1 DEF Channel!Tell
<1> HIDE DEF x
<1>5. Len(deferred') = L /\ \A j \in 1..L : deferred'[j] = IF j = d THEN x ELSE deferred[j]
  <2>1. DOMAIN deferred' = 1..L /\ \A j \in 1..L : deferred'[j] = IF j = d THEN x ELSE deferred[j]
    BY <1>1, <1>4
  <2>2. Len(deferred') = L
    BY <1>1, <1>4
  <2>3. QED
    BY <2>1, <2>2
<1>6. QED
  BY <1>3, <1>5, Zenon

\* The first behind f is told w, in answer to its request if w is success.
LEMMA TellVerdict ==
    ASSUME Types, NEW n \in Nat, NEW f \in Nat, NEW m \in Nat, f + 1 \in 1..Len(deferred),
           Judged(deferred, n), Ahead(deferred, f), NEW w \in Told,
           deferred' = Channel!Tell(f + 1, w),
           IF w = "success" THEN m = n + 1 /\ n = f ELSE m = n /\ n <= f
    PROVE  Judged(deferred', m) /\ Ahead(deferred', f + 1)
<1> DEFINE L == Len(deferred)
           d == f + 1
<1>1. /\ Len(deferred') = L
      /\ \A j \in 1..L : /\ deferred'[j].failed = deferred[j].failed
                         /\ deferred'[j].told = IF j = d THEN Append(deferred[j].told, w)
                                                ELSE deferred[j].told
  BY TellIs, Zenon
<1>2. L \in Nat /\ d \in 1..L /\ d \in Nat /\ d = f + 1
  BY DeferredLength
<1>3. /\ \A j \in 1..L : ~deferred[j].failed =>
            /\ deferred[j].told \in {<<>>, <<"success">>, <<"error">>}
            /\ deferred[j].told = <<"success">> <=> j <= n
      /\ \A j \in d..L : ~deferred[j].failed => deferred[j].told = <<>>
  BY Zenon DEF Judged, Ahead
<1>4. <<"success">> # <<"error">> /\ <<"success">> # <<>> /\ w \in {"success", "error"}
  <2>1. "success" # "error"
    OBVIOUS
  <2>2. QED
    BY <2>1 DEF Told
<1> HIDE DEF L, d
<1>5. ASSUME NEW j \in 1..L, ~deferred'[j].failed
      PROVE  /\ deferred'[j].told \in {<<>>, <<"success">>, <<"error">>}
             /\ deferred'[j].told = <<"success">> <=> j <= m
  <2>1. ~deferred[j].failed
    BY <1>1, <1>5
  <2>2. CASE j = d
    <3>1. j \in d..L
      BY <1>2, <2>2
    <3>2. deferred[j].told = <<>>
      BY <1>3, <2>1, <3>1
    <3>3. deferred'[j].told = <<w>>
      <4>1. deferred'[j].told = Append(<<>>, w)
        BY <1>1, <2>2, <3>2
      <4>2. QED
        BY <4>1
    <3>4. deferred'[j].told \in {<<"success">>, <<"error">>}
      BY <1>4, <3>3
    <3>5. deferred'[j].told = <<"success">> <=> w = "success"
      BY <3>3
    <3>6. w = "success" <=> j <= m
      BY <1>2, <2>2
    <3>7. QED
      BY <3>4, <3>5, <3>6, Zenon
  <2>3. CASE j # d
    <3>1. deferred'[j].told = deferred[j].told
      BY <1>1, <2>3
    <3>2. j <= n <=> j <= m
      BY <1>2, <2>3
    <3>3. QED
      BY <1>3, <2>1, <3>1, <3>2, Zenon
  <2>4. QED
    BY <2>2, <2>3
<1>6. ASSUME NEW j \in (d + 1)..L, ~deferred'[j].failed PROVE deferred'[j].told = <<>>
  <2>1. j \in 1..L /\ j # d /\ j \in d..L
    BY <1>2
  <2>2. QED
    BY <1>1, <1>3, <1>6, <2>1, Zenon
<1>7. QED
  BY <1>1, <1>5, <1>6, Zenon DEF Judged, Ahead, d

\* A Deferred that is made has been told nothing, or has failed.
LEMMA PushVerdict ==
    ASSUME Types, Linked, NEW k \in Answerable, NEW b \in BOOLEAN, Channel!Push(k, b),
           NEW n \in Nat, NEW f \in Nat, n <= f, f <= Len(deferred),
           Judged(deferred, n), Ahead(deferred, f)
    PROVE  Judged(deferred', n) /\ Ahead(deferred', f)
<1> DEFINE L == Len(deferred)
<1>1. /\ Len(deferred') = L + 1
      /\ \A d \in 1..L : /\ deferred'[d].told = deferred[d].told
                         /\ deferred'[d].failed = deferred[d].failed
      /\ deferred'[L + 1].failed = b
      /\ deferred'[L + 1].told = IF b THEN <<"error">> ELSE <<>>
  BY PushLinks
<1>2. L \in Nat /\ f <= L
  BY DeferredLength
<1>3. /\ \A j \in 1..L : ~deferred[j].failed =>
            /\ deferred[j].told \in {<<>>, <<"success">>, <<"error">>}
            /\ deferred[j].told = <<"success">> <=> j <= n
      /\ \A j \in (f + 1)..L : ~deferred[j].failed => deferred[j].told = <<>>
  BY Zenon DEF Judged, Ahead
<1>4. <<"success">> # <<>>
  OBVIOUS
<1> HIDE DEF L
<1>5. ASSUME NEW j \in 1..(L + 1), ~deferred'[j].failed
      PROVE  /\ deferred'[j].told \in {<<>>, <<"success">>, <<"error">>}
             /\ deferred'[j].told = <<"success">> <=> j <= n
  <2>1. CASE j = L + 1
    <3>1. deferred'[j].told = <<>>
      BY <1>1, <1>5, <2>1
    <3>2. ~(j <= n)
      BY <1>2, <2>1
    <3>3. QED
      BY <1>4, <3>1, <3>2, Zenon
  <2>2. CASE j # L + 1
    <3>1. j \in 1..L
      BY <1>2, <2>2
    <3>2. QED
      BY <1>1, <1>3, <1>5, <3>1, Zenon
  <2>3. QED
    BY <2>1, <2>2
<1>6. ASSUME NEW j \in (f + 1)..(L + 1), ~deferred'[j].failed PROVE deferred'[j].told = <<>>
  <2>1. CASE j = L + 1
    BY <1>1, <1>6, <2>1
  <2>2. CASE j # L + 1
    <3>1. j \in 1..L /\ j \in (f + 1)..L
      BY <1>2, <2>2
    <3>2. QED
      BY <1>1, <1>3, <1>6, <3>1, Zenon
  <2>3. QED
    BY <2>1, <2>2
<1>7. QED
  BY <1>1, <1>5, <1>6, Zenon DEF Judged, Ahead

\* Nobody is told anything between reports, or when the channel is told.
LEMMA NobodyTold ==
    ASSUME \/ report' = <<>>
           \/ \E r : report' = <<r>> /\ r.at \notin {"error", "success"}
    PROVE  ~Telling' /\ ReportEnds'
<1>1. \A q, r : <<r>> = <<q>> => q = r
  OBVIOUS
<1>2. \A q : <<q>> # <<>>
  OBVIOUS
<1>3. \A q : q.at \notin {"error", "success"} => q.at # "error" /\ q.at # "success"
  OBVIOUS
<1>4. QED
  BY <1>1, <1>2, <1>3, Zenon DEF Telling, ReportEnds

LEMMA SomeoneTold ==
    ASSUME NEW r \in ReportRec, report' = <<r>>, r.at \in {"error", "success"},
           (r.at = "success" /\ ~r.closed) \/ state' = "closed"
    PROVE  Telling' /\ ReportEnds'
<1>1. \A q : report' = <<q>> => q = r
  OBVIOUS
<1>2. ~(r.at = "error" /\ r.at = "success")
  OBVIOUS
<1>3. QED
  BY <1>1, <1>2, Zenon DEF Telling, ReportEnds

\* The next Deferred that is told an error is the one behind f.
LEMMA ErrorVerdict ==
    ASSUME Types, NEW o, LinkedFrom(o), NEW n \in BOOLEAN,
           Channel!ReportsError(n, o, deferred), state' = "closed",
           NEW f \in Nat, IF o = 0 THEN f = Len(deferred) ELSE f = o - 1,
           NEW m \in Nat, m <= f, Judged(deferred, m), Ahead(deferred, f)
    PROVE  /\ Judged(deferred', m) /\ Ahead(deferred', Frontier') /\ ReportEnds'
           /\ Frontier' \in Nat /\ m <= Frontier'
<1>1. Len(deferred) \in Nat /\ o \in 0..Len(deferred)
  BY DeferredLength DEF LinkedFrom
<1>2. CASE o = 0
  <2>1. deferred' = deferred /\ oldest' = 0
    BY <1>2 DEF Channel!ReportsError
  <2>2. Frontier' = f
    BY <1>2, <2>1, Zenon DEF Frontier
  <2>3. ReportEnds'
    <3> DEFINE q == [at |-> "notify"]
    <3>1. report' = <<>> \/ report' = <<q>>
      BY <1>2 DEF Channel!ReportsError
    <3>2. q.at \notin {"error", "success"}
      OBVIOUS
    <3> HIDE DEF q
    <3>3. QED
      BY <3>1, <3>2, NobodyTold, Zenon
  <2>4. QED
    BY <2>1, <2>2, <2>3, Zenon DEF Judged, Ahead
<1>3. CASE o # 0
  <2> DEFINE r == [at |-> "error", cb |-> o, notify |-> n]
  <2>1. deferred' = Channel!Tell(o, "error") /\ oldest' = o /\ report' = <<r>>
    BY <1>3 DEF Channel!ReportsError, Channel!Tell
  <2>2. o = f + 1 /\ f + 1 \in 1..Len(deferred) /\ o \in Nat
    BY <1>1, <1>3
  <2>3. r \in ReportRec /\ r.at = "error"
    BY <2>2 DEF ReportRec
  <2> HIDE DEF r
  <2>4. Telling' /\ ReportEnds'
    <3>1. r.at \in {"error", "success"}
      BY <2>3
    <3>2. QED
      BY <2>1, <2>3, <3>1, SomeoneTold, Zenon
  <2>5. Frontier' = o
    BY <1>3, <2>1, <2>4, Zenon DEF Frontier
  <2>6. "error" \in Told /\ "error" # "success"
    BY DEF Told
  <2>7. Judged(deferred', m) /\ Ahead(deferred', f + 1)
    BY <2>1, <2>2, <2>6, TellVerdict
  <2>8. m <= o
    BY <2>2
  <2>9. QED
    BY <2>2, <2>4, <2>5, <2>7, <2>8, Zenon DEF Ahead
<1>4. QED
  BY <1>2, <1>3
-----------------------------------------------------------------------------
(* The actions *)

Settled ==
    /\ Frontier \in 0..Len(deferred) /\ Len(deferred) \in Nat
    /\ \A d \in 1..Frontier : deferred[d].told # <<>>

LEMMA AlwaysSettled == IInv => Settled
BY FrontierHolds, Zenon DEF IInv, Settled

\* What is to be shown of a step of a channel that lives, and of one that does not.
LEMMA VerdictNext ==
    ASSUME IInv', Judged(deferred', Served'), Ahead(deferred', Frontier'), Served' <= Frontier',
           ReportEnds', state' # "closed" => Served' = Frontier' /\ InStep'
    PROVE  VerdictInv'
<1>1. Settled'
  BY AlwaysSettled, PTL
<1>2. /\ Frontier' \in 0..Len(deferred') /\ Len(deferred') \in Nat
      /\ \A d \in 1..Frontier' : deferred'[d].told # <<>>
  BY <1>1, Zenon DEF Settled
<1>3. ToldInTurn(deferred')
  BY <1>2, InTurnBehind, Zenon
<1>4. ToldInTurn(deferred)'
  BY <1>3, Zenon DEF ToldInTurn
<1>5. Ahead(deferred, Frontier)' /\ Judged(deferred, Served)'
  BY Zenon DEF Ahead, Judged
<1>6. QED
  BY <1>4, <1>5, Zenon DEF VerdictInv

LEMMA VerdictDead ==
    ASSUME VerdictInv, ~alive', deferred' = deferred, Served' = Served, ReportEnds'
    PROVE  VerdictInv'
<1>1. Judged(deferred, Served) /\ ToldInTurn(deferred)
  BY Zenon DEF VerdictInv
<1>2. Judged(deferred, Served)' /\ ToldInTurn(deferred)'
  BY <1>1, Zenon DEF Judged, ToldInTurn
<1>3. QED
  BY <1>2, Zenon DEF VerdictInv

\* A step that tells nobody and makes no request with a Deferred.
LEMMA VerdictSame ==
    ASSUME IInv, VerdictInv, IInv', Served' = Served, deferred' = deferred, alive' = alive,
           Frontier' = Frontier, ReportEnds', state' # "closed" => state # "closed",
           state' # "closed" => Asked' = Asked \/ state = "closed",
           Channel!Usable' => Channel!Usable
    PROVE  VerdictInv'
<1>1. CASE ~alive
  BY <1>1, VerdictDead, Zenon
<1>2. CASE alive
  <2>1. Judged(deferred, Served) /\ Served <= Frontier /\ Ahead(deferred, Frontier)
    BY <1>2, Zenon DEF VerdictInv
  <2>2. Judged(deferred', Served') /\ Ahead(deferred', Frontier') /\ Served' <= Frontier'
    BY <2>1, Zenon
  <2>3. ASSUME state' # "closed" PROVE Served' = Frontier' /\ InStep'
    <3>1. Served = Frontier /\ InStep /\ Asked' = Asked
      BY <1>2, <2>3, Zenon DEF VerdictInv
    <3>2. QED
      BY <3>1, Zenon DEF InStep
  <2>4. QED
    BY <2>2, <2>3, VerdictNext, Zenon
<1>3. QED
  BY <1>1, <1>2

\* The channel is flushed: what is asked and served stays.
LEMMA FlushVerdict ==
    ASSUME Types, Channel!Flush
    PROVE  /\ Asked' = Asked /\ \A i \in 1..Len(sent) : sent'[i] = sent[i]
           /\ answered' = answered => Served' = Served
<1>1. Requested' = Requested /\ \A i \in 1..Len(sent) : sent'[i] = sent[i]
  BY FlushIs, Zenon
<1>2. Asked' = Asked
  BY <1>1, Zenon DEF Asked, Count, Answers
<1>3. answered' = answered => Served' = Served
  BY <1>1, ServedSame, Zenon
<1>4. QED
  BY <1>1, <1>2, <1>3

\* What is answered was asked for.
LEMMA ServedAsked ==
    ASSUME Types, NEW n \in 0..Len(sent)
    PROVE  Count(sent, n) <= Asked /\ Asked \in Nat /\ Count(sent, n) \in Nat
<1>1. queue \in Seq(Request) /\ sent \in Seq(Request)
  BY Zenon DEF Types
<1>2. /\ Len(sent) \in Nat /\ Len(queue) \in Nat /\ Len(Requested) = Len(sent) + Len(queue)
      /\ \A i \in 1..Len(sent) : Requested[i] = sent[i]
  BY <1>1, ConcatProperties, LenProperties DEF Requested
<1>3. n \in Nat /\ Len(Requested) \in Nat /\ n <= Len(Requested) /\ \A i \in 1..n : i \in 1..Len(sent)
  BY <1>2
<1>4. Count(Requested, n) = Count(sent, n)
  BY <1>2, <1>3, CountSame, Zenon
<1>5. Count(Requested, n) <= Count(Requested, Len(Requested))
  BY <1>3, CountMore, Zenon
<1>6. QED
  BY <1>3, <1>4, <1>5, CountNumber, Zenon DEF Asked
-----------------------------------------------------------------------------
LEMMA AnswersVerdict ==
    ASSUME IInv, VerdictInv, Channel!Answers
    PROVE  VerdictInv'
<1> DEFINE n == answered + 1
           L == Len(deferred)
<1>1. Types /\ Linked /\ Reporting /\ IInv'
  BY AnswersKeep, Zenon DEF IInv
<1>2. /\ alive /\ report = <<>> /\ state # "closed" /\ answered < Len(sent)
      /\ answered' = answered + 1 /\ alive' = alive
  BY DEF Channel!Answers
<1>3. n \in 1..Len(sent) /\ n \in 0..Len(sent) /\ answered \in Nat /\ sent \in Seq(Request)
  BY <1>1, <1>2 DEF Types
<1>4. /\ Served = Frontier /\ InStep /\ Judged(deferred, Served) /\ Ahead(deferred, Frontier)
      /\ ReportEnds
  BY <1>2, Zenon DEF VerdictInv
<1>5. Frontier = IF oldest = 0 THEN L ELSE oldest - 1
  <2>1. ~Telling
    BY <1>2 DEF Telling
  <2>2. QED
    BY <2>1, Zenon DEF Frontier
<1>6. Served \in Nat /\ L \in Nat /\ oldest \in 0..L
  <2>1. Served \in Nat
    BY <1>3, CountNumber, Zenon DEF Served
  <2>2. L \in Nat /\ oldest \in 0..L
    BY <1>1, DeferredLength, Zenon DEF Linked, LinkedFrom
  <2>3. QED
    BY <2>1, <2>2
<1>7. Count(sent, n) = IF sent[n].kind \in {"declare", "close"} THEN Served + 1 ELSE Served
  BY <1>3, CountNext, Zenon DEF Served
<1>8. ASSUME \A i \in 1..Len(sent) : sent'[i] = sent[i]
      PROVE  Served' = Count(sent, n)
  <2>1. n \in Nat /\ \A i \in 1..n : i \in 1..Len(sent)
    BY <1>3
  <2>2. Count(sent', n) = Count(sent, n)
    BY <1>8, <2>1, CountSame, Zenon
  <2>3. answered' = n
    BY <1>2
  <2>4. QED
    BY <2>2, <2>3, Zenon DEF Served, Count, Answers
<1> HIDE DEF n, L
<1>9. ASSUME sent[n].kind \notin {"declare", "close"}, sent' = sent, queue' = queue,
             oldest' = oldest, deferred' = deferred, state' # "closed" => state # "closed",
             Channel!Usable' => Channel!Usable, ~Telling' /\ ReportEnds'
      PROVE  VerdictInv'
  <2>1. Served' = Served
    BY <1>7, <1>8, <1>9, Zenon
  <2>2. Asked' = Asked
    BY <1>9, Zenon DEF Asked, Requested, Count, Answers
  <2>3. Frontier' = Frontier
    <3>1. Frontier' = IF oldest = 0 THEN L ELSE oldest - 1
      BY <1>9, Zenon DEF Frontier, L
    <3>2. QED
      BY <1>5, <3>1, Zenon
  <2>4. QED
    BY <1>1, <1>2, <1>9, <2>1, <2>2, <2>3, VerdictSame, Zenon
<1>10. CASE sent[n].kind = "open" /\ Channel!ReportReady
  <2> DEFINE q == [at |-> "ready"]
  <2>1. /\ sent' = sent /\ queue' = queue /\ oldest' = oldest /\ deferred' = deferred
        /\ state' = (IF state = "connected" THEN "ready" ELSE state) /\ report' = <<q>>
    BY <1>10 DEF Channel!ReportReady
  <2>2. sent[n].kind \notin {"declare", "close"} /\ (state' # "closed" => state # "closed")
    BY <1>2, <1>10
  <2>3. Channel!Usable' => Channel!Usable
    BY <2>1 DEF Channel!Usable
  <2>4. q.at \notin {"error", "success"}
    OBVIOUS
  <2> HIDE DEF q
  <2>5. ~Telling' /\ ReportEnds'
    BY <2>1, <2>4, NobodyTold, Zenon
  <2>6. QED
    BY <1>9, <2>1, <2>2, <2>3, <2>5, Zenon
<1>11. CASE sent[n].kind = "publish" /\ UNCHANGED <<Channel!channel, report, sent>>
  <2>1. /\ sent' = sent /\ queue' = queue /\ oldest' = oldest /\ deferred' = deferred
        /\ state' = state /\ report' = <<>>
    BY <1>2, <1>11 DEF Channel!channel
  <2>2. sent[n].kind \notin {"declare", "close"} /\ (state' # "closed" => state # "closed")
    BY <1>2, <1>11
  <2>3. Channel!Usable' => Channel!Usable
    BY <2>1 DEF Channel!Usable
  <2>4. ~Telling' /\ ReportEnds'
    BY <2>1, NobodyTold, Zenon
  <2>5. QED
    BY <1>9, <2>1, <2>2, <2>3, <2>4, Zenon
<1>12. ASSUME sent[n].kind \notin {"open", "publish"}, NEW c \in BOOLEAN, Channel!ReportSuccess(c)
       PROVE  VerdictInv'
  <2>1. sent[n].kind \in {"declare", "close"}
    <3>1. sent[n] \in Request
      BY <1>3, ElementOfSeq, Zenon
    <3>2. sent[n].kind \in {"open", "declare", "close", "publish"}
      BY <3>1 DEF Request
    <3>3. QED
      BY <1>12, <3>2
  <2>2. Count(sent, n) = Served + 1
    BY <1>7, <2>1, Zenon
  <2>3. Count(sent, n) <= Asked /\ Asked \in Nat /\ Asked <= L
    BY <1>1, <1>3, <1>4, ServedAsked, Zenon DEF InStep, L
  <2>4. oldest # 0 /\ oldest = Served + 1 /\ Served + 1 \in 1..L /\ oldest \in Nat
    BY <1>4, <1>5, <1>6, <2>2, <2>3
  <2> DEFINE r == [at |-> "success", cb |-> oldest, closed |-> c]
  <2>5. /\ Channel!Flush /\ deferred' = Channel!Tell(oldest, "success") /\ report' = <<r>>
        /\ oldest' = oldest /\ state' = IF c THEN "closed" ELSE state
    BY <1>12, <2>4, Zenon DEF Channel!ReportSuccess
  <2>6. Asked' = Asked /\ \A i \in 1..Len(sent) : sent'[i] = sent[i]
    BY <1>1, <2>5, FlushVerdict, Zenon
  <2>7. Served' = Served + 1
    BY <1>8, <2>2, <2>6, Zenon
  <2>8. r \in ReportRec /\ r.at = "success" /\ r.closed = c
    BY <2>4 DEF ReportRec
  <2> HIDE DEF r
  <2>9. Telling' /\ ReportEnds'
    <3>1. r.at \in {"error", "success"} /\ ((r.at = "success" /\ ~r.closed) \/ state' = "closed")
      BY <2>5, <2>8
    <3>2. QED
      BY <2>5, <2>8, <3>1, SomeoneTold, Zenon
  <2>10. Frontier' = oldest
    BY <2>4, <2>5, <2>9, Zenon DEF Frontier
  <2>11. Judged(deferred', Served + 1) /\ Ahead(deferred', Served + 1)
    <3> DEFINE m == Served
    <3>1. m \in Nat /\ m + 1 \in Nat /\ m + 1 \in 1..Len(deferred) /\ "success" \in Told
      BY <1>6, <2>4 DEF L, Told
    <3>2. Judged(deferred, m) /\ Ahead(deferred, m) /\ deferred' = Channel!Tell(m + 1, "success")
      BY <1>4, <2>4, <2>5
    <3> HIDE DEF m
    <3>3. Judged(deferred', m + 1) /\ Ahead(deferred', m + 1)
      BY <1>1, <3>1, <3>2, TellVerdict
    <3>4. QED
      BY <3>3, Zenon DEF m
  <2>12. Judged(deferred', Served') /\ Ahead(deferred', Frontier') /\ Served' <= Frontier'
    BY <1>6, <2>4, <2>7, <2>10, <2>11
  <2>13. ASSUME state' # "closed" PROVE Served' = Frontier' /\ InStep'
    <3>1. state' = state
      BY <2>5, <2>13
    <3>2. /\ Len(deferred') = Len(deferred)
          /\ \A j \in 1..Len(deferred) : deferred'[j].failed = deferred[j].failed
      BY <1>1, <2>4, <2>5, TellIs, Zenon DEF L
    <3>3. \A j \in 1..Asked : j \in 1..Len(deferred)
      BY <1>6, <2>3 DEF L
    <3>4. InStep'
      BY <1>4, <2>6, <3>1, <3>2, <3>3, Zenon DEF InStep, Channel!Usable
    <3>5. QED
      BY <2>4, <2>7, <2>10, <3>4
  <2>14. QED
    BY <1>1, <2>9, <2>12, <2>13, VerdictNext, Zenon
<1>13. \/ sent[n].kind = "open" /\ Channel!ReportReady
       \/ sent[n].kind = "publish" /\ UNCHANGED <<Channel!channel, report, sent>>
       \/ sent[n].kind \notin {"open", "publish"} /\ \E c \in BOOLEAN : Channel!ReportSuccess(c)
  BY DEF Channel!Answers, n
<1>14. QED
  BY <1>10, <1>11, <1>12, <1>13, Zenon

LEMMA RefusesVerdict ==
    ASSUME IInv, VerdictInv, Channel!Refuses
    PROVE  VerdictInv'
<1>1. Types /\ Linked /\ Reporting /\ IInv'
  BY RefusesKeep, Zenon DEF IInv
<1>2. /\ alive /\ report = <<>> /\ alive' = alive /\ answered' = answered /\ sent' = sent
      /\ state' = "closed" /\ Channel!ReportsError(TRUE, oldest, deferred)
  BY DEF Channel!Refuses, Channel!ReportError
<1>3. Served' = Served /\ Served \in Nat
  BY <1>1, <1>2, ServedSame
<1>4. Served <= Frontier /\ Judged(deferred, Served) /\ Ahead(deferred, Frontier)
  BY <1>2, Zenon DEF VerdictInv
<1>5. LinkedFrom(oldest) /\ Frontier \in Nat
  <2>1. Frontier \in 0..Len(deferred) /\ Len(deferred) \in Nat
    BY <1>1, FrontierHolds, Zenon
  <2>2. Frontier \in Nat
    BY <2>1
  <2>3. QED
    BY <1>1, <2>2, Zenon DEF Linked
<1>6. IF oldest = 0 THEN Frontier = Len(deferred) ELSE Frontier = oldest - 1
  <2>1. ~Telling
    BY <1>2 DEF Telling
  <2>2. QED
    BY <2>1, Zenon DEF Frontier
<1>7. /\ Judged(deferred', Served') /\ Ahead(deferred', Frontier') /\ ReportEnds'
      /\ Served' <= Frontier'
  <2> DEFINE m == Served
             f == Frontier
  <2>1. /\ m \in Nat /\ f \in Nat /\ m <= f /\ Judged(deferred, m) /\ Ahead(deferred, f)
        /\ IF oldest = 0 THEN f = Len(deferred) ELSE f = oldest - 1
    BY <1>3, <1>4, <1>5, <1>6
  <2> HIDE DEF m, f
  <2>2. /\ Judged(deferred', m) /\ Ahead(deferred', Frontier') /\ ReportEnds' /\ m <= Frontier'
    BY <1>1, <1>2, <1>5, <2>1, ErrorVerdict
  <2>3. QED
    BY <1>3, <2>2, Zenon DEF m
<1>8. QED
  BY <1>1, <1>2, <1>7, VerdictNext, Zenon
-----------------------------------------------------------------------------
\* The channel stays as it is, but for a report that ends and for what is flushed.
LEMMA ReturnsVerdict ==
    ASSUME IInv, VerdictInv, Channel!Returns
    PROVE  VerdictInv'
<1>1. Types /\ Linked /\ Reporting /\ IInv'
  BY ReturnsKeep, Zenon DEF IInv
<1>2. alive' = alive /\ answered' = answered /\ Served \in Nat
  <2>1. answered \in Nat
    BY <1>1 DEF Types
  <2>2. Served \in Nat
    BY <2>1, CountNumber, Zenon DEF Served
  <2>3. QED
    BY <2>2 DEF Channel!Returns
<1>3. PICK top \in ReportRec : report = <<top>>
  BY <1>1, Zenon DEF Channel!Returns, Types
<1>4. Channel!Top = top /\ \A q : report = <<q>> => q = top
  BY <1>3 DEF Channel!Top
<1>5. ReportEnds /\ (alive => Served <= Frontier /\ Judged(deferred, Served) /\ Ahead(deferred, Frontier))
  BY Zenon DEF VerdictInv
<1>6. ASSUME sent' = sent PROVE Served' = Served
  BY <1>1, <1>2, <1>6, ServedSame
<1>7. ASSUME sent' = sent, queue' = queue PROVE Asked' = Asked
  BY <1>7, Zenon DEF Asked, Requested, Count, Answers
<1>8. ASSUME report' = <<>>, sent' = sent, deferred' = deferred, ~alive PROVE VerdictInv'
  <2>1. ReportEnds'
    BY <1>8, NobodyTold, Zenon
  <2>2. QED
    BY <1>2, <1>6, <1>8, <2>1, VerdictDead, Zenon
<1>9. ASSUME top.at \notin {"error", "success"}, report' = <<>>, state' = state,
             oldest' = oldest, deferred' = deferred, Served' = Served, Asked' = Asked
      PROVE  VerdictInv'
  <2>1. ~Telling
    BY <1>4, <1>9, Zenon DEF Telling
  <2>2. ~Telling' /\ ReportEnds'
    BY <1>9, NobodyTold, Zenon
  <2>3. Frontier' = Frontier
    BY <1>9, <2>1, <2>2, Zenon DEF Frontier
  <2>4. Channel!Usable' => Channel!Usable
    BY <1>9, Zenon DEF Channel!Usable
  <2>5. QED
    BY <1>1, <1>2, <1>9, <2>2, <2>3, <2>4, VerdictSame, Zenon
<1>10. CASE Channel!Ready
  <2>1. /\ top.at = "ready" /\ report' = <<>> /\ state' = state
        /\ oldest' = oldest /\ deferred' = deferred
        /\ \/ Channel!Flush
           \/ queue' = queue /\ sent' = sent
    BY <1>4, <1>10, Zenon DEF Channel!Ready
  <2>2. Served' = Served /\ Asked' = Asked
    BY <1>1, <1>2, <1>6, <1>7, <2>1, FlushVerdict, Zenon
  <2>3. top.at \notin {"error", "success"}
    BY <2>1
  <2>4. QED
    BY <1>9, <2>1, <2>2, <2>3, Zenon
<1>11. CASE Channel!Notified
  <2>1. /\ top.at = "notify" /\ report' = <<>> /\ state' = state /\ queue' = queue
        /\ oldest' = oldest /\ deferred' = deferred /\ sent' = sent
    BY <1>4, <1>11 DEF Channel!Notified, Channel!channel
  <2>2. Served' = Served /\ Asked' = Asked
    BY <1>6, <1>7, <2>1, Zenon
  <2>3. top.at \notin {"error", "success"}
    BY <2>1
  <2>4. QED
    BY <1>9, <2>1, <2>2, <2>3, Zenon
<1> DEFINE next == deferred[oldest].next
           L == Len(deferred)
<1>12. ASSUME top.at \in {"error", "success"}
       PROVE  /\ oldest # 0 /\ top.cb = oldest /\ Frontier = oldest /\ oldest \in Nat
              /\ L \in Nat /\ LinkedFrom(next)
              /\ next = 0 => oldest = L
              /\ next # 0 => next - 1 = oldest
  <2>1. oldest # 0 /\ top.cb = oldest /\ deferred[oldest].told # <<>>
    BY <1>1, <1>3, <1>12, Zenon DEF Reporting
  <2>2. Telling
    BY <1>3, <1>12, Zenon DEF Telling
  <2>3. Frontier = oldest
    BY <2>1, <2>2, Zenon DEF Frontier
  <2>4. LinkedFrom(next)
    BY <1>1, <2>1, NextLinked, Zenon
  <2>5. /\ L \in Nat /\ oldest \in 0..L
        /\ \A d \in oldest..L : deferred[d].next = IF d = L THEN 0 ELSE d + 1
    BY <1>1, <2>1, DeferredLength DEF Linked, LinkedFrom
  <2> HIDE DEF L
  <2>6. oldest \in Nat /\ oldest \in oldest..L
    BY <2>5
  <2>7. next = IF oldest = L THEN 0 ELSE oldest + 1
    BY <2>5, <2>6
  <2> HIDE DEF next
  <2>8. (next = 0 => oldest = L) /\ (next # 0 => next - 1 = oldest)
    BY <2>6, <2>7
  <2>9. QED
    BY <2>1, <2>3, <2>4, <2>5, <2>6, <2>8, Zenon
<1> HIDE DEF next
<1>13. ASSUME alive, top.at \in {"error", "success"}, NEW n \in BOOLEAN, sent' = sent,
              Channel!ReportsError(n, next, deferred), state' = "closed"
       PROVE  VerdictInv'
  <2> DEFINE f == oldest
             m == Served
  <2>1. /\ f \in Nat /\ m \in Nat /\ m <= f /\ Judged(deferred, m) /\ Ahead(deferred, f)
        /\ Served' = m
    BY <1>2, <1>5, <1>6, <1>12, <1>13
  <2>2. IF next = 0 THEN f = Len(deferred) ELSE f = next - 1
    BY <1>12, <1>13
  <2>3. LinkedFrom(next)
    BY <1>12, <1>13
  <2> HIDE DEF f, m
  <2>4. /\ Judged(deferred', m) /\ Ahead(deferred', Frontier') /\ ReportEnds' /\ m <= Frontier'
    BY <1>1, <1>13, <2>1, <2>2, <2>3, ErrorVerdict
  <2>5. Judged(deferred', Served') /\ Served' <= Frontier'
    BY <2>1, <2>4
  <2>6. QED
    BY <1>1, <1>13, <2>4, <2>5, VerdictNext, Zenon
<1>14. CASE Channel!Success
  <2>1. top.at = "success" /\ top.at \in {"error", "success"}
    BY <1>4, <1>14 DEF Channel!Success
  <2>2. CASE ~alive
    <3>1. report' = <<>> /\ deferred' = deferred /\ sent' = sent
      BY <1>14, <2>2 DEF Channel!Success, Channel!channel
    <3>2. QED
      BY <1>8, <2>2, <3>1
  <2>3. CASE alive /\ top.closed
    <3>1. /\ state' = state /\ sent' = sent
          /\ Channel!ReportsError(FALSE, deferred[top.cb].next, deferred)
      BY <1>4, <1>14, <2>3, Zenon DEF Channel!Success
    <3>2. state = "closed"
      BY <1>3, <1>5, <2>1, <2>3, Zenon DEF ReportEnds
    <3>3. deferred[top.cb].next = next
      BY <1>12, <2>1 DEF next
    <3>4. FALSE \in BOOLEAN /\ state' = "closed" /\ Channel!ReportsError(FALSE, next, deferred)
      BY <3>1, <3>2, <3>3
    <3>5. QED
      BY <1>13, <2>1, <2>3, <3>1, <3>4
  <2>4. CASE alive /\ ~top.closed
    <3>1. /\ state' = state /\ sent' = sent /\ queue' = queue /\ deferred' = deferred
          /\ oldest' = deferred[top.cb].next /\ report' = <<>>
      BY <1>4, <1>14, <2>4, Zenon DEF Channel!Success
    <3>2. oldest' = next
      BY <1>12, <2>1, <3>1 DEF next
    <3>3. ~Telling' /\ ReportEnds'
      BY <3>1, NobodyTold, Zenon
    <3>4. Frontier' = Frontier
      <4>1. Frontier' = IF next = 0 THEN L ELSE next - 1
        BY <3>1, <3>2, <3>3, Zenon DEF Frontier
      <4>2. QED
        BY <1>12, <2>1, <4>1
    <3>5. Served' = Served /\ Asked' = Asked /\ (Channel!Usable' => Channel!Usable)
      <4>1. Served' = Served /\ Asked' = Asked
        BY <1>6, <1>7, <3>1
      <4>2. Channel!Usable' => Channel!Usable
        BY <3>1, Zenon DEF Channel!Usable
      <4>3. QED
        BY <4>1, <4>2
    <3>6. QED
      BY <1>1, <1>2, <3>1, <3>3, <3>4, <3>5, VerdictSame, Zenon
  <2>5. QED
    BY <2>2, <2>3, <2>4
<1>15. CASE Channel!Error
  <2>1. top.at = "error" /\ top.at \in {"error", "success"}
    BY <1>4, <1>15 DEF Channel!Error
  <2>2. state' = state /\ sent' = sent /\ state = "closed"
    <3>1. state' = state /\ sent' = sent
      BY <1>15, Zenon DEF Channel!Error
    <3>2. state = "closed"
      BY <1>3, <1>5, <2>1, Zenon DEF ReportEnds
    <3>3. QED
      BY <3>1, <3>2
  <2>3. CASE ~alive
    <3>1. report' = <<>> /\ deferred' = deferred
      BY <1>15, <2>3, Zenon DEF Channel!Error
    <3>2. QED
      BY <1>8, <2>2, <2>3, <3>1
  <2>4. CASE alive
    <3>1. Channel!ReportsError(top.notify, deferred[top.cb].next, deferred)
      BY <1>4, <1>15, <2>4, Zenon DEF Channel!Error
    <3>2. deferred[top.cb].next = next /\ state' = "closed"
      BY <1>12, <2>1, <2>2 DEF next
    <3>3. top.notify \in BOOLEAN
      BY <2>1 DEF ReportRec
    <3>4. QED
      BY <1>13, <2>1, <2>2, <2>4, <3>1, <3>2, <3>3
  <2>5. QED
    BY <2>3, <2>4
<1>16. QED
  BY <1>10, <1>11, <1>14, <1>15, Zenon DEF Channel!Returns
-----------------------------------------------------------------------------
\* A Deferred is made, for a request that is sent or queued, or for none.
LEMMA PushStep ==
    ASSUME IInv, VerdictInv, IInv', alive, alive' = alive, Served' = Served, report' = report,
           NEW k \in Answerable, NEW b \in BOOLEAN, Channel!Push(k, b),
           state = "closed" => state' = "closed",
           \/ Asked' = Asked /\ ~Channel!Usable'
           \/ Asked' = Asked + 1 /\ Channel!Usable /\ ~b
    PROVE  VerdictInv'
<1> DEFINE L == Len(deferred)
<1>1. Types /\ Linked /\ Reporting
  BY Zenon DEF IInv
<1>2. /\ Judged(deferred, Served) /\ Served <= Frontier /\ Ahead(deferred, Frontier) /\ ReportEnds
      /\ state # "closed" => Served = Frontier /\ InStep
  BY Zenon DEF VerdictInv
<1>3. Served \in Nat /\ Asked \in Nat
  <2>1. answered \in 0..Len(sent) /\ answered \in Nat
    BY <1>1 DEF Types
  <2>2. Served \in Nat
    BY <2>1, CountNumber, Zenon DEF Served
  <2>3. Asked \in Nat
    BY <1>1, <2>1, ServedAsked, Zenon
  <2>4. QED
    BY <2>2, <2>3
<1>4. Frontier \in 0..L /\ L \in Nat
  BY <1>1, FrontierHolds, Zenon
<1>5. Judged(deferred', Served) /\ Ahead(deferred', Frontier)
  <2> DEFINE n == Served
             f == Frontier
  <2>1. /\ n \in Nat /\ f \in Nat /\ n <= f /\ f <= Len(deferred)
        /\ Judged(deferred, n) /\ Ahead(deferred, f)
    BY <1>2, <1>3, <1>4
  <2> HIDE DEF n, f
  <2>2. Judged(deferred', n) /\ Ahead(deferred', f)
    BY <1>1, <2>1, PushVerdict
  <2>3. QED
    BY <2>2, Zenon DEF n, f
<1>6. /\ Len(deferred') = L + 1
      /\ \A d \in 1..L : deferred'[d].failed = deferred[d].failed
      /\ deferred'[L + 1].failed = b
  BY <1>1, PushLinks
<1>7. oldest' = IF oldest = 0 THEN L + 1 ELSE oldest
  BY DEF Channel!Push
<1>8. (Telling' <=> Telling) /\ (Telling => oldest # 0)
  BY <1>1, Zenon DEF Telling, Reporting
<1> HIDE DEF L
<1>9. Frontier' = Frontier
  <2>1. CASE oldest = 0
    <3>1. oldest' = L + 1 /\ L + 1 # 0 /\ (L + 1) - 1 = L
      BY <1>4, <1>7, <2>1
    <3>2. Frontier = L /\ Frontier' = oldest' - 1
      BY <1>8, <2>1, <3>1, Zenon DEF Frontier, L
    <3>3. QED
      BY <3>1, <3>2
  <2>2. CASE oldest # 0
    <3>1. oldest' = oldest
      BY <1>7, <2>2
    <3>2. QED
      BY <1>8, <2>2, <3>1, Zenon DEF Frontier
  <2>3. QED
    BY <2>1, <2>2
<1>10. ReportEnds'
  BY <1>2, Zenon DEF ReportEnds
<1>11. ASSUME state' # "closed" PROVE Served' = Frontier' /\ InStep'
  <2>1. Served = Frontier /\ InStep
    BY <1>2, <1>11
  <2>2. /\ Asked <= L /\ (Channel!Usable => Asked = L)
        /\ \A d \in 1..Asked : ~deferred[d].failed
    BY <2>1, Zenon DEF InStep, L
  <2>3. Asked' <= L + 1 /\ (Channel!Usable' => Asked' = L + 1)
    BY <1>3, <1>4, <2>2
  <2>4. ASSUME NEW d \in 1..Asked' PROVE ~deferred'[d].failed
    <3>1. CASE d \in 1..Asked
      <4>1. d \in 1..L
        BY <1>3, <1>4, <2>2, <3>1
      <4>2. QED
        BY <1>6, <2>2, <3>1, <4>1, Zenon
    <3>2. CASE d \notin 1..Asked
      <4>1. d = L + 1 /\ ~b
        BY <1>3, <1>4, <2>2, <3>2
      <4>2. QED
        BY <1>6, <4>1
    <3>3. QED
      BY <3>1, <3>2
  <2>5. InStep'
    BY <1>6, <2>3, <2>4, Zenon DEF InStep
  <2>6. QED
    BY <1>9, <2>1, <2>5
<1>12. Judged(deferred', Served') /\ Ahead(deferred', Frontier') /\ Served' <= Frontier'
  BY <1>2, <1>5, <1>9
<1>13. QED
  BY <1>10, <1>11, <1>12, VerdictNext, Zenon

LEMMA RequestsVerdict ==
    ASSUME IInv, VerdictInv, NEW k \in {"declare", "publish", "close"}, Channel!Requests(k),
           k = "close" => Channel!Usable
    PROVE  VerdictInv'
<1> DEFINE r == [kind |-> k, id |-> made + 1]
<1>1. Types /\ Linked /\ Reporting /\ IInv'
  BY RequestsKeep, Zenon DEF IInv
<1>2. /\ alive /\ alive' = alive /\ Channel!Send(r) /\ answered' = answered /\ report' = report
      /\ state' = IF k = "close" THEN "closing" ELSE state
      /\ IF k = "publish" THEN oldest' = oldest /\ newest' = newest /\ deferred' = deferred
                          ELSE Channel!Push(k, state = "closed")
  BY Zenon DEF Channel!Requests
<1>3. r \in Request /\ r.kind = k
  <2>1. made + 1 \in Nat
    BY <1>1, AmqpObjectsAssumption DEF Types
  <2>2. QED
    BY <2>1 DEF Request
<1> HIDE DEF r
<1>4. sent \in Seq(Request) /\ queue \in Seq(Request) /\ Requested \in Seq(Request)
  BY <1>1, ConcatProperties, Zenon DEF Types, Requested
<1>5. /\ Requested' = IF Channel!Usable THEN Append(Requested, r) ELSE Requested
      /\ sent' = sent \/ sent' = Append(sent, r)
  BY <1>1, <1>2, <1>3, SendIs, Zenon
<1>6. Served' = Served
  <2>1. \A i \in 1..Len(sent) : sent'[i] = sent[i]
    BY <1>4, <1>5, AppendProperties
  <2>2. QED
    BY <1>1, <1>2, <2>1, ServedSame, Zenon
<1>7. Asked' = IF Channel!Usable /\ k # "publish" THEN Asked + 1 ELSE Asked
  <2>1. CASE Channel!Usable
    <3>1. Requested' = Append(Requested, r)
      BY <1>5, <2>1
    <3>2. Asked' = Count(Append(Requested, r), Len(Append(Requested, r)))
      BY <3>1, Zenon DEF Asked, Count, Answers
    <3>3. Asked' = IF k \in {"declare", "close"} THEN Asked + 1 ELSE Asked
      BY <1>3, <1>4, <3>2, CountAppend, Zenon DEF Asked
    <3>4. k \in {"declare", "close"} <=> k # "publish"
      OBVIOUS
    <3>5. QED
      BY <2>1, <3>3, <3>4, Zenon
  <2>2. CASE ~Channel!Usable
    <3>1. Requested' = Requested
      BY <1>5, <2>2
    <3>2. QED
      BY <2>2, <3>1, Zenon DEF Asked, Count, Answers
  <2>3. QED
    BY <2>1, <2>2
<1>8. /\ Channel!Usable' => Channel!Usable
      /\ state = "closed" => state' = "closed"
      /\ state' # "closed" => state # "closed"
      /\ Channel!Usable => state # "closed"
  BY <1>2 DEF Channel!Usable
<1>9. CASE k = "publish"
  <2>1. oldest' = oldest /\ deferred' = deferred /\ Asked' = Asked /\ state' = state
    BY <1>2, <1>7, <1>9
  <2>2. ReportEnds'
    <3>1. ReportEnds
      BY Zenon DEF VerdictInv
    <3>2. QED
      BY <1>2, <2>1, <3>1, Zenon DEF ReportEnds
  <2>3. Frontier' = Frontier
    BY <1>2, <2>1, Zenon DEF Frontier, Telling
  <2>4. QED
    BY <1>1, <1>2, <1>6, <1>8, <2>1, <2>2, <2>3, VerdictSame, Zenon
<1>10. CASE k # "publish"
  <2>1. Channel!Push(k, state = "closed") /\ k \in Answerable /\ (state = "closed") \in BOOLEAN
    BY <1>2, <1>10 DEF Answerable
  <2>2. \/ Asked' = Asked /\ ~Channel!Usable'
        \/ Asked' = Asked + 1 /\ Channel!Usable /\ ~(state = "closed")
    BY <1>7, <1>8, <1>10, Zenon
  <2>3. QED
    BY <1>1, <1>2, <1>6, <1>8, <2>1, <2>2, PushStep, Zenon
<1>11. QED
  BY <1>9, <1>10

LEMMA CloseAgainVerdict ==
    ASSUME IInv, VerdictInv, Channel!CloseAgain
    PROVE  VerdictInv'
<1>1. Types /\ IInv'
  BY CloseAgainKeeps, Zenon DEF IInv
<1>2. /\ alive /\ alive' = alive /\ ~Channel!Usable /\ Channel!Push("close again", state = "closing")
      /\ state' = state /\ queue' = queue /\ report' = report /\ sent' = sent
      /\ answered' = answered
  BY DEF Channel!CloseAgain
<1>3. Served' = Served /\ Asked' = Asked /\ ~Channel!Usable'
  BY <1>2, Zenon DEF Served, Asked, Requested, Count, Answers, Channel!Usable
<1>4. "close again" \in Answerable /\ (state = "closing") \in BOOLEAN
  BY DEF Answerable
<1>5. QED
  BY <1>1, <1>2, <1>3, <1>4, PushStep, Zenon

\* A step of another part.
LEMMA ElsewhereVerdict ==
    ASSUME VerdictInv, UNCHANGED channelVars
    PROVE  VerdictInv'
<1>1. /\ state' = state /\ queue' = queue /\ oldest' = oldest /\ deferred' = deferred
      /\ report' = report /\ alive' = alive /\ sent' = sent /\ answered' = answered
  BY DEF channelVars
<1>2. Served' = Served /\ Asked' = Asked /\ (Channel!Usable' <=> Channel!Usable)
  BY <1>1, Zenon DEF Served, Asked, Requested, Count, Answers, Channel!Usable
<1>3. Frontier' = Frontier /\ (ReportEnds => ReportEnds')
  BY <1>1, Zenon DEF Frontier, Telling, ReportEnds
<1>4. InStep => InStep'
  BY <1>1, <1>2, Zenon DEF InStep
<1>5. QED
  BY <1>1, <1>2, <1>3, <1>4, Zenon DEF VerdictInv, Judged, ToldInTurn, Ahead

LEMMA DestroyVerdict ==
    ASSUME VerdictInv, Channel!Destroy
    PROVE  VerdictInv'
<1>1. /\ ~alive' /\ deferred' = deferred /\ sent' = sent /\ answered' = answered
      /\ report' = report /\ state' = state
  BY DEF Channel!Destroy, Channel!channel
<1>2. Served' = Served
  BY <1>1, Zenon DEF Served, Count, Answers
<1>3. ReportEnds'
  BY <1>1, Zenon DEF VerdictInv, ReportEnds
<1>4. QED
  BY <1>1, <1>2, <1>3, VerdictDead, Zenon

LEMMA VerdictStep ==
    ASSUME IInv, VerdictInv, [Next]_vars
    PROVE  VerdictInv'
<1>1. CASE part = "channel" /\ Channel!Next
  <2>1. CASE Channel!Declare \/ Channel!DeclareQueue \/ Channel!Consume
    BY <2>1, RequestsVerdict, "declare" # "close", Zenon
       DEF Channel!Declare, Channel!DeclareQueue, Channel!Consume
  <2>2. CASE Channel!Publish \/ Channel!Acknowledge
    BY <2>2, RequestsVerdict, "publish" # "close", Zenon DEF Channel!Publish, Channel!Acknowledge
  <2>3. CASE Channel!Close
    BY <2>3, RequestsVerdict, Zenon DEF Channel!Close
  <2>4. QED
    BY <1>1, <2>1, <2>2, <2>3, AnswersVerdict, RefusesVerdict, ReturnsVerdict,
       CloseAgainVerdict, DestroyVerdict, Zenon DEF Channel!Next
<1>2. CASE UNCHANGED channelVars
  BY <1>2, ElsewhereVerdict
<1>3. (part = "channel" /\ Channel!Next) \/ UNCHANGED channelVars
  BY Zenon DEF Next, vars, Channel!Next, ChannelStep, DeferredStep, DeliveryStep, ValueStep
<1>4. QED
  BY <1>1, <1>2, <1>3

LEMMA VerdictStarts == Init => VerdictInv
<1> SUFFICES ASSUME Init PROVE VerdictInv
  OBVIOUS
<1> DEFINE open == [kind |-> "open", id |-> 0]
<1>1. /\ state = "connected" /\ queue = <<>> /\ oldest = 0 /\ deferred = <<>>
      /\ report = <<>> /\ alive = TRUE /\ sent = <<open>> /\ answered = 0
  BY DEF Init, Channel!Init
<1>2. open.kind \notin {"declare", "close"}
  OBVIOUS
<1> HIDE DEF open
<1>3. Served = 0
  BY <1>1, CountNone, Zenon DEF Served
<1>4. Asked = 0
  <2>1. Requested = <<open>> /\ Len(Requested) = 0 + 1 /\ Requested[0 + 1] = open
    BY <1>1 DEF Requested
  <2>2. Count(Requested, 0 + 1) = Count(Requested, 0)
    BY <1>2, <2>1, CountNext
  <2>3. QED
    BY <2>1, <2>2, CountNone, Zenon DEF Asked
<1>5. Frontier = 0 /\ Len(deferred) = 0
  BY <1>1 DEF Frontier
<1>6. ReportEnds
  <2>1. \A q : report # <<q>>
    BY <1>1
  <2>2. QED
    BY <2>1, Zenon DEF ReportEnds
<1>7. Judged(deferred, Served) /\ ToldInTurn(deferred) /\ Ahead(deferred, Frontier)
  BY <1>5 DEF Judged, ToldInTurn, Ahead
<1>8. InStep
  BY <1>4, <1>5 DEF InStep
<1>9. QED
  BY <1>3, <1>5, <1>6, <1>7, <1>8 DEF VerdictInv

\* The channel counts as its surroundings do.
LEMMA SameCardinality == \A S : Channel!Cardinality(S) = Cardinality(S)
BY DEF Channel!Cardinality, Cardinality

\* What the run checks follows from the invariant.
LEMMA VerdictsHeld ==
    ASSUME Types, VerdictInv
    PROVE  Verdicts
<1>1. DOMAIN deferred = 1..Len(deferred)
  BY DeferredLength, Zenon
<1>2. Judged(deferred, Served) /\ ToldInTurn(deferred)
  BY Zenon DEF VerdictInv
<1>3. Served = Cardinality({i \in 1..answered : sent[i].kind \in {"declare", "close"}})
  BY Zenon DEF Served, Count, Answers
<1>4. \A d \in DOMAIN deferred : ~deferred[d].failed =>
         /\ deferred[d].told \in {<<>>, <<"success">>, <<"error">>}
         /\ deferred[d].told = <<"success">> <=> d <= Served
         /\ deferred[d].told # <<>> => \A e \in 1..(d - 1) : deferred[e].told # <<>>
  BY <1>1, <1>2, Zenon DEF Judged, ToldInTurn
<1>5. Served = Channel!Cardinality({i \in 1..answered : sent[i].kind \in {"declare", "close"}})
  BY <1>3, SameCardinality, Zenon
<1>6. Channel!Verdicts
  BY <1>4, <1>5, Zenon DEF Channel!Verdicts, Channel!Deferreds
<1>7. QED
  BY <1>6, Zenon DEF Verdicts

\* channelimpl.h: each request is told one thing, in turn, and success when its own
\* answer comes, for any number of requests and whatever callbacks do.
THEOREM OwnAnswers == Spec => []Verdicts
<1>1. Init => IInv /\ VerdictInv
  BY StartHolds, VerdictStarts
<1>2. IInv /\ VerdictInv /\ [Next]_vars => IInv' /\ VerdictInv'
  BY StepKeeps, VerdictStep
<1>3. IInv /\ VerdictInv => Verdicts
  BY VerdictsHeld DEF IInv
<1>4. QED
  BY <1>1, <1>2, <1>3, PTL DEF Spec
=============================================================================
