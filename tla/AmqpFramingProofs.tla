------------------------- MODULE AmqpFramingProofs -------------------------
(***************************************************************************)
(* Theorems about AmqpFraming, for every stream of frames, every way it is *)
(* cut into reads, callbacks that throw, frames that are malformed and     *)
(* connections that close.                                                 *)
(***************************************************************************)
EXTENDS AmqpFraming, TLAPS

\* The offsets of the stream.
LEMMA Offsets ==
    /\ Frames \in Nat \ {0} /\ MaxRead \in Nat \ {0} /\ MaxThrows \in Nat
    /\ \A i \in 0..Frames : End[i] \in Nat
    /\ End[0] = 0 /\ HeaderSize = 7
    /\ \A i, j \in 0..Frames : i < j => End[j] >= End[i] + 8
BY StreamAssumption DEF HeaderSize

\* A frame that ends after frame k ends no earlier than frame k + 1.
LEMMA NextFrame ==
    ASSUME NEW k \in 0..Frames, NEW i \in 1..Frames, End[i] > End[k]
    PROVE  k < Frames /\ End[k + 1] <= End[i]
<1>1. /\ i \in 0..Frames /\ Frames \in Nat /\ End[i] \in Nat /\ End[k] \in Nat
      /\ \A m, j \in 0..Frames : m < j => End[j] >= End[m] + 8
  BY Offsets
<1>2. k < i
  <2>1. CASE i < k
    <3>1. End[k] >= End[i] + 8
      BY <1>1, <2>1
    <3>2. QED
      BY <1>1, <3>1
  <2>2. CASE i = k
    BY <1>1, <2>2
  <2>3. QED
    BY <1>1, <2>1, <2>2
<1>3. k + 1 \in 0..Frames /\ k < Frames
  BY <1>1, <1>2
<1>4. CASE k + 1 = i
  BY <1>1, <1>3, <1>4
<1>5. CASE k + 1 < i
  <2>1. End[i] >= End[k + 1] + 8
    BY <1>1, <1>3, <1>5
  <2>2. End[k + 1] \in Nat
    BY <1>3, Offsets
  <2>3. QED
    BY <1>1, <1>3, <2>1, <2>2
<1>6. QED
  BY <1>2, <1>3, <1>4, <1>5

\* Offsets grow with the frames.
LEMMA Ordered ==
    ASSUME NEW i \in 0..Frames, NEW j \in 0..Frames
    PROVE  /\ i < j => End[i] < End[j]
           /\ End[i] = End[j] => i = j
           /\ End[i] <= End[j] => i <= j
           /\ End[i] <= End[Frames]
<1>1. /\ Frames \in 0..Frames /\ Frames \in Nat
      /\ End[i] \in Nat /\ End[j] \in Nat /\ End[Frames] \in Nat
      /\ \A m, n \in 0..Frames : m < n => End[n] >= End[m] + 8
  BY Offsets
<1>2. i < j => End[j] >= End[i] + 8
  BY <1>1
<1>3. j < i => End[i] >= End[j] + 8
  BY <1>1
<1>4. i < Frames => End[Frames] >= End[i] + 8
  BY <1>1
<1>5. QED
  BY <1>1, <1>2, <1>3, <1>4

-----------------------------------------------------------------------------
(* The inductive invariant *)

Types ==
    /\ recvd \in Nat /\ base \in Nat /\ pos \in Nat /\ want \in Nat \ {0}
    /\ recvd <= End[Frames] /\ base <= pos /\ pos <= recvd
    /\ pc \in {"idle", "parse"}
    /\ throws \in Nat /\ throws <= MaxThrows
    /\ times \in [1..Frames -> Nat]
    /\ closed \in BOOLEAN
    /\ bad \in 0..Frames /\ seen \in Nat /\ seen <= End[Frames]

\* m_parseBuf and the parse position stand at the ends of frames, and not behind
\* the malformed one.
AtFrames ==
    /\ \E k \in 0..Frames : base = End[k]
    /\ \E k \in 0..Frames : pos = End[k]
    /\ pc = "idle" => pos = base
    /\ bad # 0 => pos < End[bad]

\* A frame behind the parse position has been processed, and more often than
\* once only if callbacks have thrown.
Counts ==
    \A i \in 1..Frames :
       /\ End[i] <= pos => times[i] >= 1 /\ times[i] <= throws + 1
       /\ End[i] > pos => times[i] <= throws

\* What is expected is no more than the next frame, or is there already, unless
\* the next frame is malformed.
WantsLittle ==
    \A k \in 0..(Frames - 1) :
       pos = End[k] => want <= Size(k + 1) \/ want <= recvd - pos \/ bad = k + 1

IInv == Types /\ AtFrames /\ Counts /\ WantsLittle

LEMMA InitIInv == Init => IInv
<1> SUFFICES ASSUME Init PROVE IInv
  OBVIOUS
<1>0. bad \in 0..Frames /\ (bad # 0 => End[bad] \in Nat /\ End[bad] >= 8
        /\ End[bad - 1] \in Nat /\ End[bad] >= End[bad - 1] + 8 /\ End[bad] <= End[Frames])
  <2>1. bad \in 0..Frames
    BY DEF Init
  <2>2. ASSUME bad # 0
        PROVE  bad - 1 \in 0..Frames /\ bad - 1 < bad /\ 0 \in 0..Frames /\ 0 < bad
    BY <2>1, <2>2, Offsets
  <2>3. QED
    BY <2>1, <2>2, Offsets, Ordered
<1>1. Types
  <2>1. seen \in Nat /\ seen <= End[Frames]
    BY <1>0, Offsets DEF Init
  <2>2. closed \in BOOLEAN
    BY DEF Init
  <2>3. Frames \in 0..Frames /\ End[Frames] \in Nat
    BY Offsets
  <2>4. times \in [1..Frames -> Nat] /\ throws \in Nat /\ throws <= MaxThrows
    BY Offsets DEF Init
  <2>5. /\ recvd \in Nat /\ base \in Nat /\ pos \in Nat /\ want \in Nat \ {0}
        /\ recvd <= End[Frames] /\ base <= pos /\ pos <= recvd /\ pc \in {"idle", "parse"}
    BY <2>3, Offsets DEF Init
  <2>6. QED
    BY <1>0, <2>1, <2>2, <2>4, <2>5 DEF Types
<1>2. AtFrames
  BY <1>0, Offsets DEF Init, AtFrames
<1>3. Counts
  BY Offsets DEF Init, Counts
<1>4. WantsLittle
  <2> SUFFICES ASSUME NEW k \in 0..(Frames - 1), pos = End[k]
               PROVE  want <= Size(k + 1)
    BY DEF WantsLittle
  <2>1. k \in 0..Frames /\ k + 1 \in 0..Frames /\ k < k + 1 /\ (k + 1) - 1 = k
    BY Offsets
  <2>2. End[k + 1] >= End[k] + 8 /\ End[k] \in Nat /\ End[k + 1] \in Nat
    BY <2>1, Offsets
  <2>3. QED
    BY <2>1, <2>2, Offsets DEF Init, Size
<1>5. QED
  BY <1>1, <1>2, <1>3, <1>4 DEF IInv

LEMMA HandleRecvInv == ASSUME IInv, HandleRecv PROVE IInv'
<1>1. PICK n \in 1..MaxRead : recvd + n <= End[Frames] /\ recvd' = recvd + n
  BY DEF HandleRecv
<1>2. /\ pc = "idle" /\ pc' = "parse" /\ pos' = base /\ base' = base /\ want' = want
      /\ times' = times /\ throws' = throws /\ closed' = closed
      /\ bad' = bad /\ seen' = seen
  BY DEF HandleRecv, stream
<1>3. Types /\ AtFrames /\ pos = base
  BY <1>2 DEF IInv, AtFrames
<1>4. Types'
  BY <1>1, <1>2, <1>3, Offsets DEF Types
<1>5. AtFrames'
  BY <1>2, <1>3 DEF AtFrames
<1>6. Counts'
  BY <1>2, <1>3 DEF Counts, IInv
<1>7. WantsLittle'
  <2> SUFFICES ASSUME NEW k \in 0..(Frames - 1), pos = End[k]
               PROVE  want <= Size(k + 1) \/ want <= recvd' - pos \/ bad = k + 1
    BY <1>2, <1>3 DEF WantsLittle, Size
  <2>1. want <= Size(k + 1) \/ want <= recvd - pos \/ bad = k + 1
    BY DEF WantsLittle, IInv
  <2>2. recvd \in Nat /\ pos \in Nat /\ want \in Nat /\ n \in Nat
    BY <1>3 DEF Types
  <2> HIDE DEF Size
  <2>3. QED
    BY <1>1, <2>1, <2>2
<1>8. QED
  BY <1>4, <1>5, <1>6, <1>7 DEF IInv

\* What processing the frames up to an offset does to their counts.
LEMMA ProcessedEffect ==
    ASSUME Types, NEW upto \in Nat, Processed(pos, upto)
    PROVE  /\ times' \in [1..Frames -> Nat]
           /\ \A i \in 1..Frames : pos < End[i] /\ End[i] <= upto => times'[i] = times[i] + 1
           /\ \A i \in 1..Frames : End[i] <= pos \/ End[i] > upto => times'[i] = times[i]
<1>1. \A i \in 1..Frames : times[i] \in Nat /\ times[i] + 1 \in Nat
  BY DEF Types
<1>2. \A i \in 1..Frames : End[i] \in Nat /\ pos \in Nat
  BY Offsets DEF Types
<1>3. QED
  BY <1>1, <1>2 DEF Processed

\* What a call of parse does to a connection that is open.
LEMMA ParseOpen ==
    ASSUME IInv, Parse, ~closed
    PROVE  \E k \in 0..Frames :
              /\ LastWithin(k, pos, want)
              /\ Processed(pos, End[k])
              /\ pos' = End[k]
              /\ want' = IF Rejects(k, pos, want) THEN want
                         ELSE Expected(k, pos + want - End[k])
              /\ closed' \in BOOLEAN /\ (closed' => End[k] > pos)
BY DEF Parse, Parsed

\* A connection that is closed takes nothing.
LEMMA ParseClosed == ASSUME Parse, closed PROVE UNCHANGED vars
BY DEF Parse, Parsed, vars, stream

LEMMA ParseInv == ASSUME IInv, Parse PROVE IInv'
<1> USE DEF stream
<1>a. CASE closed
  BY <1>a, ParseClosed DEF vars, IInv, Types, AtFrames, Counts, WantsLittle, Size
<1>b. SUFFICES ASSUME ~closed PROVE IInv'
  BY <1>a
<1>1. PICK k \in 0..Frames :
      /\ LastWithin(k, pos, want)
      /\ Processed(pos, End[k])
      /\ pos' = End[k]
      /\ want' = IF Rejects(k, pos, want) THEN want ELSE Expected(k, pos + want - End[k])
      /\ closed' \in BOOLEAN /\ (closed' => End[k] > pos)
  BY <1>b, ParseOpen
<1>2. /\ pc = "parse" /\ pc' = pc /\ recvd' = recvd /\ base' = base /\ throws' = throws
      /\ recvd - pos >= want /\ bad' = bad /\ seen' = seen
  BY DEF Parse
<1>3. Types /\ AtFrames /\ Counts
  BY DEF IInv
<1>4. /\ pos <= End[k] /\ End[k] <= pos + want /\ End[k] \in Nat /\ bad \notin 1..k
      /\ ~Rejects(k, pos, want) => (k < Frames => End[k + 1] > pos + want)
  BY <1>1, Offsets DEF LastWithin
<1>5. /\ recvd \in Nat /\ base \in Nat /\ pos \in Nat /\ want \in Nat \ {0} /\ throws \in Nat
      /\ base <= pos /\ pos <= recvd
  BY <1>3 DEF Types
<1>6. /\ times' \in [1..Frames -> Nat]
      /\ \A i \in 1..Frames : pos < End[i] /\ End[i] <= End[k] => times'[i] = times[i] + 1
      /\ \A i \in 1..Frames : End[i] <= pos \/ End[i] > End[k] => times'[i] = times[i]
  BY <1>1, <1>3, <1>4, ProcessedEffect
<1>7. ASSUME NEW i \in 0..(Frames - 1)
      PROVE  Size(i + 1) \in Nat /\ Size(i + 1) >= 8
  <2>1. i \in 0..Frames /\ i + 1 \in 0..Frames /\ i < i + 1 /\ (i + 1) - 1 = i
    BY Offsets
  <2>2. End[i] \in Nat /\ End[i + 1] \in Nat /\ End[i + 1] >= End[i] + 8
    BY <2>1, Offsets
  <2>3. QED
    BY <2>1, <2>2 DEF Size
<1>8. /\ want' \in Nat \ {0}
      /\ ~Rejects(k, pos, want) => (k < Frames => want' <= Size(k + 1))
  <2>0. CASE Rejects(k, pos, want)
    BY <1>1, <1>5, <2>0
  <2>a. SUFFICES ASSUME ~Rejects(k, pos, want)
                 PROVE  want' \in Nat \ {0} /\ (k < Frames => want' <= Size(k + 1))
    BY <2>0
  <2> DEFINE left == pos + want - End[k]
  <2>1. left \in Nat
    BY <1>4, <1>5
  <2>2. CASE left >= 7
    <3>1. k < Frames
      <4>1. ASSUME k = Frames PROVE FALSE
        <5>1. pos + want <= End[Frames] /\ left = 0
          BY <1>2, <1>3, <1>4, <1>5, <4>1 DEF Types
        <5>2. QED
          BY <2>2, <5>1
      <4>2. QED
        BY <4>1, Offsets
    <3>2. k \in 0..(Frames - 1)
      BY <3>1, Offsets
    <3>3. want' = Size(k + 1)
      BY <1>1, <2>2, <2>a, Offsets DEF Expected
    <3>4. QED
      BY <1>7, <3>2, <3>3
  <2>3. CASE ~(left >= 7)
    <3>1. want' = 7
      BY <1>1, <2>3, <2>a, Offsets DEF Expected
    <3>2. k < Frames => k \in 0..(Frames - 1)
      BY Offsets
    <3>3. QED
      BY <1>7, <3>1, <3>2
  <2>4. QED
    BY <2>2, <2>3
<1>9. Types'
  <2>1. pos' \in Nat /\ base' <= pos' /\ pos' <= recvd'
    BY <1>1, <1>2, <1>4, <1>5
  <2>2. closed' \in BOOLEAN
    BY <1>1
  <2>3. QED
    BY <1>2, <1>3, <1>6, <1>8, <2>1, <2>2 DEF Types
<1>10. AtFrames'
  <2>1. bad # 0 => End[k] < End[bad]
    <3>1. bad \in 0..Frames
      BY <1>3 DEF Types
    <3>2. bad # 0 => k < bad
      BY <1>4, <3>1, Offsets
    <3>3. QED
      BY <3>1, <3>2, Ordered
  <2>2. QED
    BY <1>1, <1>2, <1>3, <2>1 DEF AtFrames
<1>11. Counts'
  <2> SUFFICES ASSUME NEW i \in 1..Frames
               PROVE  /\ End[i] <= End[k] => times'[i] >= 1 /\ times'[i] <= throws + 1
                      /\ End[i] > End[k] => times'[i] <= throws
    BY <1>1, <1>2 DEF Counts
  <2>1. End[i] \in Nat /\ times[i] \in Nat
    BY <1>3, Offsets DEF Types
  <2>2. /\ End[i] <= pos => times[i] >= 1 /\ times[i] <= throws + 1
        /\ End[i] > pos => times[i] <= throws
    BY <1>3 DEF Counts
  <2>3. /\ pos < End[i] /\ End[i] <= End[k] => times'[i] = times[i] + 1
        /\ End[i] <= pos \/ End[i] > End[k] => times'[i] = times[i]
    BY <1>6
  <2>4. QED
    BY <1>4, <1>5, <2>1, <2>2, <2>3
<1>12. WantsLittle'
  <2> SUFFICES ASSUME NEW i \in 0..(Frames - 1), End[k] = End[i]
               PROVE  want' <= Size(i + 1) \/ bad = i + 1
    BY <1>1, <1>2 DEF WantsLittle, Size
  <2>1. i = k
    <3>1. i \in 0..Frames /\ End[i] \in Nat
      BY Offsets
    <3>2. i < k => End[k] >= End[i] + 8
      BY <3>1, Offsets
    <3>3. k < i => End[i] >= End[k] + 8
      BY <3>1, Offsets
    <3>4. QED
      BY <1>4, <3>1, <3>2, <3>3
  <2>2. k < Frames
    BY <2>1, Offsets
  <2>3. QED
    BY <1>8, <2>1, <2>2 DEF Rejects
<1>13. QED
  BY <1>9, <1>10, <1>11, <1>12 DEF IInv

LEMMA ParseThrowsInv == ASSUME IInv, ParseThrows PROVE IInv'
<1>1. PICK j \in 1..Frames : Within(j, pos, want) /\ Processed(pos, End[j])
  BY DEF ParseThrows
<1>2. /\ pc' = "idle" /\ pos' = base /\ recvd' = recvd /\ base' = base /\ want' = want
      /\ throws < MaxThrows /\ throws' = throws + 1 /\ recvd - pos >= want
      /\ closed' \in BOOLEAN /\ bad' = bad /\ seen' = seen
  BY DEF ParseThrows, stream
<1>3. Types /\ AtFrames /\ Counts
  BY DEF IInv
<1>4. /\ recvd \in Nat /\ base \in Nat /\ pos \in Nat /\ want \in Nat \ {0} /\ throws \in Nat
      /\ base <= pos /\ pos <= recvd
  BY <1>3 DEF Types
<1>5. End[j] \in Nat
  BY Offsets
<1>6. /\ times' \in [1..Frames -> Nat]
      /\ \A i \in 1..Frames : pos < End[i] /\ End[i] <= End[j] => times'[i] = times[i] + 1
      /\ \A i \in 1..Frames : End[i] <= pos \/ End[i] > End[j] => times'[i] = times[i]
  BY <1>1, <1>3, <1>5, ProcessedEffect
<1>7. Types'
  BY <1>2, <1>3, <1>4, <1>6, Offsets DEF Types
<1>8. AtFrames'
  <2>1. bad # 0 => base < End[bad]
    <3>1. ASSUME bad # 0 PROVE bad \in 0..Frames /\ End[bad] \in Nat /\ pos < End[bad]
      BY <1>3, <3>1, Offsets DEF Types, AtFrames
    <3>2. QED
      BY <1>4, <3>1
  <2>2. QED
    BY <1>2, <1>3, <2>1 DEF AtFrames
<1>9. Counts'
  <2> SUFFICES ASSUME NEW i \in 1..Frames
               PROVE  /\ End[i] <= base => times'[i] >= 1 /\ times'[i] <= throws + 2
                      /\ times'[i] <= throws + 1
    BY <1>2, <1>4 DEF Counts
  <2>1. End[i] \in Nat /\ times[i] \in Nat
    BY <1>3, Offsets DEF Types
  <2>2. /\ End[i] <= pos => times[i] >= 1 /\ times[i] <= throws + 1
        /\ End[i] > pos => times[i] <= throws
    BY <1>3 DEF Counts
  <2>3. /\ pos < End[i] /\ End[i] <= End[j] => times'[i] = times[i] + 1
        /\ End[i] <= pos \/ End[i] > End[j] => times'[i] = times[i]
    BY <1>6
  <2>4. QED
    BY <1>4, <1>5, <2>1, <2>2, <2>3
<1>10. WantsLittle'
  <2>1. want' <= recvd' - pos'
    BY <1>2, <1>4
  <2>2. QED
    BY <2>1 DEF WantsLittle
<1>11. QED
  BY <1>7, <1>8, <1>9, <1>10 DEF IInv

LEMMA EraseInv == ASSUME IInv, Erase PROVE IInv'
<1>1. /\ pc' = "idle" /\ base' = pos /\ pos' = pos /\ recvd' = recvd /\ want' = want
      /\ times' = times /\ throws' = throws /\ closed' = closed
      /\ bad' = bad /\ seen' = seen
  BY DEF Erase, stream
<1>2. Types'
  BY <1>1 DEF Types, IInv
<1>3. AtFrames'
  BY <1>1 DEF AtFrames, IInv
<1>4. Counts'
  BY <1>1 DEF Counts, IInv
<1>5. WantsLittle'
  BY <1>1 DEF WantsLittle, Size, IInv
<1>6. QED
  BY <1>2, <1>3, <1>4, <1>5 DEF IInv

LEMMA StepIInv == IInv /\ [Next]_vars => IInv'
<1> SUFFICES ASSUME IInv, [Next]_vars PROVE IInv'
  OBVIOUS
<1>1. CASE UNCHANGED vars
  BY <1>1 DEF vars, stream, IInv, Types, AtFrames, Counts, WantsLittle, Size
<1>2. QED
  BY <1>1, HandleRecvInv, ParseInv, ParseThrowsInv, EraseInv DEF Next, Received

-----------------------------------------------------------------------------
(* The theorems *)

\* The inductive invariant holds in every reachable state.
THEOREM Invariance == Spec => []IInv
BY InitIInv, StepIInv, PTL DEF Spec

\* Every variable keeps its type, and no frame is processed more often than
\* callbacks have thrown, and once more.
THEOREM TypeCorrect == Spec => []TypeOK
<1>1. IInv => TypeOK
  <2> SUFFICES ASSUME IInv PROVE TypeOK
    OBVIOUS
  <2>1. Types /\ Counts
    BY DEF IInv
  <2>2. ASSUME NEW i \in 1..Frames PROVE times[i] \in 0..(MaxThrows + 1)
    <3>1. End[i] \in Nat /\ times[i] \in Nat /\ pos \in Nat
          /\ throws \in Nat /\ MaxThrows \in Nat /\ throws <= MaxThrows
      BY <2>1, Offsets DEF Types
    <3>2. times[i] <= throws + 1
      BY <2>1, <3>1 DEF Counts
    <3>3. QED
      BY <3>1, <3>2
  <2>3. End[Frames] \in Nat /\ MaxThrows \in Nat
    BY Offsets
  <2>4. QED
    BY <2>1, <2>2, <2>3 DEF TypeOK, Types
<1>2. QED
  BY <1>1, Invariance, PTL

\* Until a callback throws every frame is processed exactly once, in order,
\* however the reads cut the stream.
THEOREM ProcessedOnce == Spec => []FramesOnce
<1>1. IInv => FramesOnce
  <2> SUFFICES ASSUME IInv, throws = 0, NEW i \in 1..Frames
               PROVE  times[i] = IF End[i] <= pos THEN 1 ELSE 0
    BY DEF FramesOnce
  <2>1. End[i] \in Nat /\ times[i] \in Nat /\ pos \in Nat
    BY Offsets DEF IInv, Types
  <2>2. /\ End[i] <= pos => times[i] >= 1 /\ times[i] <= 1
        /\ End[i] > pos => times[i] <= 0
    BY DEF IInv, Counts
  <2>3. QED
    BY <2>1, <2>2
<1>2. QED
  BY <1>1, Invariance, PTL

\* Whatever callbacks throw, no frame is left out and m_parseBuf starts at a
\* frame.
THEOREM NoFrameSkipped == Spec => []NoneSkipped
<1>1. IInv => NoneSkipped
  <2> SUFFICES ASSUME IInv PROVE NoneSkipped
    OBVIOUS
  <2>1. ASSUME NEW i \in 1..Frames, End[i] <= base PROVE times[i] >= 1
    <3>1. End[i] \in Nat /\ pos \in Nat /\ base \in Nat /\ base <= pos
      BY Offsets DEF IInv, Types
    <3>2. End[i] <= pos
      BY <2>1, <3>1
    <3>3. QED
      BY <3>2 DEF IInv, Counts
  <2>2. QED
    BY <2>1 DEF NoneSkipped, IInv, AtFrames
<1>2. QED
  BY <1>1, Invariance, PTL

\* ParseAmqpData never returns with a complete frame left in m_parseBuf.
THEOREM NoFrameHeldBack == Spec => NothingHeldBack
<1>1. IInv /\ [Next]_vars =>
        [Erase /\ ~closed =>
           \A i \in 1..Frames : End[i] <= recvd /\ bad \notin 1..i => times[i] >= 1]_vars
  <2> SUFFICES ASSUME IInv, Erase, NEW i \in 1..Frames, End[i] <= recvd, bad \notin 1..i
               PROVE  times[i] >= 1
    OBVIOUS
  <2>1. Types /\ AtFrames /\ Counts /\ WantsLittle
    BY DEF IInv
  <2>2. recvd - pos < want
    BY DEF Erase
  <2>3. /\ recvd \in Nat /\ pos \in Nat /\ want \in Nat /\ End[i] \in Nat
    BY <2>1, Offsets DEF Types
  <2>4. End[i] <= pos
    <3> SUFFICES ASSUME End[i] > pos PROVE FALSE
      BY <2>3
    <3>1. PICK k \in 0..Frames : pos = End[k]
      BY <2>1 DEF AtFrames
    <3>2. k < Frames /\ End[k + 1] <= End[i]
      BY <3>1, NextFrame
    <3>3. k \in 0..(Frames - 1) /\ k + 1 \in 0..Frames /\ (k + 1) - 1 = k
      BY <3>2, Offsets
    <3>4. End[k + 1] \in Nat /\ End[k] \in Nat
      BY <3>3, Offsets
    <3>4a. bad # k + 1
      <4>1. k + 1 <= i
        BY <3>2, <3>3, Ordered
      <4>2. QED
        BY <3>3, <4>1
    <3>5. want <= Size(k + 1) \/ want <= recvd - pos
      BY <2>1, <3>1, <3>3, <3>4a DEF WantsLittle
    <3>6. Size(k + 1) = End[k + 1] - End[k]
      BY <3>3 DEF Size
    <3>7. want <= End[k + 1] - End[k]
      BY <2>2, <2>3, <3>4, <3>5, <3>6
    <3>8. QED
      BY <2>2, <2>3, <3>1, <3>2, <3>4, <3>7
  <2>5. QED
    BY <2>1, <2>4 DEF Counts
<1>2. QED
  BY <1>1, Invariance, PTL DEF Spec, NothingHeldBack

\* A turn of the loop of ParseAmqpData that is not stuck makes progress: a call
\* of parse that processes no frame makes the connection expect more than it
\* did, and no more than the frame that comes next.
ParseAdvances ==
    [][Parse => \/ Stuck
                \/ pos' > pos
                \/ /\ pos' = pos /\ want' > want
                   /\ \A k \in 0..(Frames - 1) : pos = End[k] => want' <= Size(k + 1)]_vars

\* The variant of the loop of ParseAmqpData, on which LoopEnds rests: on a
\* connection that is open, in front of a frame that is not malformed, every
\* turn processes a frame or makes the connection expect more, and never more
\* than the next frame.
THEOREM LoopAdvances == Spec => ParseAdvances
<1>1. ASSUME IInv, Parse
      PROVE  \/ Stuck
             \/ pos' > pos
             \/ /\ pos' = pos /\ want' > want
                /\ \A k \in 0..(Frames - 1) : pos = End[k] => want' <= Size(k + 1)
  <2>a. SUFFICES ASSUME ~Stuck
                 PROVE  \/ pos' > pos
                        \/ /\ pos' = pos /\ want' > want
                           /\ \A k \in 0..(Frames - 1) :
                                 pos = End[k] => want' <= Size(k + 1)
    OBVIOUS
  <2>b. ~closed
    BY <1>1, <2>a DEF Parse, Stuck
  <2>1. PICK k \in 0..Frames :
           /\ LastWithin(k, pos, want) /\ pos' = End[k]
           /\ want' = IF Rejects(k, pos, want) THEN want
                      ELSE Expected(k, pos + want - End[k])
    BY <1>1, <2>b, ParseOpen
  <2>2. /\ recvd \in Nat /\ pos \in Nat /\ want \in Nat \ {0} /\ recvd - pos >= want
        /\ recvd <= End[Frames] /\ End[k] \in Nat /\ End[Frames] \in Nat
    BY <1>1, Offsets DEF Parse, IInv, Types
  <2>3. pos <= End[k]
    BY <2>1 DEF LastWithin
  <2>4. CASE End[k] = pos
    <3>0. ~Rejects(k, pos, want)
      BY <1>1, <2>4, <2>a DEF Stuck, Parse
    <3>1. k < Frames /\ k \in 0..(Frames - 1) /\ k + 1 \in 0..Frames
      <4>1. k # Frames
        BY <2>2, <2>4
      <4>2. QED
        BY <4>1, Offsets
    <3>2. End[k + 1] \in Nat /\ End[k + 1] >= End[k] + 8 /\ End[k + 1] > pos + want
      <4>1. k < k + 1
        BY <3>1
      <4>2. QED
        BY <2>1, <3>0, <3>1, <4>1, Offsets DEF LastWithin
    <3>3. Size(k + 1) = End[k + 1] - pos
      BY <2>4, <3>1 DEF Size
    <3>4. Size(k + 1) \in Nat /\ Size(k + 1) > want /\ Size(k + 1) >= 8
      BY <2>2, <2>4, <3>2, <3>3
    <3>5. want' = Expected(k, want)
      BY <2>1, <2>2, <2>4, <3>0
    <3>6. want' > want /\ want' <= Size(k + 1)
      <4>1. CASE want >= 7
        BY <3>4, <3>5, <4>1, Offsets DEF Expected
      <4>2. CASE ~(want >= 7)
        BY <2>2, <3>4, <3>5, <4>2, Offsets DEF Expected
      <4>3. QED
        BY <4>1, <4>2
    <3>7. ASSUME NEW i \in 0..(Frames - 1), pos = End[i] PROVE i = k
      <4>1. i \in 0..Frames /\ End[i] = End[k]
        BY <2>4, <3>7, Offsets
      <4>2. QED
        BY <4>1, Ordered
    <3>8. QED
      BY <2>1, <2>4, <3>6, <3>7
  <2>5. QED
    BY <2>1, <2>2, <2>3, <2>4
<1>2. IInv /\ [Next]_vars =>
        [Parse => \/ Stuck
                  \/ pos' > pos
                  \/ /\ pos' = pos /\ want' > want
                     /\ \A k \in 0..(Frames - 1) : pos = End[k] => want' <= Size(k + 1)]_vars
  BY <1>1
<1>3. QED
  BY <1>2, Invariance, PTL DEF Spec, ParseAdvances

\* Where the loop does not advance it never will: once the connection is closed
\* with the bytes it expects at hand, or stands before a frame that it rejects,
\* nothing the program does has an effect, neither the loop nor a read, for the
\* worker thread does not come out of ParseAmqpData.
THEOREM StuckForEver == Spec => [][~Stuck]_vars
<1>1. ASSUME IInv, Next, Stuck PROVE UNCHANGED vars
  <2>1. pc = "parse" /\ recvd - pos >= want
    BY <1>1 DEF Stuck
  <2>2. /\ recvd \in Nat /\ pos \in Nat /\ want \in Nat \ {0}
        /\ bad \in 0..Frames /\ times \in [1..Frames -> Nat]
    BY <1>1 DEF IInv, Types
  <2>3. ~HandleRecv /\ ~Erase /\ ~Received
    BY <2>1, <2>2 DEF HandleRecv, Erase, Received
  <2>4. CASE closed
    <3>1. ~ParseThrows
      BY <2>4 DEF ParseThrows
    <3>2. QED
      BY <1>1, <2>3, <2>4, <3>1, ParseClosed DEF Next
  <2>5. CASE ~closed
    <3>1. PICK k \in 0..Frames : pos = End[k] /\ bad = k + 1 /\ Rejects(k, pos, want)
      BY <1>1, <2>5 DEF Stuck, Rejects
    <3>2. ASSUME NEW j \in 0..Frames, bad \notin 1..j PROVE End[j] <= pos
      <4>1. j <= k
        BY <3>1, <3>2, Offsets
      <4>2. End[j] \in Nat /\ End[k] \in Nat /\ (j < k => End[j] < End[k])
        BY Offsets, Ordered
      <4>3. QED
        BY <3>1, <4>1, <4>2
    <3>3. ~ParseThrows
      <4> SUFFICES ASSUME ParseThrows PROVE FALSE
        OBVIOUS
      <4>1. PICK j \in 1..Frames : pos < End[j] /\ bad \notin 1..j
        BY DEF ParseThrows, Within
      <4>2. j \in 0..Frames /\ End[j] \in Nat
        BY Offsets
      <4>3. QED
        BY <2>2, <3>2, <4>1, <4>2
    <3>4. Parse
      BY <1>1, <2>3, <3>3 DEF Next
    <3>5. PICK m \in 0..Frames :
             /\ LastWithin(m, pos, want) /\ Processed(pos, End[m]) /\ pos' = End[m]
             /\ want' = IF Rejects(m, pos, want) THEN want
                        ELSE Expected(m, pos + want - End[m])
             /\ closed' \in BOOLEAN /\ (closed' => End[m] > pos)
      BY <1>1, <2>5, <3>4, ParseOpen
    <3>6. End[m] = pos
      <4>1. pos <= End[m] /\ bad \notin 1..m /\ End[m] \in Nat
        BY <3>5, Offsets DEF LastWithin
      <4>2. QED
        BY <2>2, <3>2, <4>1
    <3>7. m = k
      BY <3>1, <3>6, Ordered
    <3>8. pos' = pos /\ want' = want /\ closed' = closed
      <4>1. closed \in BOOLEAN /\ ~(End[m] > pos)
        BY <1>1, <2>2, <3>6 DEF IInv, Types
      <4>2. closed' = closed
        BY <2>5, <3>5, <4>1
      <4>3. QED
        BY <3>1, <3>5, <3>6, <3>7, <4>2
    <3>9. times' = times
      <4>1. \A i \in 1..Frames : End[i] \in Nat
        BY Offsets
      <4>2. \A i \in 1..Frames : ~(pos < End[i] /\ End[i] <= End[m])
        BY <2>2, <3>6, <4>1
      <4>3. times' = [i \in 1..Frames |-> times[i]]
        BY <3>5, <4>2 DEF Processed
      <4>4. QED
        BY <2>2, <4>3
    <3>10. QED
      BY <2>5, <3>4, <3>8, <3>9 DEF Parse, vars, stream
  <2>6. QED
    BY <2>4, <2>5
<1>2. IInv /\ [Next]_vars => [~Stuck]_vars
  BY <1>1
<1>3. QED
  BY <1>2, Invariance, PTL DEF Spec
=============================================================================
