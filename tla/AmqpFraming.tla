---------------------------- MODULE AmqpFraming ----------------------------
(***************************************************************************)
(* How TcpMgr cuts the byte stream of the broker into AMQP frames:         *)
(* HandleRecv and ParseAmqpData, RmqMgrBase.cpp lines 572-583 and 601-620, *)
(* with AMQP::Connection::expected and parse.                              *)
(*                                                                         *)
(* The stream is known by the offsets at which its frames end; m_parseBuf  *)
(* holds its bytes from offset base up to offset recvd.  The loop of       *)
(* ParseAmqpData is one step for each call of parse, because the callbacks *)
(* of a frame may throw out of the middle of it.  A frame of the stream    *)
(* may be malformed, and any frame may be the one that closes the          *)
(* connection: parse then consumes no more, and says of neither that it    *)
(* expects more than it did.                                               *)
(***************************************************************************)
EXTENDS Integers

CONSTANTS
    Frames,    \* frames the broker sends
    End,       \* End[i]: the offset at which frame i ends
    MaxRead,   \* kReceiveBufferSize, scaled to the size of the frames
    MaxThrows  \* bound: callbacks that throw

\* A frame has a header of seven bytes, a payload and an end byte.
HeaderSize == 7

ASSUME StreamAssumption ==
    /\ Frames \in Nat \ {0} /\ MaxRead \in Nat \ {0} /\ MaxThrows \in Nat
    /\ End \in [0..Frames -> Nat] /\ End[0] = 0
    /\ \A i, j \in 0..Frames : i < j => End[j] >= End[i] + HeaderSize + 1

VARIABLES
    recvd,   \* bytes received
    base,    \* offset of m_parseBuf.begin()
    pos,     \* base + parsed_bytes
    want,    \* expected_bytes, m_pConnect->expected()
    pc,      \* idle, or parse while ParseAmqpData runs
    times,   \* times[i]: how often frame i has been processed
    throws,  \* callbacks that have thrown
    closed,  \* ConnectionImpl::closed(): close-ok has been processed
    bad,     \* the malformed frame of the stream, 0 if there is none
    seen     \* the offset up to which parse must read to reject it

stream == <<bad, seen>>
vars == <<recvd, base, pos, want, pc, times, throws, closed, stream>>

-----------------------------------------------------------------------------
(* AMQP::Connection::parse, on the n bytes from offset a *)

Size(i) == End[i] - End[i - 1]

\* Frame i lies within the bytes.
Within(i, a, n) == a < End[i] /\ End[i] <= a + n

\* The constructor of ReceivedFrame throws at the frame behind frame k.
Rejects(k, a, n) == bad = k + 1 /\ seen <= a + n

\* Frame k is the last one that is processed, or it ended at a: the next is
\* malformed, or not whole.
LastWithin(k, a, n) ==
    /\ a <= End[k] /\ End[k] <= a + n
    /\ bad \notin 1..k
    /\ Rejects(k, a, n) \/ (k < Frames => End[k + 1] > a + n)

\* Mutant: the end byte is counted twice.
ExpectedOneMore(k, left) == IF left >= HeaderSize THEN Size(k + 1) + 1 ELSE HeaderSize

\* What a connection expects once it has processed frame k and holds left
\* bytes more: the next frame once it knows its size, a header before.
Expected(k, left) == IF left >= HeaderSize THEN Size(k + 1) ELSE HeaderSize

Processed(a, upto) ==
    times' = [i \in 1..Frames |->
                IF a < End[i] /\ End[i] <= upto THEN times[i] + 1 ELSE times[i]]
-----------------------------------------------------------------------------
(* The handler *)

\* HandleRecv appends what a read has brought and calls ParseAmqpData.
HandleRecv ==
    /\ pc = "idle"
    /\ \E n \in 1..MaxRead :
          /\ recvd + n <= End[Frames]
          /\ recvd' = recvd + n
    /\ pc' = "parse"
    /\ pos' = base
    /\ UNCHANGED <<base, want, times, throws, closed, stream>>

\* parse of the expected bytes.  A connection that is closed leaves them; one
\* that rejects a frame reports an error, stays open, and keeps what it expects.
\* Any frame may be the close-ok.
Parsed(a, n) ==
    IF closed THEN UNCHANGED <<pos, want, times, closed>>
    ELSE \E k \in 0..Frames :
            /\ LastWithin(k, a, n)
            /\ Processed(a, End[k])
            /\ pos' = End[k]
            /\ want' = IF Rejects(k, a, n) THEN want ELSE Expected(k, a + n - End[k])
            /\ closed' \in BOOLEAN /\ (closed' => End[k] > a)

\* Mutant: expected_bytes is not read again in the loop.
ParseKeepsExpected ==
    /\ pc = "parse" /\ recvd - pos >= want /\ ~closed
    /\ \E k \in 0..Frames :
          LastWithin(k, pos, want) /\ Processed(pos, End[k]) /\ pos' = End[k]
    /\ UNCHANGED <<recvd, base, want, pc, throws, closed, stream>>

\* One turn of the loop.
Parse ==
    /\ pc = "parse" /\ recvd - pos >= want
    /\ Parsed(pos, want)
    /\ UNCHANGED <<recvd, base, pc, throws, stream>>

\* A callback of frame j throws: the handler of the exception leaves
\* m_parseBuf as it was, and the connection what it expects.
ParseThrows ==
    /\ pc = "parse" /\ recvd - pos >= want /\ ~closed
    /\ throws < MaxThrows /\ throws' = throws + 1
    /\ \E j \in 1..Frames :
          /\ Within(j, pos, want) /\ bad \notin 1..j
          /\ Processed(pos, End[j])
    /\ closed' \in BOOLEAN
    /\ pc' = "idle"
    /\ pos' = base
    /\ UNCHANGED <<recvd, base, want, stream>>

\* Mutant: the parsed bytes stay in the buffer.
EraseNothing ==
    /\ pc = "parse" /\ recvd - pos < want
    /\ pc' = "idle"
    /\ UNCHANGED <<recvd, base, pos, want, times, throws, closed, stream>>

\* Mutant: the bytes of an incomplete frame are erased as well.
EraseAll ==
    /\ pc = "parse" /\ recvd - pos < want
    /\ base' = recvd
    /\ pc' = "idle"
    /\ UNCHANGED <<recvd, pos, want, times, throws, closed, stream>>

\* The end of the loop: the parsed bytes leave m_parseBuf.
Erase ==
    /\ pc = "parse" /\ recvd - pos < want
    /\ base' = pos
    /\ pc' = "idle"
    /\ UNCHANGED <<recvd, pos, want, times, throws, closed, stream>>

\* The whole stream has been received.
Received == pc = "idle" /\ recvd = End[Frames] /\ UNCHANGED vars

Init ==
    /\ recvd = 0 /\ base = 0 /\ pos = 0 /\ want = HeaderSize /\ pc = "idle"
    /\ times = [i \in 1..Frames |-> 0]
    /\ throws = 0 /\ closed = FALSE
    /\ bad \in 0..Frames
    /\ seen \in IF bad = 0 THEN {0} ELSE {End[bad - 1] + HeaderSize, End[bad]}

Next == HandleRecv \/ Parse \/ ParseThrows \/ Erase \/ Received

Spec == Init /\ [][Next]_vars

\* The loop runs on the worker thread, which nothing holds up.
FairSpec == Spec /\ WF_vars(Parse \/ ParseThrows \/ Erase)

-----------------------------------------------------------------------------
(* Properties *)

\* The type invariant.
TypeOK ==
    /\ recvd \in 0..End[Frames] /\ base \in 0..recvd /\ pos \in base..recvd
    /\ want \in Nat /\ pc \in {"idle", "parse"}
    /\ times \in [1..Frames -> 0..(MaxThrows + 1)]
    /\ throws \in 0..MaxThrows /\ closed \in BOOLEAN
    /\ bad \in 0..Frames /\ seen \in 0..End[Frames]

\* Until a callback throws, the frames that have been processed are those
\* before the parse position, each once, however the reads cut the stream.
FramesOnce ==
    throws = 0 => \A i \in 1..Frames : times[i] = IF End[i] <= pos THEN 1 ELSE 0

\* Even when callbacks throw no frame is left out, and m_parseBuf goes on at
\* the start of a frame.
NoneSkipped ==
    /\ \A i \in 1..Frames : End[i] <= base => times[i] >= 1
    /\ \E k \in 0..Frames : base = End[k]

\* ParseAmqpData never stops with a complete frame in m_parseBuf: expected
\* never asks for bytes beyond the frame that comes next.  (Not where the
\* connection is closed, nor from a malformed frame on.)
NothingHeldBack ==
    [][Erase /\ ~closed =>
          \A i \in 1..Frames : End[i] <= recvd /\ bad \notin 1..i => times[i] >= 1]_vars

\* The loop has come to bytes that parse will not take, and turns for ever.
Stuck ==
    /\ pc = "parse" /\ recvd - pos >= want
    /\ closed \/ \E k \in 0..Frames : pos = End[k] /\ Rejects(k, pos, want)

\* The loop of ParseAmqpData ends, unless the connection is closed or meets a
\* malformed frame: a call of parse that processes no frame makes it expect more.
LoopEnds == pc = "parse" ~> (pc = "idle" \/ Stuck)
=============================================================================
