---------------------------- MODULE AmqpDelivery ----------------------------
(***************************************************************************)
(* How a channel receives messages: the consumers and the receiver of      *)
(* ChannelImpl (channelimpl.h), the classes that receive: DeferredConsumer *)
(* (deferredconsumer.h), DeferredGet (deferredget.h) and, for messages     *)
(* that the server returns, DeferredPublisher (deferredpublisher.h), on    *)
(* DeferredReceiver and DeferredExtReceiver; and Message (message.h), which *)
(* each of them holds in a stack_ptr (stack_ptr.h).                        *)
(*                                                                         *)
(* A message comes as a frame that says for whom it is, a header frame     *)
(* with the size of the body, and frames with the body.  Each frame is     *)
(* one step, with the callbacks that it makes.                             *)
(***************************************************************************)
EXTENDS Naturals, Sequences, SequencesExt

CONSTANTS
    Tags,         \* consumer tags
    MaxSize,      \* bound: size of a body
    MaxMessages,  \* bound: messages that the server sends
    MaxChanges    \* bound: consumers started and stopped, callbacks registered

VARIABLES
    consumers,  \* _consumers: the tags in the map
    receiver,   \* _receiver of the channel
    listens,    \* listens[r]: the callbacks that r has
    left,       \* left[r]: _bodySize of r, what is still to come
    message,    \* message[r]: _message of r
    sending,    \* the message that the server is sending
    messages,   \* how many it has started
    changes,
    heard       \* the calls of callbacks: [who, what, id, body]

vars == <<consumers, receiver, listens, left, message, sending, messages, changes, heard>>

\* DeferredGet and DeferredPublisher are receivers beside the consumers.
Receivers == Tags \cup {"get", "returned"}

Callbacks == {"message", "data", "delivered"}

-----------------------------------------------------------------------------
(* Message, in a stack_ptr *)

\* A stack_ptr that holds nothing.
NoMessage == [made |-> FALSE]

\* Message::Message, and setBodySize().
NewMessage == [made |-> TRUE, size |-> 0, filled |-> 0, copies |-> FALSE, body |-> <<>>]

Least(a, b) == IF a <= b THEN a ELSE b

\* Mutant: every frame is copied to the start of the body.
AppendOver(m, bytes) ==
    IF m.copies
    THEN LET n == Least(Len(bytes), m.size - m.filled) IN
         [m EXCEPT !.body = SubSeq(bytes, 1, n) \o SubSeq(@, n + 1, Len(@)), !.filled = @ + n]
    ELSE IF Len(bytes) >= m.size THEN [m EXCEPT !.body = bytes]
    ELSE [m EXCEPT !.copies = TRUE, !.body = bytes, !.filled = Len(bytes)]

\* append(): the body points into the buffer of the frame when it comes in one,
\* and is copied together otherwise.  _filled counts what was copied only, so
\* append() is false when all is there at once ("true if the message is now
\* complete", message.h 91); nobody looks.
AppendBytes(m, bytes) ==
    IF m.copies
    THEN LET n == Least(Len(bytes), m.size - m.filled) IN
         [m EXCEPT !.body = SubSeq(@, 1, m.filled) \o SubSeq(bytes, 1, n), !.filled = @ + n]
    ELSE IF Len(bytes) >= m.size THEN [m EXCEPT !.body = bytes]
    ELSE [m EXCEPT !.copies = TRUE, !.body = bytes, !.filled = Len(bytes)]

\* body(), as far as bodySize() says; less where bytes were never written.
Body(m) == SubSeq(m.body, 1, Least(m.size, Len(m.body)))

-----------------------------------------------------------------------------
(* The receivers *)

Call(who, what, body) == [who |-> who, what |-> what, id |-> sending.id, body |-> body]

\* The calls that r makes of its callback what, if it has one.
Calls(r, what, body) == IF what \in listens[r] THEN <<Call(r, what, body)>> ELSE <<>>

\* initialize(): whoever wants whole messages makes one, in the place of one
\* that was never completed.
Initialize(r) ==
    /\ receiver' = r
    /\ message' = IF "message" \in listens[r] THEN [message EXCEPT ![r] = NewMessage] ELSE message

\* Mutant: the channel does not forget its receiver.
CompleteStays(r, m, before) ==
    /\ heard' = heard \o before
                      \o (IF m.made THEN <<Call(r, "message", Body(m))>> ELSE <<>>)
                      \o Calls(r, "delivered", <<>>)
    /\ message' = [message EXCEPT ![r] = NoMessage]
    /\ UNCHANGED receiver

\* complete(): the message is handed out, and destroyed.
Complete(r, m, before) ==
    /\ heard' = heard \o before
                      \o (IF m.made THEN <<Call(r, "message", Body(m))>> ELSE <<>>)
                      \o Calls(r, "delivered", <<>>)
    /\ message' = [message EXCEPT ![r] = NoMessage]
    /\ receiver' = "none"

\* What a frame leaves of r: it is complete, or waits for n bytes more.
Progress(r, m, n, before) ==
    /\ left' = [left EXCEPT ![r] = n]
    /\ IF n = 0 THEN Complete(r, m, before)
       ELSE /\ message' = [message EXCEPT ![r] = m]
            /\ heard' = heard \o before
            /\ UNCHANGED receiver

-----------------------------------------------------------------------------
(* Frames *)

Idle == [at |-> "idle"]

StartSending(to) ==
    /\ sending = Idle /\ messages < MaxMessages
    /\ messages' = messages + 1
    /\ \E size \in 0..MaxSize :
          sending' = [at |-> "header", to |-> to, id |-> messages + 1, size |-> size, sent |-> 0,
                      whole |-> "message" \in listens[to] /\ (to \in Tags => to \in consumers)]

\* BasicDeliverFrame: a consumer that is not there (any more) gets nothing.
Deliver ==
    /\ \E t \in Tags :
          /\ StartSending(t)
          /\ IF t \in consumers THEN Initialize(t) ELSE UNCHANGED <<receiver, message>>
    /\ UNCHANGED <<consumers, listens, left, changes, heard>>

\* BasicGetOKFrame and DeferredGet::reportSuccess.
GetOk ==
    /\ StartSending("get") /\ Initialize("get")
    /\ UNCHANGED <<consumers, listens, left, changes, heard>>

\* BasicReturnFrame and DeferredPublisher::process.
Return ==
    /\ StartSending("returned") /\ Initialize("returned")
    /\ UNCHANGED <<consumers, listens, left, changes, heard>>

\* BasicHeaderFrame: a message without a body is complete.
Header ==
    /\ sending.at = "header"
    /\ sending' = IF sending.size = 0 THEN Idle ELSE [sending EXCEPT !.at = "body"]
    /\ IF receiver = "none" THEN UNCHANGED <<receiver, left, message, heard>>
       ELSE LET r == receiver
                m == IF message[r].made THEN [message[r] EXCEPT !.size = sending.size]
                                        ELSE message[r]
            IN Progress(r, m, sending.size, <<>>)
    /\ UNCHANGED <<consumers, listens, messages, changes>>

\* BodyFrame.  The server cuts the body as it likes.
BodyFrame ==
    /\ sending.at = "body"
    /\ \E n \in 1..(sending.size - sending.sent) :
       LET bytes == [i \in 1..n |-> <<sending.id, sending.sent + i>>]
           r == receiver
       IN /\ sending' = IF sending.sent + n = sending.size THEN Idle
                        ELSE [sending EXCEPT !.sent = @ + n]
          /\ IF r = "none" THEN UNCHANGED <<receiver, left, message, heard>>
             ELSE Progress(r, IF message[r].made THEN AppendBytes(message[r], bytes)
                                                 ELSE message[r],
                           left[r] - n, Calls(r, "data", bytes))
    /\ UNCHANGED <<consumers, listens, messages, changes>>

-----------------------------------------------------------------------------
(* The user *)

Changes ==
    /\ changes < MaxChanges /\ changes' = changes + 1
    /\ UNCHANGED <<receiver, left, message, sending, messages, heard>>

\* DeferredConsumer::reportSuccess installs the consumer before its callback.
Consume ==
    /\ Changes
    /\ \E t \in Tags \ consumers : consumers' = consumers \cup {t}
    /\ UNCHANGED listens

\* DeferredCancel::reportSuccess.
Cancel ==
    /\ Changes
    /\ \E t \in consumers : consumers' = consumers \ {t}
    /\ UNCHANGED listens

\* A callback for whole messages, for data, or for the end of a message, in the
\* middle of one, too.
Listen(rs) ==
    /\ Changes
    /\ \E r \in rs, c \in Callbacks : listens' = [listens EXCEPT ![r] = @ \cup {c}]
    /\ UNCHANGED consumers

\* onReceived, onMessage, onData, onComplete and onDelivered of DeferredConsumer.
ListenConsumer == Listen(Tags)

\* The same, and onSuccess, of DeferredGet.
ListenGet == Listen({"get"})

\* onReceived, onMessage, onReturned, onBounced, onData and onComplete of
\* DeferredPublisher.
ListenReturned == Listen({"returned"})

-----------------------------------------------------------------------------
Init ==
    /\ consumers = {} /\ receiver = "none"
    /\ listens = [r \in Receivers |-> {}]
    /\ left = [r \in Receivers |-> 0]
    /\ message = [r \in Receivers |-> NoMessage]
    /\ sending = Idle /\ messages = 0 /\ changes = 0 /\ heard = <<>>

Next ==
    \/ Deliver \/ GetOk \/ Return \/ Header \/ BodyFrame
    \/ Consume \/ Cancel \/ ListenConsumer \/ ListenGet \/ ListenReturned

Spec == Init /\ [][Next]_vars

-----------------------------------------------------------------------------
(* Properties *)

\* The bytes of message id up to n.
Bytes(id, n) == [i \in 1..n |-> <<id, i>>]

\* The calls that tell something of this sort.
Heard(what) == {i \in DOMAIN heard : heard[i].what = what}

\* Every message that is handed out is whole, it is a message for that receiver
\* that nobody has heard of before, and its data was told in the right order.
MessagesWhole ==
    /\ \A c \in ToSet(heard) : c.what = "message" =>
          \E n \in 0..MaxSize : c.body = Bytes(c.id, n)
    /\ \A i, j \in Heard("message") : heard[i].id = heard[j].id => i = j
    /\ \A i, j \in DOMAIN heard : i < j => heard[i].id <= heard[j].id
    /\ \A i, j \in DOMAIN heard : heard[i].id = heard[j].id => heard[i].who = heard[j].who
    /\ \A i, j \in Heard("data") :
          i < j /\ heard[i].id = heard[j].id => Last(heard[i].body)[2] < heard[j].body[1][2]

\* Between two messages no receiver is installed, so that what is not for any
\* receiver reaches none.
NoStrayReceiver ==
    /\ sending = Idle => receiver = "none"
    /\ sending # Idle => receiver \in {"none", sending.to}

\* A message is complete for its receiver, which has been told so, exactly when
\* the server has sent it all.
CompletedOnce ==
    sending # Idle /\ sending' = Idle =>
       LET calls == SubSeq(heard', Len(heard) + 1, Len(heard')) IN
       (receiver # "none" /\ sending.whole) <=>
          \E c \in ToSet(calls) :
             /\ c.what = "message" /\ c.who = sending.to
             /\ c.body = Bytes(sending.id, sending.size)

\* Messages arrive whole, once, and at their receiver, with each frame.
Arrives == MessagesWhole' /\ NoStrayReceiver' /\ CompletedOnce
=============================================================================
