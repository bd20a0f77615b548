---------------------------- MODULE AmqpObjects ----------------------------
(***************************************************************************)
(* What a channel of AMQP-CPP is made of, each part with all that its      *)
(* surroundings may do to it: a channel with the list of its Deferreds     *)
(* (AmqpChannel), one Deferred with its callbacks (DeferredKinds), the     *)
(* receivers of messages (AmqpDelivery), the properties of a message that  *)
(* go through a frame (AmqpValues), and addresses (AmqpAddress).           *)
(*                                                                         *)
(* A behaviour is about one part; the others stay as they are.             *)
(***************************************************************************)
EXTENDS Naturals, Sequences

CONSTANTS
    MaxRequests,                         \* AmqpChannel
    MaxCallbacks,                        \* DeferredKinds
    Tags, MaxSize, MaxMessages, MaxChanges,  \* AmqpDelivery
    Byte, Names, MaxSets,                \* AmqpValues
    Words, Ports                         \* AmqpAddress

ASSUME AmqpObjectsAssumption ==
    /\ {MaxRequests, MaxCallbacks, MaxSize, MaxMessages, MaxChanges, MaxSets} \subseteq Nat
    /\ Tags \cap {"none", "get", "returned"} = {}
    /\ Byte \in Nat /\ Byte > 10 /\ Names \subseteq 0..(Byte - 1)
    /\ \A w \in Words \cup Ports : w \notin {"@", ":", "/"}

VARIABLES
    part,                                                           \* the part it is about
    state, synchronous, queue, oldest, newest, deferred, report, alive, sent, answered, made,
    kind, born, failed, slots, registered, told, calls,
    consumers, receiver, listens, left, message, sending, messages, changes, heard,
    bools, value, sets

Channel == INSTANCE AmqpChannel

Deferred == INSTANCE DeferredKinds

Delivery == INSTANCE AmqpDelivery

Values == INSTANCE AmqpValues

Address == INSTANCE AmqpAddress

channelVars == <<state, synchronous, queue, oldest, newest, deferred, report, alive, sent,
                 answered, made>>
deferredVars == <<kind, born, failed, slots, registered, told, calls>>
deliveryVars == <<consumers, receiver, listens, left, message, sending, messages, changes, heard>>
valueVars == <<bools, value, sets>>
vars == <<part, channelVars, deferredVars, deliveryVars, valueVars>>

-----------------------------------------------------------------------------
ChannelStep(A) ==
    part = "channel" /\ A /\ UNCHANGED <<part, deferredVars, deliveryVars, valueVars>>

DeferredStep(A) ==
    part = "deferred" /\ A /\ UNCHANGED <<part, channelVars, deliveryVars, valueVars>>

DeliveryStep(A) ==
    part = "delivery" /\ A /\ UNCHANGED <<part, channelVars, deferredVars, valueVars>>

ValueStep(A) ==
    part = "values" /\ A /\ UNCHANGED <<part, channelVars, deferredVars, deliveryVars>>

\* A Deferred is of one class only where it is the part in question.
Init ==
    /\ part \in {"channel", "deferred", "delivery", "values"}
    /\ Channel!Init /\ Deferred!Init /\ Delivery!Init /\ Values!Init
    /\ part # "deferred" => kind = "deferred" /\ ~born

Next ==
    \/ ChannelStep(Channel!Answers) \/ ChannelStep(Channel!Refuses)
    \/ ChannelStep(Channel!Returns) \/ ChannelStep(Channel!Declare)
    \/ ChannelStep(Channel!DeclareQueue) \/ ChannelStep(Channel!Consume)
    \/ ChannelStep(Channel!Publish) \/ ChannelStep(Channel!Acknowledge) \/ ChannelStep(Channel!Close)
    \/ ChannelStep(Channel!CloseAgain) \/ ChannelStep(Channel!Destroy)
    \/ DeferredStep(Deferred!OnSuccess)
    \/ DeferredStep(Deferred!OnQueueSuccess) \/ DeferredStep(Deferred!OnDeleteSuccess)
    \/ DeferredStep(Deferred!OnCancelSuccess) \/ DeferredStep(Deferred!OnConsumeSuccess)
    \/ DeferredStep(Deferred!OnError) \/ DeferredStep(Deferred!OnFinalize)
    \/ DeferredStep(Deferred!OnGet) \/ DeferredStep(Deferred!OnConfirm)
    \/ DeferredStep(Deferred!ReportSuccess) \/ DeferredStep(Deferred!ReportError)
    \/ DeferredStep(Deferred!Confirms) \/ DeferredStep(Deferred!Destroy)
    \/ DeliveryStep(Delivery!Deliver) \/ DeliveryStep(Delivery!GetOk)
    \/ DeliveryStep(Delivery!Return) \/ DeliveryStep(Delivery!Header)
    \/ DeliveryStep(Delivery!BodyFrame) \/ DeliveryStep(Delivery!Consume)
    \/ DeliveryStep(Delivery!Cancel)
    \/ DeliveryStep(Delivery!ListenConsumer) \/ DeliveryStep(Delivery!ListenGet)
    \/ DeliveryStep(Delivery!ListenReturned)
    \/ ValueStep(Values!SetString) \/ ValueStep(Values!SetNumber)
    \/ ValueStep(Values!SetHeader)
    \/ ValueStep(Values!SetPersistent(TRUE)) \/ ValueStep(Values!SetPersistent(FALSE))

\* Callbacks return, and the server answers.
Fairness ==
    WF_vars(ChannelStep(Channel!Returns)) /\ WF_vars(ChannelStep(Channel!Answers))

Spec == Init /\ [][Next]_vars /\ Fairness
-----------------------------------------------------------------------------
(* Properties *)

\* channelimpl.h, deferred.h: no Deferred that waits is lost from the list.
ChainHoldsWaiting == part = "channel" => Channel!TypeOK /\ Channel!ChainHoldsWaiting

\* channelimpl.h: each request is told one thing, by the answer that is its own.
Verdicts == part = "channel" => Channel!Verdicts

\* channelimpl.h: the server gets the requests in turn.
SentInTurn == part = "channel" => Channel!SentInTurn

\* channelimpl.h: each request is told something in the end.
Answered == Channel!Answered

\* deferred.h and the classes derived from it: who is called back for what.
CallsBack == part = "deferred" => Deferred!CallsBack

\* message.h and the receivers: messages arrive whole, once, at their receiver.
MessagesArrive == [][Delivery!Arrives]_deliveryVars

\* metadata.h, address.h: what is written is read again.
RoundTrip == part = "values" => Values!SurvivesFrame /\ Address!ReadsPrinted
=============================================================================
