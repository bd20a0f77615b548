--------------------------- MODULE DeferredKinds ---------------------------
(***************************************************************************)
(* A Deferred and its callbacks: Deferred (deferred.h) and the classes     *)
(* that are derived from it for the requests whose answer says more        *)
(* (deferredqueue.h, deferreddelete.h, deferredcancel.h,                   *)
(* deferredconsumer.h, deferredget.h, deferredconfirm.h).                  *)
(*                                                                         *)
(* The user registers callbacks at any time, from inside a callback too.   *)
(* A callback is known by its place among those that were registered.      *)
(***************************************************************************)
EXTENDS Naturals, Sequences, SequencesExt

CONSTANT MaxCallbacks  \* bound: callbacks that the user registers

VARIABLES
    kind,        \* the class of the Deferred
    born,        \* failed, as the constructor was told
    failed,      \* _failed
    slots,       \* slots[s]: the callback in the member s, 0 for none
    registered,  \* the callbacks: [method, told], told as it was at that time
    told,        \* what has been reported
    calls        \* the calls: [cb, on], on the report that made them

vars == <<kind, born, failed, slots, registered, told, calls>>

Kinds == {"deferred", "queue", "delete", "cancel", "consumer", "get", "confirm"}

Slots == {"success", "special", "error", "finalize", "message", "count", "empty", "ack", "nack"}

-----------------------------------------------------------------------------
(* Registration *)

This == Len(registered) + 1

Calls(cb, on) == Append(calls, [cb |-> cb, on |-> on])

\* A method that stores its callback in the member s, and when now is true
\* calls it at once.
Register(method, s, now) ==
    /\ told # "gone" /\ Len(registered) < MaxCallbacks
    /\ registered' = Append(registered, [method |-> method, told |-> told])
    /\ slots' = [slots EXCEPT ![s] = This]
    /\ calls' = IF now THEN Calls(This, "failed") ELSE calls
    /\ UNCHANGED <<kind, born, failed, told>>

\* onSuccess(SuccessCallback); DeferredGet hides it.
OnSuccess == kind # "get" /\ Register("onSuccess", "success", FALSE)

\* The onSuccess of a class for the callback of its own.
OnSpecialSuccess(class) == kind = class /\ Register("onSuccess", "special", FALSE)

\* onSuccess(QueueCallback).
OnQueueSuccess == OnSpecialSuccess("queue")

\* onSuccess(DeleteCallback).
OnDeleteSuccess == OnSpecialSuccess("delete")

\* onSuccess(CancelCallback).
OnCancelSuccess == OnSpecialSuccess("cancel")

\* onSuccess(ConsumeCallback).
OnConsumeSuccess == OnSpecialSuccess("consumer")

\* Mutant: a Deferred that has failed is not asked.
OnErrorLate == Register("onError", "error", FALSE)

\* DeferredGet hides the onError that asks whether it has failed.
OnError == Register("onError", "error", failed /\ kind # "get")

OnFinalize == Register("onFinalize", "finalize", failed)

\* onSuccess(MessageCallback), onReceived and onMessage, onCount and onEmpty.
OnGet ==
    /\ kind = "get"
    /\ \/ Register("onReceived", "message", FALSE)
       \/ Register("onCount", "count", FALSE)
       \/ Register("onEmpty", "empty", FALSE)

OnConfirm ==
    /\ kind = "confirm"
    /\ Register("onAck", "ack", FALSE) \/ Register("onNack", "nack", FALSE)

-----------------------------------------------------------------------------
(* Reports *)

\* The call of the callback in the member s, if there is one.
CallOf(s, on) == IF slots[s] # 0 THEN <<[cb |-> slots[s], on |-> on]>> ELSE <<>>

Call(s, on) == calls' = calls \o CallOf(s, on)

\* Mutant: the plain callback is called as well.
SuccessBoth == CallOf("special", "success") \o CallOf("success", "success")

\* The plain callback is told a success unless there is another.
SuccessCall ==
    CallOf(IF slots["special"] # 0 THEN "special" ELSE "success", "success")

\* reportSuccess(), in all its forms; that of DeferredGet tells an empty queue
\* from a message.  What was not sent is not answered.
ReportSuccess ==
    /\ told = "waiting" /\ ~born
    /\ told' = "success"
    /\ IF kind = "get" THEN \/ calls' = calls \o CallOf("count", "success") \o CallOf("empty", "success")
                            \/ Call("count", "success")
       ELSE calls' = calls \o SuccessCall
    /\ UNCHANGED <<kind, born, failed, slots, registered>>

\* reportError().
ReportError ==
    /\ told = "waiting"
    /\ told' = "error" /\ failed' = TRUE
    /\ Call("error", "error")
    /\ UNCHANGED <<kind, born, slots, registered>>

\* DeferredConfirm::process: the server confirms messages, from then on.
Confirms ==
    /\ kind = "confirm" /\ told = "success" /\ Len(calls) < MaxCallbacks
    /\ Call("ack", "ack") \/ Call("nack", "nack")
    /\ UNCHANGED <<kind, born, failed, slots, registered, told>>

\* Mutant: nothing is called at the end of a Deferred that has failed.
DestroyQuietly ==
    /\ told # "gone"
    /\ told' = "gone"
    /\ IF failed THEN UNCHANGED calls ELSE Call("finalize", "gone")
    /\ UNCHANGED <<kind, born, failed, slots, registered>>

\* ~Deferred(), when the channel lets go of it.
Destroy ==
    /\ told # "gone"
    /\ told' = "gone"
    /\ Call("finalize", "gone")
    /\ UNCHANGED <<kind, born, failed, slots, registered>>

-----------------------------------------------------------------------------
Init ==
    /\ kind \in Kinds /\ born \in BOOLEAN /\ failed = born
    /\ slots = [s \in Slots |-> 0]
    /\ registered = <<>> /\ told = "waiting" /\ calls = <<>>

Next ==
    \/ OnSuccess \/ OnQueueSuccess \/ OnDeleteSuccess \/ OnCancelSuccess \/ OnConsumeSuccess
    \/ OnError \/ OnFinalize \/ OnGet \/ OnConfirm
    \/ ReportSuccess \/ ReportError \/ Confirms \/ Destroy

Spec == Init /\ [][Next]_vars

-----------------------------------------------------------------------------
(* Properties *)

\* The callbacks that method was given while told was t.
Given(method, t) ==
    {cb \in DOMAIN registered : registered[cb].method = method /\ registered[cb].told = t}

\* The calls that a report has made.
On(on) == {i \in DOMAIN calls : calls[i].on = on}

Called(on) == {calls[i].cb : i \in On(on)}

Latest(cbs) == CHOOSE cb \in cbs : \A c \in cbs : c <= cb

\* Of the callbacks given to onSuccess one is told the success, and none when
\* there is no success; which of them depends on their types, not, as deferred.h
\* 211-213 has it, on their order.
OneSuccess ==
    /\ told = "success" /\ kind # "get" =>
          Cardinality(On("success")) = (IF Given("onSuccess", "waiting") = {} THEN 0 ELSE 1)
    /\ On("success") # {} => On("error") = {}
    /\ kind # "get" => Called("success") \subseteq Given("onSuccess", "waiting")

\* "If the object is already in a failed state, we call the callback right
\* away" (deferred.h 236, 268): whoever registers for an error is told it, the
\* latest by the report and later ones when they register -- but for DeferredGet,
\* which tells those that come late nothing.
ErrorsTold ==
    /\ told = "error" /\ Given("onError", "waiting") # {} =>
          Called("error") = {Latest(Given("onError", "waiting"))}
    /\ kind # "get" =>
          /\ Given("onError", "error") \subseteq Called("failed")
          /\ born => Given("onError", "waiting") \subseteq Called("failed")
    /\ ~failed => Called("failed") = {}

\* "This function will be called either way" (deferred.h 257-259): the latest
\* is called at the end.
FinalizedInTheEnd ==
    LET finalizers == {cb \in DOMAIN registered : registered[cb].method = "onFinalize"}
    IN told = "gone" /\ finalizers # {} =>
          /\ Last(calls) = [cb |-> Latest(finalizers), on |-> "gone"]
          /\ Cardinality(On("gone")) = 1

\* The callbacks of a Deferred are called as its class promises.
CallsBack == OneSuccess /\ ErrorsTold /\ FinalizedInTheEnd
=============================================================================
