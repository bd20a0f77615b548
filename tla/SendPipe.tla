----------------------------- MODULE SendPipe -----------------------------
(***************************************************************************)
(* What TcpMgr promises of the frames an AMQP connection gives to SendData *)
(* (RmqMgrBase.cpp 622-669): a first-in first-out pipe.  A frame leaves it *)
(* for the TCP connection in the order it came, once; a frame written to a *)
(* connection that has failed is lost; a new TCP connection starts with    *)
(* nothing on it.  Nothing else is ever done to a frame.                   *)
(***************************************************************************)
EXTENDS Sequences, SequencesExt

VARIABLES
    out,   \* frames given to the pipe and not yet written
    wire   \* frames the current TCP connection has carried

vars == <<out, wire>>

Init == out = <<>> /\ wire = <<>>

\* SendData: frames join at the back.
Post == IsPrefix(out, out') /\ UNCHANGED wire

\* async_write: the frame in front goes out.
Deliver ==
    /\ out # <<>>
    /\ out' = Tail(out)
    /\ wire' = Append(wire, Head(out))

\* The frame in front is written to a connection that has failed.
Lose == out # <<>> /\ out' = Tail(out) /\ UNCHANGED wire

\* OnConnect's TCP connection.
NewLink == wire' = <<>> /\ UNCHANGED out

Next == Post \/ Deliver \/ Lose \/ NewLink

Spec == Init /\ [][Next]_vars
=============================================================================
