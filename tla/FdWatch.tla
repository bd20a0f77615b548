------------------------------ MODULE FdWatch ------------------------------
(***************************************************************************)
(* What AMQP-CPP asks of an event loop handler (TcpHandler::monitor,       *)
(* linux_tcp/tcphandler.h 195-215, and TcpConnection::process,             *)
(* tcpconnection.h 202-214): the connection says which events of which     *)
(* file descriptor it wants, and is called when one of them has happened.  *)
(* It is never called for a descriptor it has withdrawn, nor for an event  *)
(* it does not want; an error of the descriptor counts as all events.      *)
(***************************************************************************)
CONSTANTS
    Keys,   \* the descriptors a handler may be asked to watch
    Flags   \* AMQP::readable, AMQP::writable

VARIABLES
    interest,  \* the events wanted of each descriptor
    call       \* the last call of process: descriptor, events, and a bit that
               \* tells it from the one before

vars == <<interest, call>>

TypeOK ==
    /\ interest \in [Keys -> SUBSET Flags]
    /\ call \in [key : Keys, flags : SUBSET Flags, odd : BOOLEAN]

Init == TypeOK /\ interest = [k \in Keys |-> {}]

\* TcpHandler::monitor, from outside a callback.
Monitor == interest' \in [Keys -> SUBSET Flags] /\ UNCHANGED call

\* TcpConnection::process, which may call monitor itself.
Process(k) ==
    /\ interest[k] # {}
    /\ \E fl \in (SUBSET Flags) \ {{}} :
          /\ fl \subseteq interest[k] \/ fl = Flags
          /\ call' = [key |-> k, flags |-> fl, odd |-> ~call.odd]
    /\ interest' \in [Keys -> SUBSET Flags]

Next == Monitor \/ \E k \in Keys : Process(k)

Spec == Init /\ [][Next]_vars
=============================================================================
