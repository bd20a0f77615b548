--------------------------- MODULE MCAmqpFraming ---------------------------
(* Five frames: two without payload, side by side, and longer ones.        *)
EXTENDS AmqpFraming

MCEnd == [i \in 0..5 |-> <<0, 8, 16, 27, 42, 50>>[i + 1]]
=============================================================================
