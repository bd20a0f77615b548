---------------------------- MODULE AmqpAddress ----------------------------
(***************************************************************************)
(* Address (address.h): an address of a server, printed as                 *)
(*     amqp[s]://user:password@host[:port]/[vhost]                         *)
(* and read from such a text.  A text is a sequence of words and of the    *)
(* separators "@", ":" and "/" between them, a port is a word.             *)
(***************************************************************************)
EXTENDS Naturals, Sequences, SequencesExt

CONSTANTS
    Words,  \* words without a separator
    Ports   \* ports, among them the default ones

Separators == {"@", ":", "/"}

\* The first place of c in s, or 0.
First(s, c) == IF Contains(s, c) THEN CHOOSE i \in DOMAIN s :
                                        s[i] = c /\ \A j \in 1..(i - 1) : s[j] # c
               ELSE 0

Before(s, i) == SubSeq(s, 1, i - 1)

After(s, i) == SubSeq(s, i + 1, Len(s))

DefaultPort(secure) == IF secure THEN "5671" ELSE "5672"

\* A Login without arguments.
Guest == [user |-> <<"guest">>, password |-> <<"guest">>]

\* What stands before the "@": all of it the user when it has no ":".
ReadLogin(s) ==
    LET colon == First(s, ":") IN
    IF colon = 0 THEN [user |-> s, password |-> <<>>]
    ELSE [user |-> Before(s, colon), password |-> After(s, colon)]

\* Mutant: a ":" behind the "/" is taken for that of the port as well.
ReadAnyColon(text) ==
    LET secure == text[1] = "amqps://"
        at == First(Tail(text), "@")
        rest == After(Tail(text), at)
        slash == First(rest, "/")
        colon == First(rest, ":")
        end == IF slash = 0 THEN Len(rest) + 1 ELSE slash
    IN [secure |-> secure,
        login |-> IF at = 0 THEN Guest ELSE ReadLogin(Before(Tail(text), at)),
        host |-> Before(rest, IF colon # 0 THEN colon ELSE end),
        port |-> IF colon # 0 THEN SubSeq(rest, colon + 1, end - 1)
                              ELSE <<DefaultPort(secure)>>,
        vhost |-> IF slash # 0 /\ slash < Len(rest) THEN After(rest, slash) ELSE <<"/">>]

\* Address(const char *, size_t), of a text that starts with a protocol.
Read(text) ==
    LET secure == text[1] = "amqps://"
        at == First(Tail(text), "@")
        rest == After(Tail(text), at)
        slash == First(rest, "/")
        colon == First(rest, ":")
        end == IF slash = 0 THEN Len(rest) + 1 ELSE slash
        ported == colon # 0 /\ colon < end
    IN [secure |-> secure,
        login |-> IF at = 0 THEN Guest ELSE ReadLogin(Before(Tail(text), at)),
        host |-> Before(rest, IF ported THEN colon ELSE end),
        port |-> IF ported THEN SubSeq(rest, colon + 1, end - 1) ELSE <<DefaultPort(secure)>>,
        vhost |-> IF slash # 0 /\ slash < Len(rest) THEN After(rest, slash) ELSE <<"/">>]

\* The rest of a printed address, behind the host.
Place(a, default) ==
    a.host \o (IF a.port = <<default>> THEN <<>> ELSE <<":">> \o a.port)
    \o <<"/">> \o (IF a.vhost = <<"/">> THEN <<>> ELSE a.vhost)

Protocol(a) == IF a.secure THEN <<"amqps://">> ELSE <<"amqp://">>

\* operator std::string: 5672 counts as the default, for amqps:// too.
Printed(a) ==
    Protocol(a) \o a.login.user \o <<":">> \o a.login.password \o <<"@">> \o Place(a, "5672")

\* operator<<: a login that is empty is left out, and so is the port that Read
\* takes when there is none.
Output(a) ==
    Protocol(a)
    \o (IF a.login = [user |-> <<>>, password |-> <<>>] THEN <<>>
        ELSE a.login.user \o <<":">> \o a.login.password \o <<"@">>)
    \o Place(a, DefaultPort(a.secure))

-----------------------------------------------------------------------------
(* Properties *)

Texts == {<<>>} \cup {<<w>> : w \in Words} \cup {<<w, c, w>> : w \in Words, c \in Separators}

Without(s, cs) == ToSet(s) \cap cs = {}

\* Addresses that can be told apart once they are printed: no separator where
\* the next one is looked for, and a vhost.
Addresses ==
    [secure : BOOLEAN,
     login : [user : {s \in Texts : Without(s, {":", "@"})}, password : {s \in Texts : Without(s, {"@"})}],
     host : {<<w>> : w \in Words},
     port : {<<p>> : p \in Ports},
     vhost : {<<"/">>} \cup {s \in Texts \ {<<>>} : Without(s, {"@"})}]

\* An address that is printed is read back as it was, whatever its password and
\* vhost hold, except that amqps:// on port 5672 loses its port to operator
\* std::string and an empty login becomes guest's with operator<<.
ReadsPrinted ==
    \A a \in Addresses :
       /\ ~(a.secure /\ a.port = <<"5672">>) => Read(Printed(a)) = a
       /\ Read(Output(a)) = IF a.login = [user |-> <<>>, password |-> <<>>]
                            THEN [a EXCEPT !.login = Guest] ELSE a
=============================================================================
