----------------------------- MODULE AmqpValues -----------------------------
(***************************************************************************)
(* How the properties of a message are written to a header frame and read  *)
(* from it: MetaData (metadata.h), with the values it is made of: the bits *)
(* of BooleanSet (booleanset.h), StringField (stringfield.h), NumericField *)
(* (numericfield.h), DecimalField (decimalfield.h), Table (table.h) and    *)
(* its FieldProxy (fieldproxy.h).  The frame goes through CopiedBuffer     *)
(* (copiedbuffer.h), which has room for as many bytes as size() says.      *)
(*                                                                         *)
(* A byte has one of Byte values instead of 2^8.  A string is the sequence *)
(* of its bytes, so is every other value.                                  *)
(***************************************************************************)
EXTENDS Naturals, Sequences, SequencesExt

CONSTANTS
    Byte,    \* how many values a byte has: 2^8, scaled
    Names,   \* the keys of a table
    MaxSets  \* bound: properties that the user sets

VARIABLES
    bools,  \* bools[b]: the bits that are set in _bools1 and _bools2
    value,  \* value[f]: the bytes of f; for the headers, a table
    sets

vars == <<bools, value, sets>>

-----------------------------------------------------------------------------
(* Values *)

\* n in k bytes, in network order, as far as they go; no number here needs more
\* than three.
Bytes(n, k) ==
    [i \in 1..k |-> CASE i = k -> n % Byte
                      [] i = k - 1 -> (n \div Byte) % Byte
                      [] i = k - 2 -> ((n \div Byte) \div Byte) % Byte
                      [] OTHER -> 0]

Number(bytes) ==
    LET number[i \in 0..Len(bytes)] == IF i = 0 THEN 0 ELSE number[i - 1] * Byte + bytes[i]
    IN number[Len(bytes)]

\* A sum of sizes.
Total(sizes) ==
    LET total[i \in 0..Len(sizes)] == IF i = 0 THEN 0 ELSE total[i - 1] + sizes[i]
    IN total[Len(sizes)]

\* The classes of the fields of a table, by typeID, and how long they are; a
\* LongString, "S", has its length in four bytes before it.
TypeIDs == <<"t", "B", "b", "u", "U", "i", "I", "l", "L", "D", "S">>

Width == [t |-> 1, B |-> 1, b |-> 1, u |-> 2, U |-> 2, i |-> 4, I |-> 4, l |-> 8, L |-> 8, D |-> 5]

\* What FieldProxy makes of a value of a C++ type; that of an Array or a Table,
\* which nests a table in the headers, is left out.
ClassOf ==
    [bool |-> "t", uint8_t |-> "B", int8_t |-> "b", uint16_t |-> "u", int16_t |-> "U",
     uint32_t |-> "i", int32_t |-> "I", uint64_t |-> "l", int64_t |-> "L",
     DecimalField |-> "D", string |-> "S"]

\* ShortString: the length is cut to a byte, the string is not.
ShortString(s) == Bytes(Len(s), 1) \o s

LongString(s) == Bytes(Len(s), 4) \o s

\* DecimalField: the places and the number.
Decimal(places, number) == Bytes(places, 1) \o Bytes(number, 4)

FieldSize(v) == IF v.type = "S" THEN 4 + Len(v.bytes) ELSE Width[v.type]

FieldBytes(v) == IF v.type = "S" THEN LongString(v.bytes) ELSE v.bytes

\* Table::set: a new value takes the place of an old one.
Put(table, k, v) ==
    [j \in DOMAIN table \cup {k} |-> IF j = k THEN v ELSE table[j]]

\* In the order of the map, which nobody relies on.
Keys(table) == SetToSeq(DOMAIN table)

TypeByte(type) == (CHOOSE i \in DOMAIN TypeIDs : TypeIDs[i] = type) - 1

EntrySize(v) == 2 + 1 + FieldSize(v)

EntryBytes(k, v) == (ShortString(<<k>>) \o <<TypeByte(v.type)>>) \o FieldBytes(v)

\* Table::fill, size() and the constructor from a frame.
TableSize(table) ==
    LET keys == Keys(table)
    IN 4 + Total([i \in 1..Len(keys) |-> EntrySize(table[keys[i]])])

TableBytes(table) ==
    LET keys == Keys(table)
    IN Bytes(TableSize(table) - 4, 4)
       \o FlattenSeq([i \in 1..Len(keys) |-> EntryBytes(keys[i], table[keys[i]])])

-----------------------------------------------------------------------------
(* MetaData *)

\* Mutant: in the order of the getters.
GetterOrder ==
    <<"contentType", "contentEncoding", "headers", "deliveryMode", "priority", "correlationID",
      "replyTo", "expiration", "timestamp", "messageID", "typeName", "userID", "appID", "clusterID">>

\* The order of the fields in fill().
WireOrder ==
    <<"contentType", "contentEncoding", "headers", "deliveryMode", "priority", "correlationID",
      "replyTo", "expiration", "messageID", "timestamp", "typeName", "userID", "appID", "clusterID">>

\* The order in which the constructor reads them.
ReadOrder ==
    <<"contentType", "contentEncoding", "headers", "deliveryMode", "priority", "correlationID",
      "replyTo", "expiration", "messageID", "timestamp", "typeName", "userID", "appID", "clusterID">>

Octets == {"deliveryMode", "priority"}

Strings == ToSet(WireOrder) \ (Octets \cup {"headers", "timestamp"})

\* The flag of each field: which of the two bytes, and the bit in it.
Bit ==
    [expiration |-> <<1, 0>>, replyTo |-> <<1, 1>>, correlationID |-> <<1, 2>>,
     priority |-> <<1, 3>>, deliveryMode |-> <<1, 4>>, headers |-> <<1, 5>>,
     contentEncoding |-> <<1, 6>>, contentType |-> <<1, 7>>, clusterID |-> <<2, 2>>,
     appID |-> <<2, 3>>, userID |-> <<2, 4>>, typeName |-> <<2, 5>>,
     timestamp |-> <<2, 6>>, messageID |-> <<2, 7>>]

\* hasExpiration() and the like.
Has(bs, f) == Bit[f][2] \in bs[Bit[f][1]]

\* size(), without the two bytes of flags.
SizeOf(f) ==
    CASE f \in Strings -> 1 + Len(value[f])
      [] f \in Octets -> 1
      [] f = "timestamp" -> 8
      [] f = "headers" -> TableSize(value[f])

Size ==
    Total([i \in 1..Len(WireOrder) |->
             IF Has(bools, WireOrder[i]) THEN SizeOf(WireOrder[i]) ELSE 0])

BytesOf(f) ==
    CASE f \in Strings -> ShortString(value[f])
      [] f = "headers" -> TableBytes(value[f])
      [] OTHER -> value[f]

\* fill(), behind the two bytes of flags.
Fill ==
    FlattenSeq([i \in 1..Len(WireOrder) |->
                  IF Has(bools, WireOrder[i]) THEN BytesOf(WireOrder[i]) ELSE <<>>])

-----------------------------------------------------------------------------
(* Reading: [rest, ok, got], where ok is false once a FrameCheck has thrown *)

Take(r, n) ==
    IF r.ok /\ n <= Len(r.rest)
    THEN [rest |-> SubSeq(r.rest, n + 1, Len(r.rest)), ok |-> TRUE, got |-> SubSeq(r.rest, 1, n)]
    ELSE [r EXCEPT !.ok = FALSE, !.got = <<>>]

\* A number of class type.
TakeNumber(r, type) == Take(r, Width[type])

\* A string with its length in k bytes.
TakeString(r, k) == LET size == Take(r, k) IN Take(size, Number(size.got))

\* Field::decode, and the entry of a table that it is part of; what is not
\* decoded, and what comes when the bytes of the table are used up, is left out.
TakeEntry(t) ==
    IF t.used >= t.size \/ ~t.r.ok THEN t
    ELSE LET name == TakeString(t.r, 1)
             id == Take(name, 1)
             type == TypeIDs[Number(id.got) + 1]
             field == IF type = "S" THEN TakeString(id, 4) ELSE TakeNumber(id, type)
             v == [type |-> type, bytes |-> field.got]
         IN [r |-> field, size |-> t.size,
             used |-> t.used + 1 + Len(name.got) + 1 + FieldSize(v),
             table |-> Put(t.table, name.got[1], v)]

\* An entry is not empty, so there are no more turns than bytes.
TakeTable(r) ==
    LET size == Take(r, 4)
        turn[n \in 0..Number(size.got)] ==
            IF n = 0 THEN [r |-> size, used |-> 0, size |-> Number(size.got), table |-> <<>>]
            ELSE TakeEntry(turn[n - 1])
        last == turn[Number(size.got)]
    IN [rest |-> last.r.rest, ok |-> last.r.ok, got |-> last.table]

TakeField(r, f) ==
    CASE f \in Strings -> TakeString(r, 1)
      [] f \in Octets -> TakeNumber(r, "B")
      [] f = "timestamp" -> TakeNumber(r, "l")
      [] f = "headers" -> TakeTable(r)

TakeProperty(m, f) ==
    IF ~Has(bools, f) THEN m
    ELSE LET r == TakeField(m.r, f) IN [r |-> r, value |-> [m.value EXCEPT ![f] = r.got]]

\* MetaData(ReceivedFrame &), and set(), with which a Message takes it over.
Read(bytes) ==
    LET read[n \in 0..Len(ReadOrder)] ==
            IF n = 0 THEN [r |-> [rest |-> bytes, ok |-> TRUE, got |-> <<>>],
                           value |-> [f \in ToSet(ReadOrder) |-> <<>>]]
            ELSE TakeProperty(read[n - 1], ReadOrder[n])
    IN read[Len(ReadOrder)]

-----------------------------------------------------------------------------
(* The setters *)

Raise(bs, f) == [bs EXCEPT ![Bit[f][1]] = @ \cup {Bit[f][2]}]

Set(f, bytes) ==
    /\ sets < MaxSets /\ sets' = sets + 1
    /\ value' = [value EXCEPT ![f] = bytes]
    /\ bools' = Raise(bools, f)

\* Strings that are empty, fit, and do not fit into a ShortString.
SetString ==
    \E f \in Strings, n \in {0, 1, Byte + 1} : Set(f, [i \in 1..n |-> 1])

SetNumber ==
    \/ \E f \in Octets, n \in 0..(Byte - 1) : Set(f, <<n>>)
    \/ Set("timestamp", Bytes(Byte + 1, 8))

\* A field of the headers, through FieldProxy.
SetHeader ==
    \E k \in Names, type \in DOMAIN ClassOf :
       LET class == ClassOf[type]
           bytes == CASE class = "S" -> Bytes(1, Byte + 1)
                      [] class = "D" -> Decimal(2, Byte + 1)
                      [] OTHER -> Bytes(1, Width[class])
       IN Set("headers", Put(value["headers"], k, [type |-> class, bytes |-> bytes]))

\* setPersistent().
SetPersistent(on) ==
    IF on THEN Set("deliveryMode", <<2>>)
    ELSE /\ sets < MaxSets /\ sets' = sets + 1
         /\ value' = [value EXCEPT !["deliveryMode"] = <<0>>]
         /\ bools' = [bools EXCEPT ![1] = @ \ {4}]

Init ==
    /\ bools = [b \in 1..2 |-> {}]
    /\ value = [f \in ToSet(WireOrder) |->
                  CASE f \in Octets -> <<0>> [] f = "timestamp" -> Bytes(0, 8) [] OTHER -> <<>>]
    /\ sets = 0

Next == SetString \/ SetNumber \/ SetHeader \/ SetPersistent(TRUE) \/ SetPersistent(FALSE)

Spec == Init /\ [][Next]_vars

-----------------------------------------------------------------------------
(* Properties *)

\* fill() writes as much as size() says, so that CopiedBuffer is never written
\* past its end, even by a string that is too long for its length.
RoomInBuffer == Len(Fill) = Size

Fits == \A f \in Strings : Len(value[f]) < Byte

\* What a receiver reads from a header frame is what the sender has set, each
\* field with its own flag and in its place; unless a ShortString is longer than
\* its length byte can say, which nothing rejects.
ReadsWhatWasSet ==
    Fits => LET m == Read(Fill) IN
            /\ m.r.ok /\ m.r.rest = <<>>
            /\ \A f \in ToSet(WireOrder) : Has(bools, f) => m.value[f] = value[f]
            /\ \A f, g \in ToSet(WireOrder) : Bit[f] = Bit[g] => f = g

\* A message survives the way through a frame.
SurvivesFrame == RoomInBuffer /\ ReadsWhatWasSet
=============================================================================
