-------------------------- MODULE AmqpValuesProofs --------------------------
(***************************************************************************)
(* Theorems about the properties of a message that go through a frame, for *)
(* a byte of any size, any names and any number of sets.                   *)
(*                                                                         *)
(* The invariant is what the setters make of the values (ValueTypes).  In  *)
(* a state that has it fill() is laid out from its front (FillLayout): the *)
(* first field and the bytes of the others, and so on.  The constructor    *)
(* takes one field off the front in each turn (NextField), which leaves it *)
(* with the bytes of the others.  The headers are laid out and read in the *)
(* same way, entry by entry (TableLayout, NextEntry), and have turns to    *)
(* spare in which nothing is read any more (ReadTable).  Strings that fit  *)
(* and tables that are small are what makes a length readable: OneByte,    *)
(* FourBytes, TableSmall.                                                  *)
(***************************************************************************)
EXTENDS AmqpPartsProofs

-----------------------------------------------------------------------------
(* Recursion, sums and flattening *)

\* f begins with c and goes on by D.
Follows(f, n, c, D) == f[0] = c /\ \A i \in 1..n : f[i] = D[i][f[i - 1]]

\* What is defined of a number by what it is of the one before exists.
LEMMA Recursion ==
    ASSUME NEW n \in Nat, NEW S, NEW c \in S, NEW D \in [1..n -> [S -> S]]
    PROVE  \E f \in [0..n -> S] : Follows(f, n, c, D)
<1> USE DEF Follows
<1> DEFINE Upto(f, k) == Follows(f, k, c, D)
           T == {k \in 0..n : \E f \in [0..k -> S] : Upto(f, k)}
<1>1. 0 \in T
  <2> DEFINE g == [i \in 0..0 |-> c]
  <2>1. g \in [0..0 -> S] /\ Upto(g, 0) /\ 0 \in 0..n
    OBVIOUS
  <2> HIDE DEF g, Upto
  <2>2. QED
    BY <2>1, Zenon
<1>2. ASSUME NEW k \in 0..(n - 1), k \in T
      PROVE  k + 1 \in T
  <2>1. PICK f \in [0..k -> S] : Upto(f, k)
    BY <1>2
  <2> DEFINE g == [i \in 0..(k + 1) |-> IF i = k + 1 THEN D[k + 1][f[k]] ELSE f[i]]
  <2>2. D[k + 1] \in [S -> S] /\ f[k] \in S
    BY <2>1
  <2>3. D[k + 1][f[k]] \in S
    BY <2>2
  <2>4. g \in [0..(k + 1) -> S]
    BY <2>1, <2>3
  <2>5. Upto(g, k + 1)
    <3>1. g[0] = c
      BY <2>1
    <3>2. ASSUME NEW i \in 1..(k + 1) PROVE g[i] = D[i][g[i - 1]]
      <4>1. CASE i = k + 1
        BY <4>1
      <4>2. CASE i # k + 1
        <5>1. i \in 1..k /\ i - 1 \in 0..k
          BY <4>2
        <5>2. g[i] = f[i] /\ g[i - 1] = f[i - 1]
          BY <5>1
        <5>3. QED
          BY <2>1, <5>1, <5>2
      <4>3. QED
        BY <4>1, <4>2
    <3>3. QED
      BY <3>1, <3>2
  <2> HIDE DEF Upto, g
  <2>6. QED
    BY <2>4, <2>5
<1> HIDE DEF T
<1>3. \A k \in 0..n : k \in T
  BY <1>1, <1>2, RangeInduction
<1>4. n \in T
  BY <1>3
<1>5. QED
  BY <1>4 DEF T

\* A string: its bytes.
Str == Seq(Nat)

\* A sum of sizes, as far as it was counted.
LEMMA TotalUpTo ==
    ASSUME NEW s \in Seq(Nat)
    PROVE  \E f \in [0..Len(s) -> Nat] :
              /\ f[0] = 0 /\ \A i \in 1..Len(s) : f[i] = f[i - 1] + s[i]
              /\ Values!Total(s) = f[Len(s)]
<1> DEFINE n == Len(s)
           D == [i \in 1..n |-> [x \in Nat |-> x + s[i]]]
           Sum(f) == [i \in 0..n |-> IF i = 0 THEN 0 ELSE f[i - 1] + s[i]]
           F == CHOOSE f : f = Sum(f)
<1>1. n \in Nat /\ \A i \in 1..n : s[i] \in Nat
  BY LenProperties
<1>2. D \in [1..n -> [Nat -> Nat]]
  BY <1>1
<1>3. PICK f \in [0..n -> Nat] : Follows(f, n, 0, D)
  <2>1. 0 \in Nat
    OBVIOUS
  <2> HIDE DEF D, n
  <2>2. QED
    BY <1>1, <1>2, <2>1, Recursion, Zenon
<1>4. ASSUME NEW i \in 1..n PROVE f[i] = f[i - 1] + s[i]
  <2>1. i - 1 \in 0..n /\ f[i - 1] \in Nat
    <3> HIDE DEF n, D
    <3>1. QED
      BY <1>1, <1>3
  <2>2. D[i][f[i - 1]] = f[i - 1] + s[i]
    BY <2>1
  <2>3. QED
    BY <1>3, <2>2, Zenon DEF Follows
<1>5. f = Sum(f)
  BY <1>3, <1>4 DEF Follows
<1>6. F = Sum(F)
  <2> HIDE DEF Sum
  <2>1. QED
    BY <1>5, Zenon
<1>7. F[0] = 0 /\ \A i \in 1..n : F[i] = F[i - 1] + s[i]
  <2> HIDE DEF F
  <2>1. QED
    BY <1>1, <1>6
<1>8. Values!Total(s) = F[n]
  BY Zenon DEF Values!Total
<1> HIDE DEF F
<1>9. F[n] = f[n]
  <2> DEFINE T == {i \in 0..n : F[i] = f[i]}
  <2>1. 0 \in T
    BY <1>1, <1>3, <1>7 DEF Follows
  <2>2. ASSUME NEW i \in 0..(n - 1), i \in T PROVE i + 1 \in T
    <3>1. i + 1 \in 1..n /\ (i + 1) - 1 = i /\ i + 1 \in 0..n
      BY <1>1
    <3>2. F[i + 1] = F[i] + s[i + 1] /\ f[i + 1] = f[i] + s[i + 1] /\ F[i] = f[i]
      BY <1>4, <1>7, <2>2, <3>1
    <3>3. QED
      BY <3>1, <3>2
  <2> HIDE DEF T
  <2>3. \A i \in 0..n : i \in T
    <3> HIDE DEF n
    <3>1. QED
      BY <1>1, <2>1, <2>2, RangeInduction
  <2>4. n \in T
    BY <1>1, <2>3
  <2>5. QED
    BY <2>4 DEF T
<1>10. f[0] = 0
  BY <1>3, Zenon DEF Follows
<1>11. QED
  BY <1>4, <1>8, <1>9, <1>10

\* x and then y, when both are known.
After(x, y) == x \o y

\* What comes after one another is a sequence, as long as both.
LEMMA AfterSeq ==
    ASSUME NEW X, NEW x \in Seq(X), NEW y \in Seq(X)
    PROVE  After(x, y) \in Seq(X) /\ Len(After(x, y)) = Len(x) + Len(y)
BY ConcatProperties, Zenon DEF After

\* A sequence of sequences, flattened from its front.
LEMMA FlattenUpTo ==
    ASSUME NEW X, NEW ss \in Seq(Seq(X))
    PROVE  \E f \in [0..Len(ss) -> Seq(X)] :
              /\ f[0] = <<>> /\ \A i \in 1..Len(ss) : f[i] = After(f[i - 1], ss[i])
              /\ Values!FlattenSeq(ss) = f[Len(ss)]
<1> DEFINE n == Len(ss)
           D == [i \in 1..n |-> [x \in Seq(X) |-> After(x, ss[i])]]
           Flat(f) == [i \in 1..n |-> IF i = 1 THEN ss[i] ELSE After(f[i - 1], ss[i])]
           F == CHOOSE f : f = Flat(f)
<1>1. n \in Nat /\ \A i \in 1..n : ss[i] \in Seq(X)
  BY LenProperties
<1>2. D \in [1..n -> [Seq(X) -> Seq(X)]]
  <2> HIDE DEF n
  <2>1. ASSUME NEW i \in 1..n PROVE [x \in Seq(X) |-> After(x, ss[i])] \in [Seq(X) -> Seq(X)]
    BY <1>1, AfterSeq, Zenon
  <2>2. QED
    BY <2>1, Zenon
<1>3. PICK f \in [0..n -> Seq(X)] : Follows(f, n, <<>>, D)
  <2>1. <<>> \in Seq(X)
    OBVIOUS
  <2> HIDE DEF D, n
  <2>2. QED
    BY <1>1, <1>2, <2>1, Recursion, Zenon
<1>4. ASSUME NEW i \in 1..n PROVE f[i] = After(f[i - 1], ss[i])
  <2>1. i - 1 \in 0..n /\ f[i - 1] \in Seq(X)
    <3> HIDE DEF n, D
    <3>1. QED
      BY <1>1, <1>3
  <2>2. D[i][f[i - 1]] = After(f[i - 1], ss[i])
    BY <2>1, Zenon
  <2>3. QED
    BY <1>3, <2>2, Zenon DEF Follows
<1>5. f[0] = <<>>
  BY <1>3, Zenon DEF Follows
<1>6. CASE n = 0
  <2>1. Values!FlattenSeq(ss) = ss
    BY <1>6 DEF Values!FlattenSeq
  <2>2. ss = <<>>
    BY <1>6, EmptySeq
  <2>3. QED
    BY <1>4, <1>5, <1>6, <2>1, <2>2, Zenon
<1>7. CASE n # 0
  <2> DEFINE g == [i \in 1..n |-> f[i]]
  <2>1. n \in 1..n /\ 1 \in 1..n
    <3> HIDE DEF n
    <3>1. QED
      BY <1>1, <1>7
  <2>2. f[1] = ss[1]
    <3>1. f[1] = After(f[1 - 1], ss[1]) /\ 1 - 1 = 0
      BY <1>4, <2>1
    <3>2. <<>> \o ss[1] = ss[1]
      BY <1>1, <2>1, ConcatEmptySeq, Zenon
    <3>3. QED
      BY <1>5, <3>1, <3>2, Zenon DEF After
  <2>3. g = Flat(g)
    <3> HIDE DEF n
    <3>1. ASSUME NEW i \in 1..n
          PROVE  f[i] = IF i = 1 THEN ss[i] ELSE After(g[i - 1], ss[i])
      <4>1. CASE i = 1
        BY <2>2, <4>1, Zenon
      <4>2. CASE i # 1
        <5>1. i - 1 \in 1..n
          BY <1>1, <4>2
        <5>2. QED
          BY <1>4, <4>2, <5>1, Zenon
      <4>3. QED
        BY <4>1, <4>2, Zenon
    <3>2. QED
      BY <3>1, Zenon
  <2>4. F = Flat(F)
    <3> HIDE DEF Flat, g
    <3>1. QED
      BY <2>3, Zenon
  <2>5. Values!FlattenSeq(ss) = F[n]
    BY <1>7, Zenon DEF Values!FlattenSeq, After
  <2> HIDE DEF F
  <2>6. \A i \in 1..n : F[i] = IF i = 1 THEN ss[i] ELSE After(F[i - 1], ss[i])
    <3> HIDE DEF n
    <3>1. QED
      BY <2>4, Zenon
  <2>7. F[n] = f[n]
    <3> DEFINE T == {i \in 0..n : i # 0 => F[i] = f[i]}
    <3> HIDE DEF n
    <3>1. 0 \in T
      BY <1>1
    <3>2. ASSUME NEW i \in 0..(n - 1), i \in T PROVE i + 1 \in T
      <4>1. i + 1 \in 1..n /\ (i + 1) - 1 = i /\ i + 1 \in 0..n /\ (i + 1 = 1 <=> i = 0)
        BY <1>1
      <4>2. CASE i = 0
        <5>1. F[1] = ss[1]
          BY <2>1, <2>6, Zenon
        <5>2. QED
          BY <2>2, <4>1, <4>2, <5>1
      <4>3. CASE i # 0
        <5>1. F[i] = f[i]
          BY <3>2, <4>3
        <5>2. F[i + 1] = After(F[i], ss[i + 1])
          BY <2>6, <4>1, <4>3, Zenon
        <5>3. f[i + 1] = After(f[i], ss[i + 1])
          BY <1>4, <4>1, Zenon
        <5>4. F[i + 1] = f[i + 1]
          BY <5>1, <5>2, <5>3, Zenon
        <5>5. QED
          BY <4>1, <5>4
      <4>4. QED
        BY <4>2, <4>3, Zenon
    <3> HIDE DEF T
    <3>3. \A i \in 0..n : i \in T
      BY <1>1, <3>1, <3>2, RangeInduction
    <3>4. n \in T
      BY <1>1, <3>3
    <3>5. QED
      BY <1>7, <3>4 DEF T
  <2>8. QED
    BY <1>4, <1>5, <2>5, <2>7, Zenon
<1>8. QED
  BY <1>6, <1>7, Zenon

\* Flattening makes a sequence as long as its parts are together.
LEMMA FlattenLength ==
    ASSUME NEW X, NEW ss \in Seq(Seq(X))
    PROVE  /\ Values!FlattenSeq(ss) \in Seq(X)
           /\ Len(Values!FlattenSeq(ss)) = Values!Total([i \in 1..Len(ss) |-> Len(ss[i])])
<1> DEFINE n == Len(ss)
           s == [i \in 1..n |-> Len(ss[i])]
<1>1. n \in Nat /\ \A i \in 1..n : ss[i] \in Seq(X) /\ Len(ss[i]) \in Nat
  BY LenProperties
<1>2. PICK f \in [0..n -> Seq(X)] :
         /\ f[0] = <<>> /\ \A i \in 1..n : f[i] = After(f[i - 1], ss[i])
         /\ Values!FlattenSeq(ss) = f[n]
  BY FlattenUpTo, Zenon
<1>3. s \in Seq(Nat) /\ Len(s) = n /\ \A i \in 1..n : s[i] = Len(ss[i])
  <2> HIDE DEF n
  <2>1. s \in Seq(Nat) /\ Len(s) = n
    BY <1>1
  <2>2. QED
    BY <2>1
<1> HIDE DEF n, s
<1>4. PICK g \in [0..n -> Nat] :
         /\ g[0] = 0 /\ \A i \in 1..n : g[i] = g[i - 1] + s[i]
         /\ Values!Total(s) = g[n]
  <2>1. \E g \in [0..Len(s) -> Nat] :
         /\ g[0] = 0 /\ \A i \in 1..Len(s) : g[i] = g[i - 1] + s[i]
         /\ Values!Total(s) = g[Len(s)]
    BY <1>3, TotalUpTo, Zenon
  <2>2. QED
    BY <1>3, <2>1, Zenon
<1>5. Len(f[n]) = g[n]
  <2> DEFINE T == {i \in 0..n : Len(f[i]) = g[i]}
  <2>1. 0 \in T
    BY <1>1, <1>2, <1>4
  <2>2. ASSUME NEW i \in 0..(n - 1), i \in T PROVE i + 1 \in T
    <3>1. i + 1 \in 1..n /\ (i + 1) - 1 = i /\ i \in 0..n /\ i + 1 \in 0..n
      BY <1>1
    <3>2. f[i + 1] = After(f[i], ss[i + 1]) /\ g[i + 1] = g[i] + s[i + 1]
      BY <1>2, <1>4, <3>1, Zenon
    <3>3. f[i] \in Seq(X) /\ ss[i + 1] \in Seq(X)
      BY <1>1, <1>2, <3>1, Zenon
    <3>4. Len(f[i + 1]) = Len(f[i]) + Len(ss[i + 1])
      BY <3>2, <3>3, AfterSeq, Zenon
    <3>5. Len(f[i]) = g[i] /\ s[i + 1] = Len(ss[i + 1])
      BY <1>3, <2>2, <3>1
    <3>6. Len(f[i + 1]) = g[i + 1]
      BY <3>2, <3>4, <3>5, Zenon
    <3>7. QED
      BY <3>1, <3>6
  <2> HIDE DEF T
  <2>3. \A i \in 0..n : i \in T
    BY <1>1, <2>1, <2>2, RangeInduction
  <2>4. n \in T
    BY <1>1, <2>3
  <2>5. QED
    BY <2>4 DEF T
<1>6. n \in 0..n
  BY <1>1
<1>7. Values!Total(s) = Values!Total([i \in 1..Len(ss) |-> Len(ss[i])])
  BY Zenon DEF s, n
<1>8. QED
  BY <1>2, <1>4, <1>5, <1>6, <1>7, Zenon

\* What flattening makes begins with the first part, and goes on with the others.
LEMMA FlattenFromFront ==
    ASSUME NEW X, NEW ss \in Seq(Seq(X))
    PROVE  \E rest \in [0..Len(ss) -> Seq(X)] :
              /\ rest[0] = Values!FlattenSeq(ss) /\ rest[Len(ss)] = <<>>
              /\ \A i \in 0..(Len(ss) - 1) : rest[i] = After(ss[i + 1], rest[i + 1])
<1> DEFINE n == Len(ss)
           D == [i \in 1..n |-> [x \in Seq(X) |-> After(ss[n - i + 1], x)]]
<1>1. n \in Nat /\ (\A i \in 1..n : ss[i] \in Seq(X)) /\ <<>> \in Seq(X)
  BY LenProperties
<1>2. PICK f \in [0..n -> Seq(X)] :
         /\ f[0] = <<>> /\ \A i \in 1..n : f[i] = After(f[i - 1], ss[i])
         /\ Values!FlattenSeq(ss) = f[n]
  BY FlattenUpTo, Zenon
<1> HIDE DEF n
<1>3. D \in [1..n -> [Seq(X) -> Seq(X)]]
  <2>1. ASSUME NEW i \in 1..n
        PROVE  [x \in Seq(X) |-> After(ss[n - i + 1], x)] \in [Seq(X) -> Seq(X)]
    <3>1. n - i + 1 \in 1..n
      BY <1>1
    <3>2. QED
      BY <1>1, <3>1, AfterSeq, Zenon
  <2>2. QED
    BY <2>1, Zenon
<1>4. PICK r \in [0..n -> Seq(X)] : Follows(r, n, <<>>, D)
  <2> HIDE DEF D
  <2>1. QED
    BY <1>1, <1>3, Recursion, Zenon
<1> DEFINE rest == [i \in 0..n |-> r[n - i]]
<1>5. rest \in [0..n -> Seq(X)]
  <2>1. \A i \in 0..n : n - i \in 0..n
    BY <1>1
  <2>2. QED
    BY <1>4, <2>1, Zenon
<1>6. rest[n] = <<>>
  <2>1. n \in 0..n /\ n - n = 0
    BY <1>1
  <2>2. QED
    BY <1>4, <2>1, Zenon DEF Follows
<1>7. ASSUME NEW i \in 0..(n - 1) PROVE rest[i] = After(ss[i + 1], rest[i + 1])
  <2>1. /\ i \in 0..n /\ i + 1 \in 0..n /\ n - i \in 1..n /\ (n - i) - 1 = n - (i + 1)
        /\ n - (n - i) + 1 = i + 1 /\ n - (i + 1) \in 0..n
    BY <1>1
  <2>2. r[n - i] = D[n - i][r[(n - i) - 1]]
    BY <1>4, <2>1, Zenon DEF Follows
  <2>3. r[n - (i + 1)] \in Seq(X)
    BY <1>4, <2>1, Zenon
  <2>4. D[n - i][r[n - (i + 1)]] = After(ss[n - (n - i) + 1], r[n - (i + 1)])
    BY <2>1, <2>3, Zenon
  <2>5. r[n - i] = After(ss[i + 1], r[n - (i + 1)])
    BY <2>1, <2>2, <2>4, Zenon
  <2>6. QED
    BY <2>1, <2>5, Zenon
<1> HIDE DEF rest, D
<1>8. After(f[n], rest[n]) = rest[0]
  <2> DEFINE T == {i \in 0..n : After(f[i], rest[i]) = rest[0]}
  <2>1. 0 \in T
    <3>1. 0 \in 0..n
      BY <1>1
    <3>2. <<>> \o rest[0] = rest[0]
      BY <1>5, <3>1, ConcatEmptySeq, Zenon
    <3>3. QED
      BY <1>2, <3>1, <3>2, Zenon DEF After
  <2>2. ASSUME NEW i \in 0..(n - 1), i \in T PROVE i + 1 \in T
    <3>1. i + 1 \in 1..n /\ (i + 1) - 1 = i /\ i \in 0..n /\ i + 1 \in 0..n
      BY <1>1
    <3>2. f[i + 1] = After(f[i], ss[i + 1])
      BY <1>2, <3>1, Zenon
    <3>3. rest[i] = After(ss[i + 1], rest[i + 1])
      BY <1>7, Zenon
    <3>4. f[i] \in Seq(X) /\ ss[i + 1] \in Seq(X) /\ rest[i + 1] \in Seq(X)
      BY <1>1, <1>2, <1>5, <3>1, Zenon
    <3>5. After(After(f[i], ss[i + 1]), rest[i + 1]) = After(f[i], After(ss[i + 1], rest[i + 1]))
      <4> DEFINE x == f[i]
                 y == ss[i + 1]
                 z == rest[i + 1]
      <4>1. x \in Seq(X) /\ y \in Seq(X) /\ z \in Seq(X)
        BY <3>4, Zenon
      <4> HIDE DEF x, y, z
      <4>2. (x \o y) \o z = x \o (y \o z)
        BY <4>1, ConcatAssociative, SMTT(20)
      <4>3. QED
        BY <4>2, Zenon DEF After, x, y, z
    <3>6. After(f[i], rest[i]) = rest[0]
      BY <2>2, Zenon
    <3>7. After(f[i + 1], rest[i + 1]) = rest[0]
      BY <3>2, <3>3, <3>5, <3>6, Zenon
    <3>8. QED
      BY <3>1, <3>7, Zenon
  <2> HIDE DEF T
  <2>3. \A i \in 0..n : i \in T
    BY <1>1, <2>1, <2>2, RangeInduction
  <2>4. n \in T
    BY <1>1, <2>3
  <2>5. QED
    BY <2>4, Zenon DEF T
<1>9. rest[0] = Values!FlattenSeq(ss)
  <2>1. n \in 0..n
    BY <1>1
  <2>2. f[n] \in Seq(X)
    BY <1>2, <2>1, Zenon
  <2>3. f[n] \o <<>> = f[n]
    BY <2>2, ConcatEmptySeq, Zenon
  <2>4. QED
    BY <1>2, <1>6, <1>8, <2>3, Zenon DEF After
<1>10. \E g \in [0..n -> Seq(X)] :
              /\ g[0] = Values!FlattenSeq(ss) /\ g[n] = <<>>
              /\ \A i \in 0..(n - 1) : g[i] = After(ss[i + 1], g[i + 1])
  BY <1>5, <1>6, <1>7, <1>9, Zenon
<1>11. QED
  BY <1>10, Zenon DEF n

-----------------------------------------------------------------------------
(* Numbers and their bytes *)

\* What is assumed of a byte, and of the names in a table.
LEMMA ByteBound == Byte \in Nat /\ Byte > 10 /\ Names \subseteq 0..(Byte - 1)
BY AmqpObjectsAssumption

\* Numbers of no more than three bytes.
Small == {n \in Nat : (n \div Byte) \div Byte < Byte}

\* A number is written in as many bytes as asked for, the last byte last.
LEMMA BytesType ==
    ASSUME NEW n \in Nat, NEW k \in Nat
    PROVE  /\ Values!Bytes(n, k) \in Str /\ Len(Values!Bytes(n, k)) = k
           /\ \A i \in 1..k : Values!Bytes(n, k)[i] =
                 CASE i = k -> n % Byte
                   [] i = k - 1 -> (n \div Byte) % Byte
                   [] i = k - 2 -> ((n \div Byte) \div Byte) % Byte
                   [] OTHER -> 0
<1> DEFINE d(i) == CASE i = k -> n % Byte
                     [] i = k - 1 -> (n \div Byte) % Byte
                     [] i = k - 2 -> ((n \div Byte) \div Byte) % Byte
                     [] OTHER -> 0
           s == [i \in 1..k |-> d(i)]
<1>1. /\ n % Byte \in Nat /\ (n \div Byte) % Byte \in Nat
      /\ ((n \div Byte) \div Byte) % Byte \in Nat
  <2>1. n % Byte \in Nat /\ n \div Byte \in Nat
    BY ByteBound
  <2> DEFINE m == n \div Byte
  <2>2. m \in Nat
    BY <2>1
  <2> HIDE DEF m
  <2>3. m % Byte \in Nat /\ m \div Byte \in Nat
    BY <2>2, ByteBound
  <2> DEFINE l == m \div Byte
  <2>4. l \in Nat
    BY <2>3
  <2> HIDE DEF l
  <2>5. l % Byte \in Nat
    BY <2>4, ByteBound
  <2>6. QED
    BY <2>1, <2>3, <2>5, Zenon DEF m, l
<1>2. \A i \in 1..k : d(i) \in Nat
  <2> DEFINE a == n % Byte
             b == (n \div Byte) % Byte
             c == ((n \div Byte) \div Byte) % Byte
  <2>1. a \in Nat /\ b \in Nat /\ c \in Nat
    BY <1>1
  <2> HIDE DEF a, b, c
  <2>2. \A i \in 1..k : (CASE i = k -> a [] i = k - 1 -> b [] i = k - 2 -> c [] OTHER -> 0) \in Nat
    BY <2>1
  <2>3. QED
    BY <2>2, Zenon DEF a, b, c
<1> HIDE DEF d
<1>3. s \in Seq(Nat) /\ Len(s) = k /\ \A i \in 1..k : s[i] = d(i)
  BY <1>2
<1>4. Values!Bytes(n, k) = s
  BY Zenon DEF Values!Bytes, d
<1> HIDE DEF s
<1>5. QED
  BY <1>3, <1>4, Zenon DEF d, Str

\* A number is written in as many bytes as asked for.
LEMMA BytesLength ==
    ASSUME NEW n \in Nat, NEW k \in Nat
    PROVE  Values!Bytes(n, k) \in Str /\ Len(Values!Bytes(n, k)) = k
BY BytesType, Zenon

\* A number, as far as its bytes were read.
LEMMA NumberUpTo ==
    ASSUME NEW s \in Str
    PROVE  \E f \in [0..Len(s) -> Nat] :
              /\ f[0] = 0 /\ \A i \in 1..Len(s) : f[i] = f[i - 1] * Byte + s[i]
              /\ Values!Number(s) = f[Len(s)]
<1> DEFINE n == Len(s)
           Up(x, y) == x * Byte + y
           D == [i \in 1..n |-> [x \in Nat |-> Up(x, s[i])]]
           Num(f) == [i \in 0..n |-> IF i = 0 THEN 0 ELSE Up(f[i - 1], s[i])]
           F == CHOOSE f : f = Num(f)
<1>1. n \in Nat /\ \A i \in 1..n : s[i] \in Nat
  BY LenProperties DEF Str
<1>2. \A x, y \in Nat : Up(x, y) \in Nat
  BY ByteBound
<1> HIDE DEF Up
<1>3. D \in [1..n -> [Nat -> Nat]]
  <2> HIDE DEF n
  <2>1. QED
    BY <1>1, <1>2
<1>4. PICK f \in [0..n -> Nat] : Follows(f, n, 0, D)
  <2>1. 0 \in Nat
    OBVIOUS
  <2> HIDE DEF D, n
  <2>2. QED
    BY <1>1, <1>3, <2>1, Recursion, Zenon
<1>5. ASSUME NEW i \in 1..n PROVE f[i] = Up(f[i - 1], s[i])
  <2>1. i - 1 \in 0..n /\ f[i - 1] \in Nat
    <3> HIDE DEF n, D
    <3>1. QED
      BY <1>1, <1>4
  <2>2. D[i][f[i - 1]] = Up(f[i - 1], s[i])
    BY <2>1
  <2>3. QED
    BY <1>4, <2>2, Zenon DEF Follows
<1>6. f = Num(f)
  BY <1>4, <1>5 DEF Follows
<1>7. F = Num(F)
  <2> HIDE DEF Num
  <2>1. QED
    BY <1>6, Zenon
<1>8. F[0] = 0 /\ \A i \in 1..n : F[i] = Up(F[i - 1], s[i])
  <2> HIDE DEF F
  <2>1. QED
    BY <1>1, <1>7
<1>9. Values!Number(s) = F[n]
  BY Zenon DEF Values!Number, Up
<1> HIDE DEF F
<1>10. F[n] = f[n]
  <2> DEFINE T == {i \in 0..n : F[i] = f[i]}
  <2>1. 0 \in T
    BY <1>1, <1>4, <1>8 DEF Follows
  <2>2. ASSUME NEW i \in 0..(n - 1), i \in T PROVE i + 1 \in T
    <3>1. i + 1 \in 1..n /\ (i + 1) - 1 = i /\ i + 1 \in 0..n
      BY <1>1
    <3>2. F[i + 1] = Up(F[i], s[i + 1]) /\ f[i + 1] = Up(f[i], s[i + 1]) /\ F[i] = f[i]
      BY <1>5, <1>8, <2>2, <3>1
    <3>3. QED
      BY <3>1, <3>2
  <2> HIDE DEF T
  <2>3. \A i \in 0..n : i \in T
    <3> HIDE DEF n
    <3>1. QED
      BY <1>1, <2>1, <2>2, RangeInduction
  <2>4. n \in T
    BY <1>1, <2>3
  <2>5. QED
    BY <2>4 DEF T
<1>11. f[0] = 0
  BY <1>4, Zenon DEF Follows
<1>12. \A i \in 1..n : f[i] = f[i - 1] * Byte + s[i]
  BY <1>5, Zenon DEF Up
<1>13. QED
  BY <1>9, <1>10, <1>11, <1>12, Zenon

\* A number of one byte.
LEMMA NumberOfOne ==
    ASSUME NEW s \in Str, Len(s) = 1
    PROVE  Values!Number(s) = s[1]
<1>1. PICK f \in [0..Len(s) -> Nat] :
              /\ f[0] = 0 /\ \A i \in 1..Len(s) : f[i] = f[i - 1] * Byte + s[i]
              /\ Values!Number(s) = f[Len(s)]
  BY NumberUpTo, Zenon
<1>2. s[1] \in Nat
  BY LenProperties DEF Str
<1>3. f[1] = f[0] * Byte + s[1]
  BY <1>1
<1>4. QED
  BY <1>1, <1>2, <1>3, ByteBound

\* A number below Byte is read from the one byte that it is written in.
LEMMA OneByte ==
    ASSUME NEW n \in Nat, n < Byte
    PROVE  Values!Number(Values!Bytes(n, 1)) = n
<1>1. /\ Values!Bytes(n, 1) \in Str /\ Len(Values!Bytes(n, 1)) = 1
      /\ Values!Bytes(n, 1)[1] = n % Byte
  <2> DEFINE s == Values!Bytes(n, 1)
  <2>1. /\ s \in Str /\ Len(s) = 1
        /\ \A i \in 1..1 : s[i] = CASE i = 1 -> n % Byte
                                    [] i = 1 - 1 -> (n \div Byte) % Byte
                                    [] i = 1 - 2 -> ((n \div Byte) \div Byte) % Byte
                                    [] OTHER -> 0
    BY BytesType, 1 \in Nat, Zenon
  <2> HIDE DEF s
  <2>2. s[1] = n % Byte
    BY <2>1
  <2>3. QED
    BY <2>1, <2>2, Zenon DEF s
<1>2. n % Byte = n
  BY ByteBound
<1>3. QED
  BY <1>1, <1>2, NumberOfOne

\* A small number is read from the four bytes that it is written in.
LEMMA FourBytes ==
    ASSUME NEW n \in Small
    PROVE  Values!Number(Values!Bytes(n, 4)) = n
<1> DEFINE s == Values!Bytes(n, 4)
           m == n \div Byte
           l == m \div Byte
<1>1. n \in Nat /\ l < Byte
  BY DEF Small
<1>2. s \in Str /\ Len(s) = 4 /\ s[1] = 0 /\ s[2] = l % Byte /\ s[3] = m % Byte /\ s[4] = n % Byte
  <2>1. /\ s \in Str /\ Len(s) = 4
        /\ \A i \in 1..4 : s[i] = CASE i = 4 -> n % Byte
                                    [] i = 4 - 1 -> m % Byte
                                    [] i = 4 - 2 -> l % Byte
                                    [] OTHER -> 0
    BY <1>1, BytesType, 4 \in Nat, Zenon
  <2> HIDE DEF s, m, l
  <2>2. QED
    BY <2>1
<1>3. m \in Nat /\ n % Byte \in Nat /\ n = m * Byte + (n % Byte)
  BY <1>1, ByteBound
<1>4. l \in Nat /\ m % Byte \in Nat /\ m = l * Byte + (m % Byte)
  <2> HIDE DEF m
  <2>1. QED
    BY <1>3, ByteBound
<1>5. l % Byte = l
  <2> HIDE DEF l
  <2>1. QED
    BY <1>1, <1>4, ByteBound
<1>6. PICK f \in [0..Len(s) -> Nat] :
              /\ f[0] = 0 /\ \A i \in 1..Len(s) : f[i] = f[i - 1] * Byte + s[i]
              /\ Values!Number(s) = f[Len(s)]
  BY <1>2, NumberUpTo, Zenon
<1> HIDE DEF s, m, l
<1>7. f[1] = 0 * Byte + 0
  BY <1>2, <1>6
<1>8. f[1] = 0
  BY <1>7, ByteBound
<1>9. f[2] = l
  <2>1. f[2] = 0 * Byte + l
    BY <1>2, <1>5, <1>6, <1>8
  <2>2. QED
    BY <1>4, <2>1, ByteBound
<1>10. f[3] = m
  <2>1. f[3] = l * Byte + (m % Byte)
    BY <1>2, <1>6, <1>9
  <2>2. QED
    BY <1>4, <2>1, Zenon
<1>11. f[4] = n
  <2>1. f[4] = m * Byte + (n % Byte)
    BY <1>2, <1>6, <1>10
  <2>2. QED
    BY <1>3, <2>1, Zenon
<1>12. QED
  BY <1>2, <1>6, <1>11, Zenon DEF s

-----------------------------------------------------------------------------
(* Reading from the front of a frame *)

\* A frame of which rest is still to be read.
Frame(rest, got) == [rest |-> rest, ok |-> TRUE, got |-> got]

\* Three sequences in either grouping.
Grouped(x, y, z) == After(After(x, y), z) = After(x, After(y, z))

\* Sequences are the same in either grouping.
LEMMA AfterGrouping ==
    ASSUME NEW X, NEW x \in Seq(X), NEW y \in Seq(X), NEW z \in Seq(X)
    PROVE  Grouped(x, y, z)
<1>1. (x \o y) \o z = x \o (y \o z)
  BY ConcatAssociative, SMTT(20)
<1>2. QED
  BY <1>1, Zenon DEF After, Grouped

\* Strings after one another are a string, in either grouping.
LEMMA AfterStr ==
    ASSUME NEW x \in Str, NEW y \in Str
    PROVE  /\ After(x, y) \in Str /\ Len(After(x, y)) = Len(x) + Len(y)
           /\ \A z \in Str : Grouped(x, y, z)
<1>1. x \in Seq(Nat) /\ y \in Seq(Nat) /\ Str = Seq(Nat)
  BY DEF Str
<1>2. ASSUME NEW z \in Str PROVE Grouped(x, y, z)
  <2>1. z \in Seq(Nat)
    BY DEF Str
  <2>2. QED
    BY <1>1, <2>1, AfterGrouping, Zenon
<1>3. After(x, y) \in Seq(Nat) /\ Len(After(x, y)) = Len(x) + Len(y)
  BY <1>1, AfterSeq, Zenon
<1>4. QED
  BY <1>1, <1>2, <1>3, Zenon

\* What is in front is taken, and what is behind it remains.
LEMMA TakeFront ==
    ASSUME NEW a \in Str, NEW b \in Str, NEW g
    PROVE  Values!Take(Frame(After(a, b), g), Len(a)) = Frame(b, a)
<1> DEFINE s == After(a, b)
           n == Len(a)
           m == Len(b)
           r == Frame(s, g)
<1>1. n \in Nat /\ m \in Nat
  BY LenProperties DEF Str
<1>2. /\ s \in Str /\ Len(s) = n + m
      /\ \A i \in 1..(n + m) : s[i] = IF i <= n THEN a[i] ELSE b[i - n]
  BY ConcatProperties, Zenon DEF Str, After
<1> HIDE DEF s
<1>3. SubSeq(s, 1, n) = a
  <2> HIDE DEF n
  <2>1. \A i \in 1..n : s[i] \in Nat /\ s[i] = a[i]
    <3>1. \A i \in 1..n : a[i] \in Nat
      BY LenProperties DEF Str, n
    <3>2. QED
      BY <1>1, <1>2, <3>1
  <2>2. /\ SubSeq(s, 1, n) \in Seq(Nat) /\ Len(SubSeq(s, 1, n)) = IF 1 <= n THEN n - 1 + 1 ELSE 0
        /\ \A i \in 1..(n - 1 + 1) : SubSeq(s, 1, n)[i] = s[1 + i - 1]
    <3>1. 1 \in Int /\ n \in Int /\ \A i \in 1..n : s[i] \in Nat
      BY <1>1, <2>1
    <3>2. QED
      BY <3>1, SubSeqProperties
  <2> DEFINE t == SubSeq(s, 1, n)
  <2> HIDE DEF t
  <2>3. t \in Seq(Nat) /\ Len(t) = n /\ \A i \in 1..n : t[i] = a[i]
    BY <1>1, <2>1, <2>2 DEF t
  <2>4. a \in Seq(Nat) /\ Len(t) = Len(a) /\ \A i \in 1..Len(t) : t[i] = a[i]
    BY <2>3 DEF n, Str
  <2>5. t = a
    BY <2>3, <2>4, SeqEqual, Zenon
  <2>6. QED
    BY <2>5, Zenon DEF t
<1>4. SubSeq(s, n + 1, n + m) = b
  <2> HIDE DEF n, m
  <2>1. \A i \in (n + 1)..(n + m) : s[i] \in Nat
    BY <1>1, <1>2 DEF Str
  <2> DEFINE t == SubSeq(s, n + 1, n + m)
  <2>2. /\ t \in Seq(Nat) /\ Len(t) = IF n + 1 <= n + m THEN (n + m) - (n + 1) + 1 ELSE 0
        /\ \A i \in 1..((n + m) - (n + 1) + 1) : t[i] = s[(n + 1) + i - 1]
    <3>1. n + 1 \in Int /\ n + m \in Int
      BY <1>1
    <3>2. QED
      BY <2>1, <3>1, SubSeqProperties
  <2> HIDE DEF t
  <2>3. t \in Seq(Nat) /\ Len(t) = m
    BY <1>1, <2>2
  <2>4. ASSUME NEW i \in 1..m PROVE t[i] = b[i]
    <3>1. i \in 1..((n + m) - (n + 1) + 1) /\ (n + 1) + i - 1 = n + i
      BY <1>1
    <3>2. t[i] = s[n + i]
      BY <2>2, <3>1
    <3>3. n + i \in 1..(n + m) /\ ~(n + i <= n) /\ (n + i) - n = i
      BY <1>1
    <3>4. s[n + i] = b[(n + i) - n]
      BY <1>2, <3>3, Zenon
    <3>5. QED
      BY <3>2, <3>3, <3>4, Zenon
  <2>5. b \in Seq(Nat) /\ Len(t) = Len(b) /\ \A i \in 1..Len(t) : t[i] = b[i]
    BY <2>3, <2>4, Zenon DEF m, Str
  <2>6. t = b
    BY <2>3, <2>5, SeqEqual, Zenon
  <2>7. QED
    BY <2>6, Zenon DEF t
<1>5. n <= Len(s)
  <2> HIDE DEF n, m
  <2>1. QED
    BY <1>1, <1>2
<1>6. r.ok /\ r.rest = s
  BY DEF Frame
<1>7. Values!Take(r, n) = Frame(SubSeq(s, n + 1, Len(s)), SubSeq(s, 1, n))
  <2> HIDE DEF r, n
  <2>1. QED
    BY <1>5, <1>6, Zenon DEF Values!Take, Frame
<1>8. Values!Take(r, n) = Frame(b, a)
  <2> HIDE DEF n, r, m
  <2>1. QED
    BY <1>2, <1>3, <1>4, <1>7, Zenon
<1>9. QED
  BY <1>8, Zenon DEF s

\* A string behind its length is read.
LEMMA TakeStringFront ==
    ASSUME NEW s \in Str, NEW b \in Str, NEW g, NEW k \in Nat,
           Values!Number(Values!Bytes(Len(s), k)) = Len(s)
    PROVE  Values!TakeString(Frame(After(After(Values!Bytes(Len(s), k), s), b), g), k) = Frame(b, s)
<1> DEFINE h == Values!Bytes(Len(s), k)
           r == Frame(After(After(h, s), b), g)
<1>1. Len(s) \in Nat
  BY LenProperties DEF Str
<1>2. h \in Str /\ Len(h) = k
  BY <1>1, BytesLength, Zenon
<1>3. Values!Number(h) = Len(s)
  OBVIOUS
<1> HIDE DEF h
<1>4. After(After(h, s), b) = After(h, After(s, b)) /\ After(s, b) \in Str
  BY <1>2, AfterStr, Zenon DEF Grouped
<1>5. Values!Take(r, k) = Frame(After(s, b), h)
  BY <1>2, <1>4, TakeFront, Zenon
<1>6. Values!TakeString(r, k) =
        Values!Take(Frame(After(s, b), h), Values!Number(Frame(After(s, b), h).got))
  <2> HIDE DEF r
  <2>1. QED
    BY <1>5, Zenon DEF Values!TakeString
<1>7. Frame(After(s, b), h).got = h
  BY DEF Frame
<1>8. Values!TakeString(r, k) = Frame(b, s)
  <2> HIDE DEF r
  <2>1. QED
    BY <1>3, <1>6, <1>7, TakeFront, Zenon
<1>9. QED
  BY <1>8, Zenon DEF h

-----------------------------------------------------------------------------
(* Fields *)

Types == {"t", "B", "b", "u", "U", "i", "I", "l", "L", "D", "S"}

\* Values of fields that can be told from their bytes.
Proper(v) ==
    /\ v \in [type : Types, bytes : Str]
    /\ IF v.type = "S" THEN Len(v.bytes) \in Small ELSE Len(v.bytes) = Values!Width[v.type]

\* The class of a field is told from its byte.
LEMMA TypeOfByte ==
    ASSUME NEW type \in Types
    PROVE  Values!TypeByte(type) \in 0..10 /\ Values!TypeIDs[Values!TypeByte(type) + 1] = type
<1>1. DOMAIN Values!TypeIDs = 1..11
  BY DEF Values!TypeIDs
<1>2. \E i \in 1..11 : Values!TypeIDs[i] = type
  BY DEF Types, Values!TypeIDs
<1> DEFINE i == CHOOSE i \in DOMAIN Values!TypeIDs : Values!TypeIDs[i] = type
<1>3. i \in 1..11 /\ Values!TypeIDs[i] = type
  BY <1>1, <1>2, Zenon
<1>4. Values!TypeByte(type) = i - 1
  BY Zenon DEF Values!TypeByte
<1> HIDE DEF i
<1>5. (i - 1) + 1 = i /\ i - 1 \in 0..10
  BY <1>3
<1>6. QED
  BY <1>3, <1>4, <1>5, Zenon

-----------------------------------------------------------------------------
(* The entries of a table *)

\* One byte is a string.
LEMMA OneByteStr ==
    ASSUME NEW n \in Nat
    PROVE  <<n>> \in Str /\ Len(<<n>>) = 1 /\ <<n>>[1] = n
BY DEF Str

\* A string has a length.
LEMMA StrLen ==
    ASSUME NEW s \in Str
    PROVE  Len(s) \in Nat
BY LenProperties DEF Str

\* The length in front of a string.
LEMMA PrefixedLength ==
    ASSUME NEW s \in Str, NEW k \in Nat
    PROVE  /\ Values!Bytes(Len(s), k) \in Str /\ Len(Values!Bytes(Len(s), k)) = k
           /\ After(Values!Bytes(Len(s), k), s) \in Str
           /\ Len(After(Values!Bytes(Len(s), k), s)) = k + Len(s)
<1>1. Len(s) \in Nat
  BY StrLen, Zenon
<1>2. Values!Bytes(Len(s), k) \in Str /\ Len(Values!Bytes(Len(s), k)) = k
  BY <1>1, BytesLength, Zenon
<1>3. QED
  BY <1>2, AfterStr, Zenon

\* A short and a long string: the length, then the bytes.
LEMMA StringShapes ==
    ASSUME NEW s
    PROVE  /\ Values!ShortString(s) = After(Values!Bytes(Len(s), 1), s)
           /\ Values!LongString(s) = After(Values!Bytes(Len(s), 4), s)
BY Zenon DEF Values!ShortString, Values!LongString, After

\* What is known of a value that can be told from its bytes.
LEMMA ProperValue ==
    ASSUME NEW v, Proper(v)
    PROVE  /\ v.type \in Types /\ v.bytes \in Str /\ v = [type |-> v.type, bytes |-> v.bytes]
           /\ v.type = "S" => Len(v.bytes) \in Small
           /\ v.type # "S" => Len(v.bytes) = Values!Width[v.type]
<1>1. v \in [type : Types, bytes : Str]
  BY Zenon DEF Proper
<1>2. v.type \in Types /\ v.bytes \in Str /\ v = [type |-> v.type, bytes |-> v.bytes]
  BY <1>1
<1>3. QED
  BY <1>2, Zenon DEF Proper

\* A field has as many bytes as its size says.
LEMMA FieldLength ==
    ASSUME NEW v, Proper(v)
    PROVE  /\ Values!FieldBytes(v) \in Str
           /\ Len(Values!FieldBytes(v)) = Values!FieldSize(v)
<1>1. CASE v.type = "S"
  <2>1. v.bytes \in Str
    BY ProperValue, Zenon
  <2>2. /\ After(Values!Bytes(Len(v.bytes), 4), v.bytes) \in Str
        /\ Len(After(Values!Bytes(Len(v.bytes), 4), v.bytes)) = 4 + Len(v.bytes)
    BY <2>1, PrefixedLength, 4 \in Nat, Zenon
  <2>3. Values!FieldBytes(v) = After(Values!Bytes(Len(v.bytes), 4), v.bytes)
    BY <1>1, StringShapes, Zenon DEF Values!FieldBytes
  <2>4. Values!FieldSize(v) = 4 + Len(v.bytes)
    BY <1>1, Zenon DEF Values!FieldSize
  <2>5. QED
    BY <2>2, <2>3, <2>4, Zenon
<1>2. CASE v.type # "S"
  <2>1. v.bytes \in Str /\ Len(v.bytes) = Values!Width[v.type]
    BY <1>2, ProperValue, Zenon
  <2>2. QED
    BY <1>2, <2>1, Zenon DEF Values!FieldBytes, Values!FieldSize
<1>3. QED
  BY <1>1, <1>2, Zenon

\* An entry of a table: its name, the byte of its class, its field.
LEMMA EntryShape ==
    ASSUME NEW k \in 0..(Byte - 1), NEW v, Proper(v)
    PROVE  /\ Values!EntryBytes(k, v) =
                After(After(After(Values!Bytes(Len(<<k>>), 1), <<k>>), <<Values!TypeByte(v.type)>>),
                      Values!FieldBytes(v))
           /\ After(Values!Bytes(Len(<<k>>), 1), <<k>>) \in Str
           /\ Len(After(Values!Bytes(Len(<<k>>), 1), <<k>>)) = 2
           /\ <<Values!TypeByte(v.type)>> \in Str /\ Len(<<Values!TypeByte(v.type)>>) = 1
           /\ <<Values!TypeByte(v.type)>>[1] = Values!TypeByte(v.type)
<1>1. k \in Nat
  BY ByteBound
<1>2. <<k>> \in Str /\ Len(<<k>>) = 1
  BY <1>1, OneByteStr, Zenon
<1>3. /\ After(Values!Bytes(Len(<<k>>), 1), <<k>>) \in Str
      /\ Len(After(Values!Bytes(Len(<<k>>), 1), <<k>>)) = 1 + 1
  BY <1>2, PrefixedLength, 1 \in Nat, Zenon
<1>4. Values!TypeByte(v.type) \in Nat
  <2>1. v.type \in Types
    BY ProperValue, Zenon
  <2>2. Values!TypeByte(v.type) \in 0..10
    BY <2>1, TypeOfByte, Zenon
  <2>3. QED
    BY <2>2
<1>5. QED
  BY <1>3, <1>4, OneByteStr, StringShapes, 1 + 1 = 2, Zenon DEF Values!EntryBytes, After

\* An entry has as many bytes as its size says, and is not empty.
LEMMA EntryLength ==
    ASSUME NEW k \in 0..(Byte - 1), NEW v, Proper(v)
    PROVE  /\ Values!EntryBytes(k, v) \in Str
           /\ Len(Values!EntryBytes(k, v)) = Values!EntrySize(v)
           /\ Values!EntrySize(v) \in Nat /\ Values!EntrySize(v) >= 3
<1> DEFINE x == After(Values!Bytes(Len(<<k>>), 1), <<k>>)
           y == <<Values!TypeByte(v.type)>>
           z == Values!FieldBytes(v)
<1>1. /\ Values!EntryBytes(k, v) = After(After(x, y), z)
      /\ x \in Str /\ y \in Str /\ Len(x) = 2 /\ Len(y) = 1
  BY EntryShape, Zenon
<1>2. z \in Str /\ Len(z) = Values!FieldSize(v)
  BY FieldLength, Zenon
<1> HIDE DEF x, y, z
<1>3. After(x, y) \in Str /\ Len(After(x, y)) = Len(x) + Len(y)
  BY <1>1, AfterStr, Zenon
<1>4. After(After(x, y), z) \in Str /\ Len(After(After(x, y), z)) = Len(After(x, y)) + Len(z)
  BY <1>2, <1>3, AfterStr, Zenon
<1>5. Len(z) \in Nat
  BY <1>2, StrLen, Zenon
<1>6. Values!EntrySize(v) = 2 + 1 + Values!FieldSize(v)
  BY Zenon DEF Values!EntrySize
<1>7. QED
  BY <1>1, <1>2, <1>3, <1>4, <1>5, <1>6

\* An entry of a table is read as it was written.
LEMMA TakeEntryFront ==
    ASSUME NEW k \in 0..(Byte - 1), NEW v, Proper(v), NEW b \in Str, NEW g,
           NEW u \in Nat, NEW z \in Nat, u < z, NEW T
    PROVE  Values!TakeEntry([r |-> Frame(After(Values!EntryBytes(k, v), b), g), used |-> u,
                             size |-> z, table |-> T]) =
             [r |-> Frame(b, v.bytes), used |-> u + Values!EntrySize(v), size |-> z,
              table |-> Values!Put(T, k, v)]
<1> DEFINE t == [r |-> Frame(After(Values!EntryBytes(k, v), b), g), used |-> u,
                 size |-> z, table |-> T]
           x == After(Values!Bytes(Len(<<k>>), 1), <<k>>)
           y == <<Values!TypeByte(v.type)>>
           fb == Values!FieldBytes(v)
           name == Frame(After(y, After(fb, b)), <<k>>)
           id == Frame(After(fb, b), y)
           field == Frame(b, v.bytes)
<1>1. /\ Values!EntryBytes(k, v) = After(After(x, y), fb)
      /\ x \in Str /\ y \in Str /\ Len(y) = 1 /\ y[1] = Values!TypeByte(v.type)
  BY EntryShape, Zenon
<1>2. fb \in Str
  BY FieldLength, Zenon
<1>3. v.type \in Types /\ v.bytes \in Str /\ v = [type |-> v.type, bytes |-> v.bytes]
  BY ProperValue, Zenon
<1>4. After(Values!EntryBytes(k, v), b) = After(x, After(y, After(fb, b)))
  <2> HIDE DEF x, y, fb
  <2>1. After(x, y) \in Str /\ After(fb, b) \in Str
    BY <1>1, <1>2, AfterStr, Zenon
  <2>2. Grouped(After(x, y), fb, b) /\ Grouped(x, y, After(fb, b))
    BY <1>1, <1>2, <2>1, AfterStr, Zenon
  <2>3. QED
    BY <1>1, <2>2, Zenon DEF Grouped
<1>5. /\ t.r = Frame(After(x, After(y, After(fb, b))), g)
      /\ t.used = u /\ t.size = z /\ t.table = T
  <2> HIDE DEF x, y, fb
  <2>1. QED
    BY <1>4
<1>6. Values!TakeString(t.r, 1) = name
  <2>1. k \in Nat
    BY ByteBound
  <2>2. <<k>> \in Str /\ Len(<<k>>) = 1
    BY <2>1, OneByteStr, Zenon
  <2>3. Values!Number(Values!Bytes(Len(<<k>>), 1)) = Len(<<k>>)
    BY <2>2, OneByte, ByteBound
  <2>4. After(y, After(fb, b)) \in Str
    <3> HIDE DEF y, fb
    <3>1. QED
      BY <1>1, <1>2, AfterStr, Zenon
  <2> DEFINE s == <<k>>
             rest == After(y, After(fb, b))
  <2>5. s \in Str /\ rest \in Str /\ Values!Number(Values!Bytes(Len(s), 1)) = Len(s)
    BY <2>2, <2>3, <2>4, Zenon
  <2>6. t.r = Frame(After(After(Values!Bytes(Len(s), 1), s), rest), g)
    BY <1>5, Zenon
  <2>7. name = Frame(rest, s)
    OBVIOUS
  <2> HIDE DEF t, name, s, rest
  <2>8. Values!TakeString(Frame(After(After(Values!Bytes(Len(s), 1), s), rest), g), 1)
          = Frame(rest, s)
    BY <2>5, TakeStringFront, 1 \in Nat, Zenon
  <2>9. QED
    BY <2>6, <2>7, <2>8, Zenon
<1>7. Values!Take(name, 1) = id
  <2> HIDE DEF y, fb
  <2>1. After(fb, b) \in Str
    BY <1>2, AfterStr, Zenon
  <2>2. QED
    BY <1>1, <2>1, TakeFront, Zenon
<1>8. Values!TypeIDs[Values!Number(id.got) + 1] = v.type
  <2>1. id.got = y
    <3> HIDE DEF y
    <3>1. QED
      BY DEF Frame
  <2>2. Values!Number(y) = Values!TypeByte(v.type)
    <3> HIDE DEF y
    <3>1. QED
      BY <1>1, NumberOfOne, Zenon
  <2> HIDE DEF id, y
  <2>3. QED
    BY <1>3, <2>1, <2>2, TypeOfByte, Zenon
<1>9. (IF v.type = "S" THEN Values!TakeString(id, 4) ELSE Values!TakeNumber(id, v.type)) = field
  <2>1. CASE v.type = "S"
    <3>1. fb = After(Values!Bytes(Len(v.bytes), 4), v.bytes)
      BY <2>1, StringShapes, Zenon DEF Values!FieldBytes
    <3>2. Values!Number(Values!Bytes(Len(v.bytes), 4)) = Len(v.bytes)
      BY <2>1, ProperValue, FourBytes, Zenon
    <3> HIDE DEF fb, y
    <3>3. Values!TakeString(id, 4) = field
      BY <1>3, <3>1, <3>2, TakeStringFront, 4 \in Nat, Zenon
    <3> HIDE DEF id, field
    <3>4. QED
      BY <2>1, <3>3, Zenon
  <2>2. CASE v.type # "S"
    <3>1. fb = v.bytes /\ Len(fb) = Values!Width[v.type]
      BY <2>2, ProperValue, Zenon DEF Values!FieldBytes
    <3> HIDE DEF fb, y
    <3>2. Values!Take(id, Len(fb)) = Frame(b, fb)
      BY <1>2, TakeFront, Zenon
    <3> HIDE DEF id
    <3>3. Values!TakeNumber(id, v.type) = field
      BY <3>1, <3>2, Zenon DEF Values!TakeNumber
    <3> HIDE DEF field
    <3>4. QED
      BY <2>2, <3>3, Zenon
  <2>3. QED
    BY <2>1, <2>2, Zenon
<1>10. name.got = <<k>> /\ field.got = v.bytes /\ t.r.ok
  <2> HIDE DEF x, y, fb
  <2>1. name.got = <<k>> /\ field.got = v.bytes
    BY DEF Frame
  <2>2. t.r.ok
    BY DEF Frame
  <2>3. QED
    BY <2>1, <2>2, Zenon
<1>11. Len(<<k>>) = 1 /\ <<k>>[1] = k
  OBVIOUS
<1>12. ~(t.used >= t.size \/ ~t.r.ok)
  BY <1>5, <1>10
<1> DEFINE w == [type |-> v.type, bytes |-> v.bytes]
<1>13. Values!TakeEntry(t) =
         [r |-> field, size |-> t.size,
          used |-> t.used + 1 + Len(name.got) + 1 + Values!FieldSize(w),
          table |-> Values!Put(t.table, name.got[1], w)]
  <2> HIDE DEF t, name, id, field
  <2>1. QED
    BY <1>6, <1>7, <1>8, <1>9, <1>10, <1>12, Zenon DEF Values!TakeEntry
<1>14. w = v
  BY <1>3, Zenon
<1>15. t.used + 1 + Len(name.got) + 1 + Values!FieldSize(w) = u + Values!EntrySize(v)
  <2>1. Values!FieldSize(v) \in Nat
    BY FieldLength, StrLen, Zenon
  <2>2. Values!EntrySize(v) = 2 + 1 + Values!FieldSize(v)
    BY Zenon DEF Values!EntrySize
  <2>3. t.used + 1 + Len(name.got) + 1 + Values!FieldSize(w) = u + 1 + 1 + 1 + Values!FieldSize(v)
    <3> HIDE DEF t, name, w
    <3>1. QED
      BY <1>5, <1>10, <1>11, <1>14, Zenon
  <2> HIDE DEF t, name, w
  <2>4. QED
    BY <2>1, <2>2, <2>3
<1>16. Values!Put(t.table, name.got[1], w) = Values!Put(T, k, v)
  <2> HIDE DEF t, name, w
  <2>1. QED
    BY <1>5, <1>10, <1>11, <1>14, Zenon
<1>17. Values!TakeEntry(t) = [r |-> field, size |-> z, used |-> u + Values!EntrySize(v),
                             table |-> Values!Put(T, k, v)]
  <2> HIDE DEF t, name, w, field
  <2>1. QED
    BY <1>5, <1>13, <1>15, <1>16, Zenon
<1>18. QED
  <2> DEFINE m == Values!Put(T, k, v)
             n == u + Values!EntrySize(v)
  <2>1. Values!TakeEntry(t) = [r |-> field, size |-> z, used |-> n, table |-> m]
    BY <1>17, Zenon
  <2> HIDE DEF m, n, field, t
  <2>2. [r |-> field, size |-> z, used |-> n, table |-> m] =
        [r |-> field, used |-> n, size |-> z, table |-> m]
    OBVIOUS
  <2>3. Values!TakeEntry(t) = [r |-> field, used |-> n, size |-> z, table |-> m]
    BY <2>1, <2>2, Zenon
  <2>4. QED
    BY <2>3, Zenon DEF m, n, field, t

-----------------------------------------------------------------------------
(* Tables *)

\* The keys of a table: each of them once.
LEMMA KeysOf ==
    ASSUME NEW T, DOMAIN T \subseteq Names
    PROVE  /\ Values!Keys(T) \in Seq(DOMAIN T) /\ Len(Values!Keys(T)) \in 0..Byte
           /\ \A i, j \in 1..Len(Values!Keys(T)) :
                 Values!Keys(T)[i] = Values!Keys(T)[j] => i = j
           /\ \A k \in DOMAIN T : \E i \in 1..Len(Values!Keys(T)) : Values!Keys(T)[i] = k
<1> DEFINE S == DOMAIN T
           n == Cardinality(S)
           F == CHOOSE f \in [1..n -> S] : Values!IsInjective(f)
<1>1. IsFiniteSet(S) /\ n \in 0..Byte
  <2>1. IsFiniteSet(0..(Byte - 1)) /\ Cardinality(0..(Byte - 1)) = Byte
    <3>1. 0 \in Int /\ Byte - 1 \in Int
      BY ByteBound
    <3>2. /\ IsFiniteSet(0..(Byte - 1))
          /\ Cardinality(0..(Byte - 1)) = IF 0 > Byte - 1 THEN 0 ELSE (Byte - 1) - 0 + 1
      BY <3>1, FS_Interval, Zenon
    <3>3. QED
      BY <3>2, ByteBound
  <2>2. S \in SUBSET (0..(Byte - 1))
    BY ByteBound
  <2>3. IsFiniteSet(S) /\ Cardinality(S) <= Cardinality(0..(Byte - 1))
    BY <2>1, <2>2, FS_Subset, Zenon
  <2>4. Cardinality(S) \in Nat
    BY <2>3, FS_CardinalityType, Zenon
  <2>5. QED
    BY <2>1, <2>3, <2>4
<1>2. \E f \in [1..n -> S] : Values!IsInjective(f)
  <2>1. ExistsBijection(1..n, S)
    BY <1>1, FS_CardinalityType, Zenon
  <2>2. QED
    BY <2>1, Zenon DEF ExistsBijection, Bijection, Injection, Values!IsInjective, IsInjective
<1>3. F \in [1..n -> S] /\ Values!IsInjective(F)
  BY <1>2, Zenon
<1>4. Values!Keys(T) = F
  <2>1. \A X : Values!Cardinality(X) = Cardinality(X)
    BY Zenon DEF Values!Cardinality, Cardinality
  <2>2. QED
    BY <2>1, Zenon DEF Values!Keys, Values!SetToSeq
<1> HIDE DEF F, S, n
<1>5. \A i, j \in 1..n : F[i] = F[j] => i = j
  BY <1>3 DEF Values!IsInjective
<1>6. F \in Surjection(1..n, S)
  <2>1. F \in Injection(1..n, S)
    BY <1>3, Zenon DEF Injection, Values!IsInjective, IsInjective
  <2>2. Cardinality(1..n) = n
    <3>1. n \in Nat
      BY <1>1
    <3>2. 1 \in Int /\ n \in Int
      BY <3>1
    <3>3. Cardinality(1..n) = IF 1 > n THEN 0 ELSE n - 1 + 1
      BY <3>2, FS_Interval, Zenon
    <3>4. QED
      BY <3>1, <3>3
  <2>3. Cardinality(S) = n
    BY Zenon DEF n
  <2>4. QED
    BY <1>1, <2>1, <2>2, <2>3, FS_Injection, Zenon
<1>7. \A k \in S : \E i \in 1..n : F[i] = k
  BY <1>6, Zenon DEF Surjection
<1>8. F \in Seq(S) /\ Len(F) = n
  <2>1. n \in Nat
    BY <1>1
  <2>2. QED
    BY <1>3, <2>1
<1>9. QED
  BY <1>1, <1>4, <1>5, <1>7, <1>8, Zenon DEF S

\* Tables of which every value can be told from its bytes.
Tabled(T) ==
    /\ DOMAIN T \subseteq Names /\ T = [k \in DOMAIN T |-> T[k]]
    /\ \A k \in DOMAIN T : Proper(T[k])

\* The entries of a table from the i-th on, and the sizes of those before.
Layout(T, n, rest, used) ==
    /\ n \in Nat /\ rest \in [0..n -> Str] /\ used \in [0..n -> Nat]
    /\ rest[n] = <<>> /\ used[0] = 0
    /\ \A i \in 1..n :
          /\ rest[i - 1] =
               After(Values!EntryBytes(Values!Keys(T)[i], T[Values!Keys(T)[i]]), rest[i])
          /\ used[i] = used[i - 1] + Values!EntrySize(T[Values!Keys(T)[i]])

\* Each entry of a table has a key of the table and a proper value.
LEMMA KeyOfEntry ==
    ASSUME NEW T, Tabled(T), NEW i \in 1..Len(Values!Keys(T))
    PROVE  /\ Values!Keys(T)[i] \in DOMAIN T /\ Values!Keys(T)[i] \in 0..(Byte - 1)
           /\ Proper(T[Values!Keys(T)[i]])
<1>1. DOMAIN T \subseteq Names
  BY Zenon DEF Tabled
<1>2. Values!Keys(T) \in Seq(DOMAIN T)
  BY <1>1, KeysOf, Zenon
<1>3. Values!Keys(T)[i] \in DOMAIN T
  BY <1>2, ElementOfSeq, Zenon
<1>4. Values!Keys(T)[i] \in 0..(Byte - 1)
  BY <1>1, <1>3, ByteBound
<1>5. QED
  BY <1>3, <1>4, Zenon DEF Tabled

\* A table is its size in four bytes, then its entries one by one.
LEMMA TableLayout ==
    ASSUME NEW T, Tabled(T)
    PROVE  \E rest, used : LET n == Len(Values!Keys(T)) IN
              /\ Layout(T, n, rest, used)
              /\ Values!TableSize(T) = 4 + used[n]
              /\ Values!TableBytes(T) = After(Values!Bytes(used[n], 4), rest[0])
              /\ Values!TableBytes(T) \in Str
              /\ Len(Values!TableBytes(T)) = Values!TableSize(T)
<1> DEFINE K == Values!Keys(T)
           n == Len(K)
           E(i) == Values!EntryBytes(K[i], T[K[i]])
           Z(i) == Values!EntrySize(T[K[i]])
           ss == [i \in 1..n |-> E(i)]
           zs == [i \in 1..n |-> Z(i)]
<1>1. n \in Nat
  <2>1. n \in 0..Byte
    BY KeysOf, Zenon DEF Tabled
  <2>2. QED
    BY <2>1, ByteBound
<1>2. \A i \in 1..n : E(i) \in Str /\ Len(E(i)) = Z(i) /\ Z(i) \in Nat
  BY KeyOfEntry, EntryLength, Zenon
<1>3. /\ Values!TableSize(T) = 4 + Values!Total(zs)
      /\ Values!TableBytes(T) =
           After(Values!Bytes(Values!TableSize(T) - 4, 4), Values!FlattenSeq(ss))
  BY Zenon DEF Values!TableSize, Values!TableBytes, After
<1>4. K \in Seq(DOMAIN T)
  BY KeysOf, Zenon DEF Tabled
<1> HIDE DEF K, n, E, Z
<1>5. ss \in Seq(Str) /\ Len(ss) = n /\ \A i \in 1..n : ss[i] = E(i)
  BY <1>1, <1>2
<1>6. zs \in Seq(Nat) /\ Len(zs) = n /\ \A i \in 1..n : zs[i] = Z(i)
  BY <1>1, <1>2
<1> HIDE DEF ss, zs
<1>7. [i \in 1..Len(ss) |-> Len(ss[i])] = zs
  <2>1. \A i \in 1..n : Len(ss[i]) = zs[i]
    BY <1>2, <1>5, <1>6, Zenon
  <2>2. zs = [i \in 1..n |-> zs[i]]
    BY <1>6
  <2>3. QED
    BY <1>5, <2>1, <2>2
<1>8. ss \in Seq(Seq(Nat))
  BY <1>5, Zenon DEF Str
<1>9. /\ Values!FlattenSeq(ss) \in Str
      /\ Len(Values!FlattenSeq(ss)) = Values!Total(zs)
  BY <1>7, <1>8, FlattenLength, Zenon DEF Str
<1>10. PICK rest \in [0..n -> Str] :
          /\ rest[0] = Values!FlattenSeq(ss) /\ rest[n] = <<>>
          /\ \A i \in 0..(n - 1) : rest[i] = After(ss[i + 1], rest[i + 1])
  <2>1. \E r \in [0..Len(ss) -> Str] :
          /\ r[0] = Values!FlattenSeq(ss) /\ r[Len(ss)] = <<>>
          /\ \A i \in 0..(Len(ss) - 1) : r[i] = After(ss[i + 1], r[i + 1])
    BY <1>8, FlattenFromFront, Zenon DEF Str
  <2>2. QED
    BY <1>5, <2>1, Zenon
<1>11. PICK used \in [0..n -> Nat] :
          /\ used[0] = 0 /\ \A i \in 1..n : used[i] = used[i - 1] + zs[i]
          /\ Values!Total(zs) = used[n]
  <2>1. \E f \in [0..Len(zs) -> Nat] :
          /\ f[0] = 0 /\ \A i \in 1..Len(zs) : f[i] = f[i - 1] + zs[i]
          /\ Values!Total(zs) = f[Len(zs)]
    BY <1>6, TotalUpTo, Zenon
  <2>2. QED
    BY <1>6, <2>1, Zenon
<1>12. ASSUME NEW i \in 1..n
       PROVE  rest[i - 1] = After(E(i), rest[i]) /\ used[i] = used[i - 1] + Z(i)
  <2>1. i - 1 \in 0..(n - 1) /\ (i - 1) + 1 = i
    BY <1>1
  <2>2. QED
    BY <1>5, <1>6, <1>10, <1>11, <2>1, Zenon
<1>13. Layout(T, n, rest, used)
  BY <1>1, <1>10, <1>11, <1>12, Zenon DEF Layout, E, Z, K
<1>14. used[n] \in Nat
  BY <1>1, <1>11
<1>15. Values!TableSize(T) = 4 + used[n] /\ Values!TableSize(T) - 4 = used[n]
  BY <1>3, <1>11, <1>14
<1>16. Values!Bytes(used[n], 4) \in Str /\ Len(Values!Bytes(used[n], 4)) = 4
  BY <1>14, BytesLength, 4 \in Nat, Zenon
<1>17. /\ Values!TableBytes(T) = After(Values!Bytes(used[n], 4), rest[0])
       /\ Values!TableBytes(T) \in Str
       /\ Len(Values!TableBytes(T)) = 4 + used[n]
  <2>1. Values!TableBytes(T) = After(Values!Bytes(used[n], 4), rest[0])
    BY <1>3, <1>10, <1>15, Zenon
  <2>2. rest[0] \in Str /\ Len(rest[0]) = used[n]
    BY <1>9, <1>10, <1>11, Zenon
  <2>3. QED
    BY <1>16, <2>1, <2>2, AfterStr, Zenon
<1>18. QED
  BY <1>13, <1>15, <1>17, Zenon DEF n, K

\* Every entry has at least a byte, so the sizes grow.
LEMMA LayoutGrows ==
    ASSUME NEW T, Tabled(T), NEW n, n = Len(Values!Keys(T)), NEW rest, NEW used,
           Layout(T, n, rest, used)
    PROVE  \A i \in 0..n : i <= used[i] /\ used[n] >= used[i] + (n - i)
<1>1. n \in Nat /\ used \in [0..n -> Nat] /\ used[0] = 0
  BY Zenon DEF Layout
<1>2. ASSUME NEW i \in 1..n
      PROVE  used[i] >= used[i - 1] + 1 /\ used[i] \in Nat /\ used[i - 1] \in Nat
  <2>1. used[i] = used[i - 1] + Values!EntrySize(T[Values!Keys(T)[i]])
    BY Zenon DEF Layout
  <2>2. /\ Values!EntrySize(T[Values!Keys(T)[i]]) \in Nat
        /\ Values!EntrySize(T[Values!Keys(T)[i]]) >= 3
    BY KeyOfEntry, EntryLength, Zenon
  <2>3. i - 1 \in 0..n /\ i \in 0..n
    BY <1>1
  <2>4. used[i - 1] \in Nat /\ used[i] \in Nat
    BY <1>1, <2>3, Zenon
  <2>5. QED
    BY <2>1, <2>2, <2>4
<1>3. \A i \in 0..n : i <= used[i]
  <2> DEFINE X == {i \in 0..n : i <= used[i]}
  <2>1. 0 \in X
    BY <1>1
  <2>2. ASSUME NEW i \in 0..(n - 1), i \in X PROVE i + 1 \in X
    <3>1. i + 1 \in 1..n /\ (i + 1) - 1 = i /\ i + 1 \in 0..n
      BY <1>1
    <3>2. used[i + 1] >= used[i] + 1 /\ used[i + 1] \in Nat /\ used[i] \in Nat
      BY <1>2, <3>1
    <3>3. i <= used[i]
      BY <2>2
    <3>4. i + 1 <= used[i + 1]
      BY <3>2, <3>3
    <3>5. QED
      BY <3>1, <3>4
  <2> HIDE DEF X
  <2>3. \A i \in 0..n : i \in X
    BY <1>1, <2>1, <2>2, RangeInduction
  <2>4. QED
    BY <2>3 DEF X
<1>4. \A i \in 0..n : used[n] >= used[i] + (n - i)
  <2> DEFINE X == {i \in 0..n : used[n] >= used[n - i] + i}
  <2>1. 0 \in X
    <3>1. n - 0 = n /\ used[n] \in Nat
      BY <1>1
    <3>2. used[n] >= used[n - 0] + 0
      BY <3>1
    <3>3. QED
      BY <1>1, <3>2
  <2>2. ASSUME NEW i \in 0..(n - 1), i \in X PROVE i + 1 \in X
    <3>1. n - i \in 1..n /\ (n - i) - 1 = n - (i + 1) /\ i + 1 \in 0..n /\ n \in 0..n
      BY <1>1
    <3>2. /\ used[n - i] >= used[n - (i + 1)] + 1
          /\ used[n - i] \in Nat /\ used[n - (i + 1)] \in Nat
      BY <1>2, <3>1
    <3>3. used[n] >= used[n - i] + i /\ used[n] \in Nat
      BY <1>1, <2>2, <3>1
    <3>4. used[n] >= used[n - (i + 1)] + (i + 1)
      BY <3>2, <3>3
    <3>5. QED
      BY <3>1, <3>4
  <2> HIDE DEF X
  <2>3. \A i \in 0..n : i \in X
    BY <1>1, <2>1, <2>2, RangeInduction
  <2>4. ASSUME NEW i \in 0..n PROVE used[n] >= used[i] + (n - i)
    <3>1. n - i \in 0..n /\ n - (n - i) = i
      BY <1>1
    <3>2. n - i \in X
      BY <2>3, <3>1
    <3>3. QED
      BY <3>1, <3>2 DEF X
  <2>5. QED
    BY <2>4
<1>5. QED
  BY <1>3, <1>4

\* The turns of reading a table.
Turns(f, c, z) == [k \in 0..z |-> IF k = 0 THEN c ELSE Values!TakeEntry(f[k - 1])]

\* A table is read in turns, one after the other.
LEMMA TurnsExist ==
    ASSUME NEW c, NEW z \in Nat
    PROVE  \E f : f = Turns(f, c, z)
<1> DEFINE X == {k \in 0..z : \E f : f = Turns(f, c, k)}
<1>1. 0 \in X
  <2> DEFINE f == [k \in 0..0 |-> c]
  <2>1. f = Turns(f, c, 0)
    BY DEF Turns
  <2> HIDE DEF f
  <2>2. QED
    BY <2>1, 0 \in 0..z
<1>2. ASSUME NEW i \in 0..(z - 1), i \in X PROVE i + 1 \in X
  <2>1. PICK f : f = Turns(f, c, i)
    BY <1>2
  <2>2. f = [k \in 0..i |-> IF k = 0 THEN c ELSE Values!TakeEntry(f[k - 1])]
    BY <2>1, Zenon DEF Turns
  <2> DEFINE d == Values!TakeEntry(f[i])
             h == [k \in 0..(i + 1) |-> IF k = i + 1 THEN d ELSE f[k]]
  <2>3. \A k \in 0..(i + 1) : h[k] = IF k = 0 THEN c ELSE Values!TakeEntry(h[k - 1])
    <3>1. ASSUME NEW k \in 0..(i + 1), k = 0 PROVE h[k] = c
      BY <2>2, <3>1
    <3>2. ASSUME NEW k \in 0..(i + 1), k # 0, k # i + 1 PROVE h[k] = Values!TakeEntry(h[k - 1])
      <4>1. k \in 0..i /\ k - 1 \in 0..(i + 1) /\ k - 1 # i + 1
        BY <3>2
      <4>2. h[k] = f[k] /\ h[k - 1] = f[k - 1]
        BY <3>2, <4>1
      <4>3. f[k] = Values!TakeEntry(f[k - 1])
        <5> HIDE DEF h
        <5>1. QED
          BY <2>2, <3>2, <4>1
      <4>4. QED
        BY <4>2, <4>3, Zenon
    <3>3. h[i + 1] = Values!TakeEntry(h[(i + 1) - 1])
      <4>1. (i + 1) - 1 = i /\ i \in 0..(i + 1) /\ i + 1 \in 0..(i + 1) /\ i # i + 1
        OBVIOUS
      <4>2. h[i + 1] = d /\ h[i] = f[i]
        BY <4>1, Zenon
      <4>3. QED
        BY <4>1, <4>2, Zenon
    <3> HIDE DEF h
    <3>4. QED
      BY <3>1, <3>2, <3>3
  <2>4. h = [k \in 0..(i + 1) |-> h[k]]
    OBVIOUS
  <2> HIDE DEF h
  <2>5. h = Turns(h, c, i + 1)
    BY <2>3, <2>4 DEF Turns
  <2>6. i + 1 \in 0..z
    OBVIOUS
  <2>7. QED
    BY <2>5, <2>6
<1> HIDE DEF X
<1>3. \A i \in 0..z : i \in X
  BY <1>1, <1>2, RangeInduction
<1>4. z \in X
  BY <1>3
<1>5. QED
  BY <1>4 DEF X

\* The entries of a table that were read after k turns.
PartOfTable(T, k) == [x \in {Values!Keys(T)[j] : j \in 1..k} |-> T[x]]

\* The entries of a table add up to it, one by one.
LEMMA PartsOfTable ==
    ASSUME NEW T, Tabled(T)
    PROVE  /\ PartOfTable(T, 0) = <<>>
           /\ PartOfTable(T, Len(Values!Keys(T))) = T
           /\ \A k \in 1..Len(Values!Keys(T)) :
                 Values!Put(PartOfTable(T, k - 1), Values!Keys(T)[k], T[Values!Keys(T)[k]])
                   = PartOfTable(T, k)
<1> DEFINE K == Values!Keys(T)
           n == Len(K)
<1>1. PartOfTable(T, 0) = <<>>
  <2>1. {K[j] : j \in 1..0} = {}
    OBVIOUS
  <2>2. [x \in {} |-> T[x]] = <<>>
    OBVIOUS
  <2>3. QED
    BY <2>1, <2>2, Zenon DEF PartOfTable
<1>2. PartOfTable(T, n) = T
  <2>1. /\ K \in Seq(DOMAIN T) /\ \A k \in DOMAIN T : \E i \in 1..n : K[i] = k
    BY KeysOf, Zenon DEF Tabled
  <2>2. \A i \in 1..n : K[i] \in DOMAIN T
    BY <2>1, ElementOfSeq, Zenon
  <2>3. {K[j] : j \in 1..n} = DOMAIN T
    <3> HIDE DEF K, n
    <3>1. QED
      BY <2>1, <2>2, Zenon
  <2>4. T = [k \in DOMAIN T |-> T[k]]
    BY Zenon DEF Tabled
  <2>5. PartOfTable(T, n) = [k \in DOMAIN T |-> T[k]]
    BY <2>3, Zenon DEF PartOfTable
  <2>6. QED
    BY <2>4, <2>5, Zenon
<1>3. n \in Nat
  <2>1. n \in 0..Byte
    BY KeysOf, Zenon DEF Tabled
  <2>2. QED
    BY <2>1, ByteBound
<1>4. ASSUME NEW k \in 1..n
      PROVE  Values!Put(PartOfTable(T, k - 1), K[k], T[K[k]]) = PartOfTable(T, k)
  <2> DEFINE A == {K[j] : j \in 1..(k - 1)}
             B == {K[j] : j \in 1..k}
             p == [x \in A |-> T[x]]
  <2> HIDE DEF K, n
  <2>1. A \cup {K[k]} = B
    <3>1. 1..k = 1..(k - 1) \cup {k}
      BY <1>3
    <3>2. QED
      BY <3>1, Zenon
  <2>2. DOMAIN p = A
    OBVIOUS
  <2>3. Values!Put(p, K[k], T[K[k]]) =
          [j \in A \cup {K[k]} |-> IF j = K[k] THEN T[K[k]] ELSE p[j]]
    <3> HIDE DEF p, A
    <3>1. QED
      BY <2>2, Zenon DEF Values!Put
  <2>4. \A j \in A \cup {K[k]} : (IF j = K[k] THEN T[K[k]] ELSE p[j]) = T[j]
    <3> HIDE DEF A
    <3>1. QED
      BY Zenon
  <2>5. [j \in A \cup {K[k]} |-> IF j = K[k] THEN T[K[k]] ELSE p[j]] = [j \in B |-> T[j]]
    <3> HIDE DEF A, B, p
    <3>1. QED
      BY <2>1, <2>4
  <2>6. PartOfTable(T, k - 1) = p /\ PartOfTable(T, k) = [j \in B |-> T[j]]
    BY Zenon DEF PartOfTable, K
  <2> HIDE DEF A, B, p
  <2>7. QED
    BY <2>3, <2>5, <2>6, Zenon
<1>5. QED
  BY <1>1, <1>2, <1>4, Zenon

\* Reading a table, when its first k entries were read.
AtEntry(t, T, k, rest, used, z, b) ==
    \E g : t = [r |-> Frame(After(rest[k], b), g), used |-> used[k], size |-> z,
                table |-> PartOfTable(T, k)]

\* One more turn reads one more entry.
LEMMA NextEntry ==
    ASSUME NEW T, Tabled(T), NEW n, n = Len(Values!Keys(T)), NEW rest, NEW used,
           Layout(T, n, rest, used), NEW b \in Str, NEW k \in 1..n, NEW t,
           AtEntry(t, T, k - 1, rest, used, used[n], b)
    PROVE  AtEntry(Values!TakeEntry(t), T, k, rest, used, used[n], b)
<1> DEFINE x == Values!Keys(T)[k]
           v == T[x]
           z == used[n]
<1>1. n \in Nat /\ rest \in [0..n -> Str] /\ used \in [0..n -> Nat]
  BY Zenon DEF Layout
<1>2. /\ rest[k - 1] = After(Values!EntryBytes(x, v), rest[k])
      /\ used[k] = used[k - 1] + Values!EntrySize(v)
  BY Zenon DEF Layout
<1>3. x \in 0..(Byte - 1) /\ Proper(v)
  BY KeyOfEntry, Zenon
<1>4. k - 1 \in 0..n /\ k \in 0..n /\ n \in 0..n /\ n - (k - 1) >= 1
  BY <1>1
<1>5. used[k - 1] \in Nat /\ z \in Nat /\ rest[k] \in Str
  BY <1>1, <1>4, Zenon
<1>6. used[k - 1] < z
  <2>1. used[n] >= used[k - 1] + (n - (k - 1))
    BY <1>4, LayoutGrows, Zenon
  <2>2. QED
    BY <1>1, <1>4, <1>5, <2>1
<1>7. Values!EntryBytes(x, v) \in Str
  BY <1>3, EntryLength, Zenon
<1>8. Values!Put(PartOfTable(T, k - 1), x, v) = PartOfTable(T, k)
  BY PartsOfTable, Zenon
<1> HIDE DEF x, v, z
<1>9. PICK g : t = [r |-> Frame(After(rest[k - 1], b), g), used |-> used[k - 1], size |-> z,
                    table |-> PartOfTable(T, k - 1)]
  BY Zenon DEF AtEntry, z
<1> DEFINE c == After(rest[k], b)
<1>10. c \in Str
  BY <1>5, AfterStr, Zenon
<1>11. After(rest[k - 1], b) = After(Values!EntryBytes(x, v), c)
  <2>1. Grouped(Values!EntryBytes(x, v), rest[k], b)
    BY <1>5, <1>7, AfterStr, Zenon
  <2>2. QED
    BY <1>2, <2>1, Zenon DEF Grouped
<1> HIDE DEF c
<1>12. t = [r |-> Frame(After(Values!EntryBytes(x, v), c), g), used |-> used[k - 1], size |-> z,
            table |-> PartOfTable(T, k - 1)]
  BY <1>9, <1>11, Zenon
<1>13. Values!TakeEntry(t) =
         [r |-> Frame(c, v.bytes), used |-> used[k - 1] + Values!EntrySize(v), size |-> z,
          table |-> Values!Put(PartOfTable(T, k - 1), x, v)]
  <2> DEFINE u == used[k - 1]
             P == PartOfTable(T, k - 1)
  <2>1. u \in Nat /\ u < z
    BY <1>5, <1>6, Zenon
  <2>2. t = [r |-> Frame(After(Values!EntryBytes(x, v), c), g), used |-> u, size |-> z, table |-> P]
    BY <1>12, Zenon
  <2> HIDE DEF u, P
  <2>3. Values!TakeEntry([r |-> Frame(After(Values!EntryBytes(x, v), c), g), used |-> u,
                          size |-> z, table |-> P]) =
          [r |-> Frame(c, v.bytes), used |-> u + Values!EntrySize(v), size |-> z,
           table |-> Values!Put(P, x, v)]
    BY <1>3, <1>5, <1>10, <2>1, TakeEntryFront, SMTT(30)
  <2>4. QED
    BY <2>2, <2>3, Zenon DEF u, P
<1>14. Values!TakeEntry(t) = [r |-> Frame(c, v.bytes), used |-> used[k], size |-> z,
                              table |-> PartOfTable(T, k)]
  BY <1>2, <1>8, <1>13, Zenon
<1>15. QED
  BY <1>14, Zenon DEF AtEntry, c, z

\* A table that is written is read as it was.
LEMMA ReadTable ==
    ASSUME NEW T, Tabled(T), Values!TableSize(T) - 4 \in Small, NEW b \in Str, NEW g
    PROVE  Values!TakeTable(Frame(After(Values!TableBytes(T), b), g)) = Frame(b, T)
<1> DEFINE n == Len(Values!Keys(T))
<1>1. PICK rest, used :
         /\ Layout(T, n, rest, used)
         /\ Values!TableSize(T) = 4 + used[n]
         /\ Values!TableBytes(T) = After(Values!Bytes(used[n], 4), rest[0])
  BY TableLayout, Zenon
<1>2. n = Len(Values!Keys(T))
  OBVIOUS
<1> HIDE DEF n
<1>3. n \in Nat /\ rest \in [0..n -> Str] /\ used \in [0..n -> Nat] /\ rest[n] = <<>> /\ used[0] = 0
  BY <1>1, Zenon DEF Layout
<1>4. 0 \in 0..n /\ n \in 0..n
  BY <1>3
<1> DEFINE z == used[n]
           h == Values!Bytes(z, 4)
           r == Frame(After(Values!TableBytes(T), b), g)
           size == Frame(After(rest[0], b), h)
           c == [r |-> size, used |-> 0, size |-> z, table |-> <<>>]
           F == CHOOSE f : f = Turns(f, c, z)
<1>5. z \in Nat /\ rest[0] \in Str /\ rest[n] \in Str /\ n <= z
  <2>1. n <= used[n]
    BY <1>1, <1>2, <1>4, LayoutGrows, Zenon
  <2>2. QED
    BY <1>3, <1>4, <2>1
<1>6. z \in Small
  BY <1>1, <1>5
<1>7. h \in Str /\ Len(h) = 4 /\ Values!Number(h) = z
  <2> HIDE DEF z
  <2>1. Values!Bytes(z, 4) \in Str /\ Len(Values!Bytes(z, 4)) = 4
    BY <1>5, BytesLength, 4 \in Nat, Zenon
  <2>2. Values!Number(Values!Bytes(z, 4)) = z
    BY <1>6, FourBytes, Zenon
  <2>3. QED
    BY <2>1, <2>2, Zenon
<1>8. Values!Take(r, 4) = size
  <2> HIDE DEF h, z
  <2>1. Grouped(h, rest[0], b) /\ After(rest[0], b) \in Str
    BY <1>5, <1>7, AfterStr, Zenon
  <2>2. Values!TableBytes(T) = After(h, rest[0])
    BY <1>1, Zenon DEF h, z
  <2>3. r = Frame(After(h, After(rest[0], b)), g)
    BY <2>1, <2>2, Zenon DEF Grouped
  <2> DEFINE e == After(rest[0], b)
  <2>4. e \in Str /\ size = Frame(e, h) /\ r = Frame(After(h, e), g)
    BY <2>1, <2>3, Zenon
  <2> HIDE DEF r, e, size
  <2>5. QED
    BY <1>7, <2>4, TakeFront, Zenon
<1>9. size.got = h
  <2> HIDE DEF h
  <2>1. QED
    BY DEF Frame
<1>10. Values!TakeTable(r) = [rest |-> F[z].r.rest, ok |-> F[z].r.ok, got |-> F[z].table]
  <2>1. Values!Number(Values!Take(r, 4).got) = z
    <3> HIDE DEF size, h, r, z
    <3>1. QED
      BY <1>7, <1>8, <1>9, Zenon
  <2> DEFINE s == Values!Take(r, 4)
             m == Values!Number(s.got)
             G == CHOOSE f : f = [k \in 0..m |->
                     IF k = 0 THEN [r |-> s, used |-> 0, size |-> m, table |-> <<>>]
                     ELSE Values!TakeEntry(f[k - 1])]
  <2>2. Values!TakeTable(r) = [rest |-> G[m].r.rest, ok |-> G[m].r.ok, got |-> G[m].table]
    <3> HIDE DEF r
    <3>1. QED
      BY Zenon DEF Values!TakeTable
  <2>3. s = size /\ m = z
    BY <1>8, <2>1, Zenon
  <2> HIDE DEF s, m, r, size, z
  <2>4. G = F
    BY <2>3, Zenon DEF Turns
  <2> HIDE DEF G, F
  <2>5. QED
    BY <2>2, <2>3, <2>4, Zenon
<1>11. F = Turns(F, c, z)
  <2>1. \E f : f = Turns(f, c, z)
    <3> HIDE DEF c, z
    <3>1. QED
      BY <1>5, TurnsExist, Zenon
  <2> HIDE DEF c, z
  <2>2. QED
    BY <2>1, Zenon
<1> HIDE DEF F
<1>12. F[0] = c /\ \A k \in 1..z : F[k] = Values!TakeEntry(F[k - 1])
  <2> HIDE DEF c, z
  <2>1. F = [k \in 0..z |-> IF k = 0 THEN c ELSE Values!TakeEntry(F[k - 1])]
    BY <1>11, Zenon DEF Turns
  <2>2. QED
    BY <1>5, <2>1
<1>13. \A k \in 0..n : AtEntry(F[k], T, k, rest, used, z, b)
  <2> DEFINE X == {k \in 0..n : AtEntry(F[k], T, k, rest, used, z, b)}
  <2>1. 0 \in X
    <3>1. PartOfTable(T, 0) = <<>>
      BY PartsOfTable, Zenon
    <3>2. AtEntry(F[0], T, 0, rest, used, z, b)
      <4> HIDE DEF z, h
      <4>1. QED
        BY <1>3, <1>12, <3>1, Zenon DEF AtEntry
    <3>3. QED
      BY <1>4, <3>2, Zenon
  <2>2. ASSUME NEW k \in 0..(n - 1), k \in X PROVE k + 1 \in X
    <3>1. k + 1 \in 1..n /\ (k + 1) - 1 = k /\ k + 1 \in 0..n
      BY <1>3
    <3>2. k + 1 \in 1..z
      BY <1>5, <3>1, <1>3
    <3>3. AtEntry(F[(k + 1) - 1], T, (k + 1) - 1, rest, used, z, b)
      BY <2>2, <3>1, Zenon
    <3>4. AtEntry(Values!TakeEntry(F[(k + 1) - 1]), T, k + 1, rest, used, used[n], b)
      BY <1>1, <1>2, <3>1, <3>3, NextEntry, Zenon
    <3>5. AtEntry(F[k + 1], T, k + 1, rest, used, z, b)
      BY <1>12, <3>2, <3>4, Zenon
    <3>6. QED
      BY <3>1, <3>5, Zenon
  <2> HIDE DEF X, z
  <2>3. \A k \in 0..n : k \in X
    BY <1>3, <2>1, <2>2, RangeInduction
  <2>4. QED
    BY <2>3, Zenon DEF X
<1>14. PICK e : F[n] = [r |-> Frame(After(rest[n], b), e), used |-> z, size |-> z,
                        table |-> PartOfTable(T, n)]
  BY <1>4, <1>13, Zenon DEF AtEntry
<1>15. Values!TakeEntry(F[n]) = F[n]
  <2>1. F[n].used >= F[n].size
    <3> HIDE DEF z
    <3>1. F[n].used = z /\ F[n].size = z
      BY <1>14
    <3>2. QED
      BY <1>5, <3>1
  <2>2. QED
    BY <2>1, Zenon DEF Values!TakeEntry
<1>16. F[z] = F[n]
  <2> DEFINE X == {i \in 0..(z - n) : F[n + i] = F[n]}
  <2> HIDE DEF z
  <2>1. 0 \in X
    BY <1>3, <1>5
  <2>2. ASSUME NEW i \in 0..((z - n) - 1), i \in X PROVE i + 1 \in X
    <3>1. n + (i + 1) \in 1..z /\ (n + (i + 1)) - 1 = n + i /\ i + 1 \in 0..(z - n)
      BY <1>3, <1>5
    <3>2. F[n + (i + 1)] = Values!TakeEntry(F[n + i])
      BY <1>12, <3>1, Zenon
    <3>3. F[n + (i + 1)] = F[n]
      BY <1>15, <2>2, <3>2, Zenon
    <3>4. QED
      BY <3>1, <3>3, Zenon
  <2> HIDE DEF X
  <2>3. z - n \in Nat /\ n + (z - n) = z
    BY <1>3, <1>5
  <2>4. \A i \in 0..(z - n) : i \in X
    BY <2>1, <2>2, <2>3, RangeInduction
  <2>5. z - n \in X
    BY <2>3, <2>4
  <2>6. QED
    BY <2>3, <2>5 DEF X
<1>17. F[n].r = Frame(b, e) /\ F[n].table = T
  <2>1. PartOfTable(T, n) = T
    BY <1>2, PartsOfTable, Zenon
  <2>2. After(rest[n], b) = b
    <3>1. b \in Seq(Nat)
      BY DEF Str
    <3>2. QED
      BY <1>3, <3>1, ConcatEmptySeq, Zenon DEF After
  <2>3. F[n] = [r |-> Frame(b, e), used |-> z, size |-> z, table |-> T]
    BY <1>14, <2>1, <2>2, Zenon
  <2> HIDE DEF z
  <2>4. QED
    BY <2>3
<1>18. Frame(b, e).rest = b /\ Frame(b, e).ok = TRUE
  BY DEF Frame
<1>19. Values!TakeTable(r) = Frame(b, T)
  <2> HIDE DEF r, z
  <2>1. QED
    BY <1>10, <1>16, <1>17, <1>18, Zenon DEF Frame
<1>20. QED
  BY <1>19, Zenon

\* Byte entries of up to Byte + 8 bytes have a size of no more than three bytes.
LEMMA SmallLength ==
    ASSUME NEW n \in Nat, n <= Byte * (Byte + 8)
    PROVE  n \in Small
<1> DEFINE m == n \div Byte
           l == m \div Byte
<1>1. m \in Nat /\ n % Byte \in Nat /\ n = m * Byte + (n % Byte)
  BY ByteBound
<1>2. m <= Byte + 8
  <2> HIDE DEF m
  <2>1. SUFFICES ASSUME m >= Byte + 9 PROVE FALSE
    BY <1>1, ByteBound
  <2>2. m * Byte >= (Byte + 9) * Byte
    BY <1>1, <2>1, ByteBound
  <2>3. (Byte + 9) * Byte = Byte * (Byte + 8) + Byte
    BY ByteBound
  <2>4. m * Byte \in Nat /\ Byte * (Byte + 8) \in Nat /\ (Byte + 9) * Byte \in Nat
    BY <1>1, ByteBound
  <2>5. QED
    BY <1>1, <2>2, <2>3, <2>4, ByteBound
<1>3. l < Byte
  <2> HIDE DEF m
  <2>1. l \in Nat /\ m % Byte \in Nat /\ m = l * Byte + (m % Byte)
    BY <1>1, ByteBound
  <2> HIDE DEF l
  <2>2. SUFFICES ASSUME l >= Byte PROVE FALSE
    BY <2>1, ByteBound
  <2>3. l * Byte >= Byte * Byte
    BY <2>1, <2>2, ByteBound
  <2>4. Byte * Byte >= 11 * Byte
    BY ByteBound
  <2>5. l * Byte \in Nat /\ Byte * Byte \in Nat
    BY <2>1, ByteBound
  <2>6. QED
    BY <1>1, <1>2, <2>1, <2>3, <2>4, <2>5, ByteBound
<1>4. QED
  BY <1>3, Zenon DEF Small

\* Tables whose size can be written in front of them.
LEMMA TableSmall ==
    ASSUME NEW T, Tabled(T), \A k \in DOMAIN T : Values!EntrySize(T[k]) <= Byte + 8
    PROVE  /\ Values!TableSize(T) \in Nat /\ Values!TableSize(T) - 4 \in Small
           /\ Values!TableBytes(T) \in Str /\ Len(Values!TableBytes(T)) = Values!TableSize(T)
<1> DEFINE K == Values!Keys(T)
           n == Len(K)
           c == Byte + 8
<1>1. PICK rest, used : /\ Layout(T, n, rest, used)
                        /\ Values!TableSize(T) = 4 + used[n]
                        /\ Values!TableBytes(T) \in Str
                        /\ Len(Values!TableBytes(T)) = Values!TableSize(T)
  BY TableLayout, Zenon
<1>2. n \in 0..Byte
  BY KeysOf, Zenon DEF Tabled
<1>3. n \in Nat /\ used \in [0..n -> Nat] /\ used[0] = 0 /\ c \in Nat
  <2>1. c \in Nat
    BY ByteBound
  <2>2. QED
    BY <1>1, <2>1, Zenon DEF Layout
<1>4. ASSUME NEW i \in 1..n PROVE used[i] <= used[i - 1] + c
  <2>1. used[i] = used[i - 1] + Values!EntrySize(T[K[i]])
    BY <1>1, Zenon DEF Layout
  <2>2. K[i] \in DOMAIN T /\ K[i] \in 0..(Byte - 1) /\ Proper(T[K[i]])
    BY KeyOfEntry, Zenon
  <2>3. Values!EntrySize(T[K[i]]) <= c /\ Values!EntrySize(T[K[i]]) \in Nat
    BY <2>2, EntryLength, Zenon
  <2>4. used[i - 1] \in Nat
    <3> HIDE DEF n
    <3>1. QED
      BY <1>3
  <2> HIDE DEF c, K, n
  <2>5. QED
    BY <1>3, <2>1, <2>3, <2>4
<1> HIDE DEF n, c
<1>5. used[n] <= n * c
  <2> DEFINE X == {i \in 0..n : used[i] <= i * c}
  <2>1. 0 \in X
    <3>1. 0 * c = 0
      BY <1>3
    <3>2. QED
      BY <1>3, <3>1
  <2>2. ASSUME NEW i \in 0..(n - 1), i \in X PROVE i + 1 \in X
    <3>1. i + 1 \in 1..n /\ (i + 1) - 1 = i /\ i + 1 \in 0..n /\ i \in 0..n
      BY <1>3
    <3>2. used[i + 1] <= used[i] + c
      BY <1>4, <3>1
    <3>3. (i + 1) * c = i * c + c /\ i * c \in Nat
      BY <1>3
    <3>4. used[i] \in Nat /\ used[i + 1] \in Nat
      BY <1>3, <3>1
    <3>5. used[i] <= i * c
      BY <2>2
    <3>6. used[i + 1] <= (i + 1) * c
      <4> DEFINE y == i * c
                 w == (i + 1) * c
      <4> HIDE DEF y, w
      <4>1. w = y + c /\ y \in Nat /\ used[i] <= y
        BY <3>3, <3>5 DEF y, w
      <4>2. used[i + 1] <= w
        BY <1>3, <3>2, <3>4, <4>1
      <4>3. QED
        BY <4>2 DEF w
    <3>7. QED
      BY <3>1, <3>6, Zenon
  <2> HIDE DEF X
  <2>3. \A i \in 0..n : i \in X
    BY <1>3, <2>1, <2>2, RangeInduction
  <2>4. n \in X
    BY <1>3, <2>3
  <2>5. QED
    BY <2>4 DEF X
<1>6. n * c <= Byte * c
  BY <1>2, <1>3, ByteBound
<1>7. used[n] \in Nat /\ used[n] <= Byte * (Byte + 8)
  <2>1. used[n] \in Nat
    BY <1>3
  <2>2. n * c \in Nat /\ Byte * c \in Nat
    BY <1>3, ByteBound
  <2>3. used[n] <= Byte * c
    BY <1>5, <1>6, <2>1, <2>2
  <2>4. QED
    BY <2>1, <2>3, Zenon DEF c
<1>8. used[n] \in Small
  BY <1>7, SmallLength
<1>9. Values!TableSize(T) - 4 = used[n] /\ Values!TableSize(T) \in Nat
  BY <1>1, <1>7
<1>10. QED
  BY <1>1, <1>8, <1>9, Zenon

-----------------------------------------------------------------------------
(* The properties of a message *)

StringFields == {"contentType", "contentEncoding", "correlationID", "replyTo", "expiration",
                 "messageID", "typeName", "userID", "appID", "clusterID"}

Fields == StringFields \cup {"deliveryMode", "priority", "headers", "timestamp"}

\* Fields are read in the order in which they are written, and there are no others.
LEMMA FieldsInOrder ==
    /\ Len(Values!WireOrder) = 14 /\ DOMAIN Values!WireOrder = 1..14
    /\ Values!ReadOrder = Values!WireOrder
    /\ \A i \in 1..14 : Values!WireOrder[i] \in Fields
    /\ \A f \in Fields : \E i \in 1..14 : Values!WireOrder[i] = f
    /\ Values!ToSet(Values!WireOrder) = Fields
    /\ Values!Strings = StringFields
    /\ Values!Octets = {"deliveryMode", "priority"}
<1>1. Len(Values!WireOrder) = 14 /\ DOMAIN Values!WireOrder = 1..14
  BY DEF Values!WireOrder
<1>2. Values!ReadOrder = Values!WireOrder
  BY DEF Values!WireOrder, Values!ReadOrder
<1>3. \A i \in 1..14 : Values!WireOrder[i] \in Fields
  BY DEF Values!WireOrder, Fields, StringFields
<1>4. \A f \in Fields : \E i \in 1..14 : Values!WireOrder[i] = f
  BY DEF Values!WireOrder, Fields, StringFields
<1>5. Values!ToSet(Values!WireOrder) = Fields
  <2>1. Values!ToSet(Values!WireOrder) = {Values!WireOrder[i] : i \in 1..14}
    BY <1>1, Zenon DEF Values!ToSet
  <2>2. QED
    BY <1>3, <1>4, <2>1, Zenon
<1>6. Values!Octets = {"deliveryMode", "priority"}
  BY Zenon DEF Values!Octets
<1>7. Values!Strings = StringFields
  BY <1>5, <1>6 DEF Values!Strings, Fields, StringFields
<1>8. QED
  BY <1>1, <1>2, <1>3, <1>4, <1>5, <1>6, <1>7, Zenon

\* Each field has a flag of its own.
LEMMA OwnFlags ==
    /\ \A f \in Fields : Values!Bit[f][1] \in 1..2 /\ Values!Bit[f][2] \in 0..7
    /\ \A f, g \in Fields : Values!Bit[f] = Values!Bit[g] => f = g
<1> DEFINE Owner == [n \in 10..27 |->
                CASE n = 10 -> "expiration" [] n = 11 -> "replyTo" [] n = 12 -> "correlationID"
                  [] n = 13 -> "priority" [] n = 14 -> "deliveryMode" [] n = 15 -> "headers"
                  [] n = 16 -> "contentEncoding" [] n = 17 -> "contentType"
                  [] n = 22 -> "clusterID" [] n = 23 -> "appID" [] n = 24 -> "userID"
                  [] n = 25 -> "typeName" [] n = 26 -> "timestamp" [] n = 27 -> "messageID"
                  [] OTHER -> "none"]
<1>1. \A f \in Fields : Values!Bit[f][1] \in 1..2 /\ Values!Bit[f][2] \in 0..7
  BY DEF Values!Bit, Fields, StringFields
<1>2. \A f \in Fields : Owner[10 * Values!Bit[f][1] + Values!Bit[f][2]] = f
  BY DEF Values!Bit, Fields, StringFields
<1> HIDE DEF Owner
<1>3. QED
  BY <1>1, <1>2, Zenon

TwoOctets == {"deliveryMode", "priority"}

\* The values that field f may have.
FieldValue(f, v) ==
    /\ f \in StringFields => v \in Str
    /\ f \in TwoOctets => v \in Str /\ Len(v) = 1
    /\ f = "timestamp" => v \in Str /\ Len(v) = 8
    /\ f = "headers" => Tabled(v) /\ \A k \in DOMAIN v : Values!EntrySize(v[k]) <= Byte + 8

\* What the setters make of the properties.
ValueTypes ==
    /\ bools \in [1..2 -> SUBSET (0..7)]
    /\ value = [f \in Fields |-> value[f]]
    /\ \A f \in Fields : FieldValue(f, value[f])

\* A field is a string, an octet, the timestamp or the headers.
LEMMA KindsOfField ==
    ASSUME NEW f \in Fields
    PROVE  /\ f \in StringFields \/ f \in TwoOctets \/ f = "timestamp" \/ f = "headers"
           /\ f \in StringFields => f \notin TwoOctets /\ f # "timestamp" /\ f # "headers"
           /\ f \in TwoOctets => f # "timestamp" /\ f # "headers"
           /\ Values!Strings = StringFields /\ Values!Octets = TwoOctets
BY FieldsInOrder DEF Fields, StringFields, TwoOctets

\* Each field is written in as many bytes as its size says.
LEMMA FieldRoom ==
    ASSUME ValueTypes, NEW f \in Fields
    PROVE  Values!BytesOf(f) \in Str /\ Len(Values!BytesOf(f)) = Values!SizeOf(f)
<1>1. CASE f \in StringFields
  <2>1. value[f] \in Str
    BY <1>1, Zenon DEF ValueTypes, FieldValue
  <2>2. /\ After(Values!Bytes(Len(value[f]), 1), value[f]) \in Str
        /\ Len(After(Values!Bytes(Len(value[f]), 1), value[f])) = 1 + Len(value[f])
    BY <2>1, PrefixedLength, 1 \in Nat, Zenon
  <2>3. f \in Values!Strings
    BY <1>1, KindsOfField, Zenon
  <2>4. /\ Values!BytesOf(f) = Values!ShortString(value[f])
        /\ Values!SizeOf(f) = 1 + Len(value[f])
    <3>1. Values!Strings = StringFields /\ Values!Octets = TwoOctets
      BY KindsOfField, Zenon
    <3>2. f \notin TwoOctets /\ f # "timestamp" /\ f # "headers"
      BY <1>1, KindsOfField, Zenon
    <3> DEFINE x == Values!ShortString(value[f])
               y == 1 + Len(value[f])
    <3>3. Values!BytesOf(f) = CASE f \in StringFields -> x
             [] f = "headers" -> Values!TableBytes(value[f]) [] OTHER -> value[f]
      BY <3>1, Zenon DEF Values!BytesOf
    <3>4. Values!SizeOf(f) = CASE f \in StringFields -> y [] f \in TwoOctets -> 1
             [] f = "timestamp" -> 8 [] f = "headers" -> Values!TableSize(value[f])
      BY <3>1, Zenon DEF Values!SizeOf
    <3> HIDE DEF x, y
    <3>5. Values!BytesOf(f) = x /\ Values!SizeOf(f) = y
      BY <1>1, <3>2, <3>3, <3>4
    <3>6. QED
      BY <3>5, Zenon DEF x, y
  <2>5. QED
    BY <2>2, <2>4, StringShapes, Zenon
<1>2. CASE f \notin StringFields
  <2>1. Values!Strings = StringFields /\ Values!Octets = TwoOctets
    BY KindsOfField, Zenon
  <2>2. Values!BytesOf(f) = IF f = "headers" THEN Values!TableBytes(value[f]) ELSE value[f]
    <3>1. Values!BytesOf(f) = CASE f \in StringFields -> Values!ShortString(value[f])
             [] f = "headers" -> Values!TableBytes(value[f]) [] OTHER -> value[f]
      BY <2>1, Zenon DEF Values!BytesOf
    <3>2. QED
      BY <1>2, <3>1
  <2>3. /\ f \in TwoOctets => Values!SizeOf(f) = 1
        /\ f = "timestamp" => Values!SizeOf(f) = 8
        /\ f = "headers" => Values!SizeOf(f) = Values!TableSize(value[f])
    <3>1. Values!SizeOf(f) = CASE f \in StringFields -> 1 + Len(value[f]) [] f \in TwoOctets -> 1
             [] f = "timestamp" -> 8 [] f = "headers" -> Values!TableSize(value[f])
      BY <2>1, Zenon DEF Values!SizeOf
    <3>2. f \in TwoOctets => f # "timestamp" /\ f # "headers"
      BY KindsOfField, Zenon
    <3>3. QED
      BY <1>2, <3>1, <3>2
  <2>4. CASE f \in TwoOctets
    <3>1. f # "headers" /\ value[f] \in Str /\ Len(value[f]) = 1
      BY <2>4, KindsOfField, Zenon DEF ValueTypes, FieldValue
    <3>2. QED
      BY <2>2, <2>3, <2>4, <3>1, Zenon
  <2>5. CASE f = "timestamp"
    <3>1. f # "headers"
      BY <2>5
    <3>2. value[f] \in Str /\ Len(value[f]) = 8
      BY <2>5, Zenon DEF ValueTypes, FieldValue
    <3>3. QED
      BY <2>2, <2>3, <2>5, <3>1, <3>2, Zenon
  <2>6. CASE f = "headers"
    <3>1. /\ Tabled(value[f])
          /\ \A k \in DOMAIN value[f] : Values!EntrySize(value[f][k]) <= Byte + 8
      BY <2>6, Zenon DEF ValueTypes, FieldValue
    <3>2. /\ Values!TableBytes(value[f]) \in Str
          /\ Len(Values!TableBytes(value[f])) = Values!TableSize(value[f])
      BY <3>1, TableSmall, Zenon
    <3>3. QED
      BY <2>2, <2>3, <2>6, <3>2, Zenon
  <2>7. QED
    BY <1>2, <2>4, <2>5, <2>6, KindsOfField, Zenon
<1>3. QED
  BY <1>1, <1>2, Zenon

\* Each field is read from the front of a frame as it was written.
LEMMA TakeFieldFront ==
    ASSUME ValueTypes, Values!Fits, NEW f \in Fields, NEW b \in Str, NEW g
    PROVE  Values!TakeField(Frame(After(Values!BytesOf(f), b), g), f) = Frame(b, value[f])
<1> DEFINE r == Frame(After(Values!BytesOf(f), b), g)
<1>1. Values!Strings = StringFields /\ Values!Octets = TwoOctets
  BY KindsOfField, Zenon
<1>2. Values!BytesOf(f) = CASE f \in StringFields -> Values!ShortString(value[f])
         [] f = "headers" -> Values!TableBytes(value[f]) [] OTHER -> value[f]
  BY <1>1, Zenon DEF Values!BytesOf
<1>3. Values!TakeField(r, f) = CASE f \in StringFields -> Values!TakeString(r, 1)
         [] f \in TwoOctets -> Values!TakeNumber(r, "B")
         [] f = "timestamp" -> Values!TakeNumber(r, "l")
         [] f = "headers" -> Values!TakeTable(r)
  <2> HIDE DEF r
  <2>1. QED
    BY <1>1, Zenon DEF Values!TakeField
<1>4. Values!TakeNumber(r, "B") = Values!Take(r, 1) /\ Values!TakeNumber(r, "l") = Values!Take(r, 8)
  <2>1. Values!Width["B"] = 1 /\ Values!Width["l"] = 8
    BY DEF Values!Width
  <2> HIDE DEF r
  <2>2. QED
    BY <2>1, Zenon DEF Values!TakeNumber
<1>5. CASE f \in StringFields
  <2>1. value[f] \in Str
    BY <1>5, Zenon DEF ValueTypes, FieldValue
  <2>2. Len(value[f]) \in Nat /\ Len(value[f]) < Byte
    BY <1>1, <1>5, <2>1, StrLen, Zenon DEF Values!Fits
  <2>3. Values!Number(Values!Bytes(Len(value[f]), 1)) = Len(value[f])
    BY <2>2, OneByte, Zenon
  <2>4. Values!BytesOf(f) = After(Values!Bytes(Len(value[f]), 1), value[f])
    <3>1. f # "headers"
      BY <1>5, KindsOfField, Zenon
    <3>2. Values!BytesOf(f) = Values!ShortString(value[f])
      BY <1>2, <1>5, <3>1
    <3>3. QED
      BY <3>2, StringShapes, Zenon
  <2> DEFINE s == value[f]
  <2>5. Values!TakeString(Frame(After(After(Values!Bytes(Len(s), 1), s), b), g), 1) = Frame(b, s)
    <3>1. s \in Str /\ Values!Number(Values!Bytes(Len(s), 1)) = Len(s)
      BY <2>1, <2>3, Zenon
    <3> HIDE DEF s
    <3>2. QED
      BY <3>1, TakeStringFront, 1 \in Nat, Zenon
  <2>6. Values!TakeString(r, 1) = Frame(b, value[f])
    BY <2>4, <2>5, Zenon
  <2>7. Values!TakeField(r, f) = Values!TakeString(r, 1)
    <3>1. f \notin TwoOctets /\ f # "timestamp" /\ f # "headers"
      BY <1>5, KindsOfField, Zenon
    <3> HIDE DEF r
    <3>2. QED
      BY <1>3, <1>5, <3>1
  <2>8. QED
    BY <2>6, <2>7, Zenon
<1>6. CASE f \in TwoOctets
  <2>1. f \notin StringFields /\ f # "timestamp" /\ f # "headers"
    BY <1>6, KindsOfField, Zenon
  <2>2. value[f] \in Str /\ Len(value[f]) = 1
    BY <1>6, Zenon DEF ValueTypes, FieldValue
  <2>3. Values!BytesOf(f) = value[f]
    BY <1>2, <2>1
  <2>4. Values!Take(Frame(After(value[f], b), g), Len(value[f])) = Frame(b, value[f])
    BY <2>2, TakeFront, Zenon
  <2>5. Values!TakeField(r, f) = Values!TakeNumber(r, "B")
    <3> HIDE DEF r
    <3>1. QED
      BY <1>3, <1>6, <2>1
  <2>6. QED
    BY <1>4, <2>2, <2>3, <2>4, <2>5, Zenon
<1>7. CASE f = "timestamp"
  <2>1. f \notin StringFields /\ f \notin TwoOctets /\ f # "headers"
    BY <1>7, KindsOfField
  <2>2. value[f] \in Str /\ Len(value[f]) = 8
    BY <1>7, Zenon DEF ValueTypes, FieldValue
  <2>3. Values!BytesOf(f) = value[f]
    BY <1>2, <2>1
  <2>4. Values!Take(Frame(After(value[f], b), g), Len(value[f])) = Frame(b, value[f])
    BY <2>2, TakeFront, Zenon
  <2>5. Values!TakeField(r, f) = Values!TakeNumber(r, "l")
    <3> HIDE DEF r
    <3>1. QED
      BY <1>3, <1>7, <2>1
  <2>6. QED
    BY <1>4, <2>2, <2>3, <2>4, <2>5, Zenon
<1>8. CASE f = "headers"
  <2>1. f \notin StringFields /\ f \notin TwoOctets /\ f # "timestamp"
    BY <1>8, KindsOfField
  <2>2. /\ Tabled(value[f])
        /\ \A k \in DOMAIN value[f] : Values!EntrySize(value[f][k]) <= Byte + 8
    BY <1>8, Zenon DEF ValueTypes, FieldValue
  <2>3. Values!TableSize(value[f]) - 4 \in Small
    BY <2>2, TableSmall, Zenon
  <2>4. Values!BytesOf(f) = Values!TableBytes(value[f])
    BY <1>2, <1>8, <2>1
  <2>5. Values!TakeTable(Frame(After(Values!TableBytes(value[f]), b), g)) = Frame(b, value[f])
    BY <2>2, <2>3, ReadTable, Zenon
  <2>6. Values!TakeField(r, f) = Values!TakeTable(r)
    <3> HIDE DEF r
    <3>1. QED
      BY <1>3, <1>8, <2>1
  <2>7. QED
    BY <2>4, <2>5, <2>6, Zenon
<1>9. QED
  BY <1>5, <1>6, <1>7, <1>8, KindsOfField, Zenon

-----------------------------------------------------------------------------
(* A message in its frame *)

\* What the i-th field adds to the frame.
Part(i) ==
    IF Values!Has(bools, Values!WireOrder[i]) THEN Values!BytesOf(Values!WireOrder[i]) ELSE <<>>

\* A field adds as many bytes as size() counts for it, and none without its flag.
LEMMA PartRoom ==
    ASSUME ValueTypes, NEW i \in 1..14
    PROVE  /\ Part(i) \in Str
           /\ Len(Part(i)) = IF Values!Has(bools, Values!WireOrder[i])
                             THEN Values!SizeOf(Values!WireOrder[i]) ELSE 0
<1>1. Values!WireOrder[i] \in Fields
  BY FieldsInOrder, Zenon
<1>2. <<>> \in Str /\ Len(<<>>) = 0
  BY DEF Str
<1>3. CASE Values!Has(bools, Values!WireOrder[i])
  <2>1. Part(i) = Values!BytesOf(Values!WireOrder[i])
    BY <1>3, Zenon DEF Part
  <2>2. /\ Values!BytesOf(Values!WireOrder[i]) \in Str
        /\ Len(Values!BytesOf(Values!WireOrder[i])) = Values!SizeOf(Values!WireOrder[i])
    BY <1>1, FieldRoom, Zenon
  <2>3. QED
    BY <1>3, <2>1, <2>2, Zenon
<1>4. CASE ~Values!Has(bools, Values!WireOrder[i])
  <2>1. Part(i) = <<>>
    BY <1>4, Zenon DEF Part
  <2>2. (IF Values!Has(bools, Values!WireOrder[i])
         THEN Values!SizeOf(Values!WireOrder[i]) ELSE 0) = 0
    BY <1>4, Zenon
  <2>3. QED
    BY <1>2, <2>1, <2>2, Zenon
<1>5. QED
  BY <1>3, <1>4, Zenon

\* The fields of a message from the i-th on, as they are written.
LEMMA FillLayout ==
    ASSUME ValueTypes
    PROVE  /\ Len(Values!Fill) = Values!Size
           /\ \E rest \in [0..14 -> Str] :
                 /\ rest[0] = Values!Fill /\ rest[14] = <<>>
                 /\ \A i \in 1..14 : rest[i - 1] = After(Part(i), rest[i])
<1> DEFINE ss == [i \in 1..14 |-> Part(i)]
           Z(i) == IF Values!Has(bools, Values!WireOrder[i])
                   THEN Values!SizeOf(Values!WireOrder[i]) ELSE 0
           zs == [i \in 1..14 |-> Z(i)]
<1>1. \A i \in 1..14 : Part(i) \in Str /\ Len(Part(i)) = Z(i)
  BY PartRoom, Zenon
<1>2. Values!Fill = Values!FlattenSeq(ss) /\ Values!Size = Values!Total(zs)
  BY FieldsInOrder, Zenon DEF Values!Fill, Values!Size, Part
<1> HIDE DEF Z
<1>3. ss \in Seq(Str) /\ Len(ss) = 14 /\ \A i \in 1..14 : ss[i] = Part(i)
  BY <1>1
<1>4. [i \in 1..Len(ss) |-> Len(ss[i])] = zs
  <2> HIDE DEF ss
  <2>1. \A i \in 1..14 : Len(ss[i]) = Z(i)
    BY <1>1, <1>3, Zenon
  <2>2. QED
    BY <1>3, <2>1, Zenon
<1> HIDE DEF ss, zs
<1>5. ss \in Seq(Seq(Nat))
  BY <1>3, Zenon DEF Str
<1>6. Len(Values!FlattenSeq(ss)) = Values!Total(zs)
  BY <1>4, <1>5, FlattenLength, Zenon
<1>7. PICK rest \in [0..14 -> Str] :
         /\ rest[0] = Values!FlattenSeq(ss) /\ rest[14] = <<>>
         /\ \A i \in 0..(14 - 1) : rest[i] = After(ss[i + 1], rest[i + 1])
  <2>1. \E r \in [0..Len(ss) -> Str] :
          /\ r[0] = Values!FlattenSeq(ss) /\ r[Len(ss)] = <<>>
          /\ \A i \in 0..(Len(ss) - 1) : r[i] = After(ss[i + 1], r[i + 1])
    BY <1>5, FlattenFromFront, Zenon DEF Str
  <2>2. QED
    BY <1>3, <2>1, Zenon
<1>8. ASSUME NEW i \in 1..14 PROVE rest[i - 1] = After(Part(i), rest[i])
  <2>1. i - 1 \in 0..(14 - 1) /\ (i - 1) + 1 = i
    OBVIOUS
  <2>2. QED
    BY <1>3, <1>7, <2>1, Zenon
<1>9. QED
  BY <1>2, <1>6, <1>7, <1>8, Zenon

\* The turns of reading the fields.
Reads(f, c) ==
    [n \in 0..14 |-> IF n = 0 THEN c ELSE Values!TakeProperty(f[n - 1], Values!WireOrder[n])]

\* The fields are read in turns, one after the other.
LEMMA ReadsExist ==
    ASSUME NEW c
    PROVE  \E f : f = Reads(f, c)
<1> DEFINE Upto(f, i) ==
              f = [n \in 0..i |-> IF n = 0 THEN c
                                  ELSE Values!TakeProperty(f[n - 1], Values!WireOrder[n])]
           X == {i \in 0..14 : \E f : Upto(f, i)}
<1>1. 0 \in X
  <2> DEFINE f == [k \in 0..0 |-> c]
  <2>1. Upto(f, 0)
    OBVIOUS
  <2> HIDE DEF f, Upto
  <2>2. QED
    BY <2>1, 0 \in 0..14
<1>2. ASSUME NEW i \in 0..(14 - 1), i \in X PROVE i + 1 \in X
  <2>1. PICK f : Upto(f, i)
    BY <1>2
  <2>2. f = [k \in 0..i |-> IF k = 0 THEN c
                            ELSE Values!TakeProperty(f[k - 1], Values!WireOrder[k])]
    BY <2>1, Zenon
  <2> DEFINE d == Values!TakeProperty(f[i], Values!WireOrder[i + 1])
             h == [k \in 0..(i + 1) |-> IF k = i + 1 THEN d ELSE f[k]]
  <2>3. ASSUME NEW k \in 0..(i + 1)
        PROVE  h[k] = IF k = 0 THEN c ELSE Values!TakeProperty(h[k - 1], Values!WireOrder[k])
    <3>1. CASE k = 0
      BY <2>2, <3>1
    <3>2. CASE k # 0 /\ k # i + 1
      <4>1. k \in 0..i /\ k - 1 \in 0..(i + 1) /\ k - 1 # i + 1
        BY <3>2
      <4>2. h[k] = f[k] /\ h[k - 1] = f[k - 1]
        BY <3>2, <4>1
      <4>3. f[k] = Values!TakeProperty(f[k - 1], Values!WireOrder[k])
        <5> HIDE DEF h
        <5>1. QED
          BY <2>2, <3>2, <4>1
      <4> HIDE DEF h
      <4>4. QED
        BY <3>2, <4>2, <4>3, Zenon
    <3>3. CASE k = i + 1
      <4>1. (i + 1) - 1 = i /\ i \in 0..(i + 1) /\ i + 1 \in 0..(i + 1) /\ i # i + 1 /\ k # 0
        BY <3>3
      <4>2. h[i + 1] = d /\ h[i] = f[i]
        BY <4>1, Zenon
      <4> HIDE DEF h
      <4>3. QED
        BY <3>3, <4>1, <4>2, Zenon
    <3>4. QED
      BY <3>1, <3>2, <3>3
  <2>4. h = [k \in 0..(i + 1) |-> h[k]]
    OBVIOUS
  <2> HIDE DEF h
  <2>5. Upto(h, i + 1)
    BY <2>3, <2>4
  <2>6. i + 1 \in 0..14
    OBVIOUS
  <2> HIDE DEF Upto
  <2>7. QED
    BY <2>5, <2>6
<1> HIDE DEF X, Upto
<1>3. 14 \in Nat
  OBVIOUS
<1>4. \A i \in 0..14 : i \in X
  BY <1>1, <1>2, <1>3, RangeInduction
<1>5. 14 \in X
  BY <1>4
<1>6. \E f : Upto(f, 14)
  BY <1>5, Zenon DEF X
<1>7. QED
  BY <1>6, Zenon DEF Upto, Reads

\* Reading a message, when its first i fields were read.
AtFieldWith(m, rest, i, g, V) ==
    /\ m = [r |-> Frame(rest[i], g), value |-> V]
    /\ V = [f \in Fields |-> V[f]]
    /\ \A j \in 1..i :
          Values!Has(bools, Values!WireOrder[j])
            => V[Values!WireOrder[j]] = value[Values!WireOrder[j]]

AtField(m, rest, i) == \E g, V : AtFieldWith(m, rest, i, g, V)

\* One more turn reads one more field, if it has its flag.
LEMMA NextField ==
    ASSUME ValueTypes, Values!Fits, NEW i \in 1..14, NEW rest \in [0..14 -> Str],
           rest[i - 1] = After(Part(i), rest[i]), NEW m, AtField(m, rest, i - 1)
    PROVE  AtField(Values!TakeProperty(m, Values!WireOrder[i]), rest, i)
<1> DEFINE f == Values!WireOrder[i]
<1>1. f \in Fields
  BY FieldsInOrder, Zenon
<1>2. rest[i] \in Str
  <2>1. i \in 0..14
    OBVIOUS
  <2>2. QED
    BY <2>1, Zenon
<1>3. PICK g, V :
         /\ m = [r |-> Frame(rest[i - 1], g), value |-> V]
         /\ V = [x \in Fields |-> V[x]]
         /\ \A j \in 1..(i - 1) :
               Values!Has(bools, Values!WireOrder[j])
                 => V[Values!WireOrder[j]] = value[Values!WireOrder[j]]
  BY Zenon DEF AtField, AtFieldWith
<1>4. ASSUME NEW j \in 1..i PROVE j \in 1..(i - 1) \/ Values!WireOrder[j] = f
  <2>1. j \in 1..(i - 1) \/ j = i
    OBVIOUS
  <2>2. QED
    BY <2>1, Zenon
<1> HIDE DEF f
<1>5. CASE ~Values!Has(bools, f)
  <2>1. Values!TakeProperty(m, f) = m
    BY <1>5, Zenon DEF Values!TakeProperty
  <2>2. rest[i - 1] = rest[i]
    <3>1. Part(i) = <<>>
      BY <1>5, Zenon DEF Part, f
    <3>2. rest[i] \in Seq(Nat)
      BY <1>2, Zenon DEF Str
    <3>3. <<>> \o rest[i] = rest[i]
      BY <3>2, ConcatEmptySeq, Zenon
    <3>4. QED
      BY <3>1, <3>3, Zenon DEF After
  <2>3. \A j \in 1..i :
           Values!Has(bools, Values!WireOrder[j])
             => V[Values!WireOrder[j]] = value[Values!WireOrder[j]]
    BY <1>3, <1>4, <1>5, Zenon
  <2>4. AtFieldWith(m, rest, i, g, V)
    BY <1>3, <2>2, <2>3, Zenon DEF AtFieldWith
  <2>5. QED
    BY <2>1, <2>4, Zenon DEF f, AtField
<1>6. CASE Values!Has(bools, f)
  <2> DEFINE r == Frame(rest[i], value[f])
             W == [V EXCEPT ![f] = value[f]]
  <2>1. Values!TakeField(Frame(rest[i - 1], g), f) = r
    <3>1. rest[i - 1] = After(Values!BytesOf(f), rest[i])
      BY <1>6, Zenon DEF Part, f
    <3> DEFINE b == rest[i]
    <3>2. b \in Str /\ rest[i - 1] = After(Values!BytesOf(f), b)
      BY <1>2, <3>1, Zenon
    <3>3. r = Frame(b, value[f])
      OBVIOUS
    <3> HIDE DEF b, r
    <3>4. Values!TakeField(Frame(After(Values!BytesOf(f), b), g), f) = Frame(b, value[f])
      BY <1>1, <3>2, TakeFieldFront, Zenon
    <3>5. QED
      BY <3>2, <3>3, <3>4, Zenon
  <2>2. m.r = Frame(rest[i - 1], g) /\ m.value = V
    BY <1>3
  <2>3. r.got = value[f]
    BY DEF Frame
  <2>4. Values!TakeProperty(m, f) = [r |-> r, value |-> W]
    <3> HIDE DEF r
    <3>1. Values!TakeProperty(m, f) =
            [r |-> Values!TakeField(m.r, f),
             value |-> [m.value EXCEPT ![f] = Values!TakeField(m.r, f).got]]
      BY <1>6, Zenon DEF Values!TakeProperty
    <3>2. QED
      BY <2>1, <2>2, <2>3, <3>1, Zenon
  <2>5. W = [x \in Fields |-> W[x]] /\ W[f] = value[f] /\ \A x \in Fields : x # f => W[x] = V[x]
    <3> HIDE DEF r
    <3>1. QED
      BY <1>1, <1>3, Zenon
  <2> HIDE DEF W
  <2>6. ASSUME NEW j \in 1..i, Values!Has(bools, Values!WireOrder[j])
        PROVE  W[Values!WireOrder[j]] = value[Values!WireOrder[j]]
    <3>1. Values!WireOrder[j] \in Fields
      <4>1. j \in 1..14
        OBVIOUS
      <4>2. QED
        BY <4>1, FieldsInOrder, Zenon
    <3>2. CASE Values!WireOrder[j] = f
      BY <2>5, <3>2, Zenon
    <3>3. CASE Values!WireOrder[j] # f
      BY <1>3, <1>4, <2>5, <2>6, <3>1, <3>3, Zenon
    <3>4. QED
      BY <3>2, <3>3, Zenon
  <2>7. AtFieldWith([r |-> r, value |-> W], rest, i, value[f], W)
    BY <2>5, <2>6, Zenon DEF AtFieldWith
  <2> HIDE DEF r
  <2>8. QED
    BY <2>4, <2>7, Zenon DEF f, AtField
<1>7. QED
  BY <1>5, <1>6, Zenon

\* A receiver reads what the sender has set.
LEMMA ReadBack ==
    ASSUME ValueTypes, Values!Fits
    PROVE  \E g, V :
              /\ Values!Read(Values!Fill) = [r |-> Frame(<<>>, g), value |-> V]
              /\ \A f \in Fields : Values!Has(bools, f) => V[f] = value[f]
<1>1. PICK rest \in [0..14 -> Str] :
         /\ rest[0] = Values!Fill /\ rest[14] = <<>>
         /\ \A i \in 1..14 : rest[i - 1] = After(Part(i), rest[i])
  BY FillLayout, Zenon
<1> DEFINE c == [r |-> Frame(rest[0], <<>>), value |-> [f \in Fields |-> <<>>]]
           F == CHOOSE f : f = Reads(f, c)
<1>2. F = Reads(F, c)
  <2>1. \E f : f = Reads(f, c)
    <3> HIDE DEF c
    <3>1. QED
      BY ReadsExist, Zenon
  <2> HIDE DEF c
  <2>2. QED
    BY <2>1, Zenon
<1>3. Values!Read(Values!Fill) = F[14]
  <2> DEFINE G == CHOOSE f : f = [n \in 0..Len(Values!ReadOrder) |->
                     IF n = 0 THEN [r |-> [rest |-> Values!Fill, ok |-> TRUE, got |-> <<>>],
                                    value |-> [f_1 \in Values!ToSet(Values!ReadOrder) |-> <<>>]]
                     ELSE Values!TakeProperty(f[n - 1], Values!ReadOrder[n])]
  <2>1. Values!Read(Values!Fill) = G[Len(Values!ReadOrder)]
    BY Zenon DEF Values!Read
  <2>2. /\ Values!ReadOrder = Values!WireOrder /\ Len(Values!ReadOrder) = 14
        /\ Values!ToSet(Values!ReadOrder) = Fields
    BY FieldsInOrder, Zenon
  <2>3. G = F
    BY <1>1, <2>2, Zenon DEF Reads, Frame
  <2> HIDE DEF G, F
  <2>4. QED
    BY <2>1, <2>2, <2>3, Zenon
<1> HIDE DEF F
<1>4. F[0] = c /\ \A n \in 1..14 : F[n] = Values!TakeProperty(F[n - 1], Values!WireOrder[n])
  <2> HIDE DEF c
  <2>1. F = [n \in 0..14 |-> IF n = 0 THEN c
                             ELSE Values!TakeProperty(F[n - 1], Values!WireOrder[n])]
    BY <1>2, Zenon DEF Reads
  <2>2. QED
    BY <2>1
<1> DEFINE X == {i \in 0..14 : AtField(F[i], rest, i)}
<1>5. 0 \in X
  <2> DEFINE V == [f \in Fields |-> <<>>]
  <2>1. V = [f \in Fields |-> V[f]]
    BY Zenon
  <2>2. F[0] = [r |-> Frame(rest[0], <<>>), value |-> V]
    BY <1>4, Zenon
  <2> HIDE DEF V, c
  <2>3. \A j \in 1..0 : FALSE
    OBVIOUS
  <2>4. AtFieldWith(F[0], rest, 0, <<>>, V)
    BY <2>1, <2>2, <2>3, Zenon DEF AtFieldWith
  <2>5. 0 \in 0..14
    OBVIOUS
  <2>6. QED
    BY <2>4, <2>5, Zenon DEF AtField
<1>6. ASSUME NEW i \in 0..(14 - 1), i \in X PROVE i + 1 \in X
  <2>1. i + 1 \in 1..14 /\ (i + 1) - 1 = i /\ i + 1 \in 0..14
    OBVIOUS
  <2>2. AtField(F[(i + 1) - 1], rest, (i + 1) - 1)
    BY <1>6, <2>1, Zenon
  <2>3. rest[(i + 1) - 1] = After(Part(i + 1), rest[i + 1])
    BY <1>1, <2>1, Zenon
  <2> DEFINE k == i + 1
  <2>4. AtField(Values!TakeProperty(F[k - 1], Values!WireOrder[k]), rest, k)
    <3>1. k \in 1..14 /\ AtField(F[k - 1], rest, k - 1) /\ rest[k - 1] = After(Part(k), rest[k])
      BY <2>1, <2>2, <2>3, Zenon
    <3> HIDE DEF k, X, c
    <3>2. QED
      BY <3>1, NextField, Zenon
  <2>5. AtField(F[i + 1], rest, i + 1)
    BY <1>4, <2>1, <2>4, Zenon
  <2>6. QED
    BY <2>1, <2>5, Zenon
<1> HIDE DEF X, c
<1>7. \A i \in 0..14 : i \in X
  BY <1>5, <1>6, 14 \in Nat, RangeInduction
<1>8. AtField(F[14], rest, 14)
  <2>1. 14 \in 0..14
    OBVIOUS
  <2>2. QED
    BY <1>7, <2>1, Zenon DEF X
<1>9. PICK g, V : AtFieldWith(F[14], rest, 14, g, V)
  BY <1>8, Zenon DEF AtField
<1>10. /\ F[14] = [r |-> Frame(<<>>, g), value |-> V]
       /\ \A j \in 1..14 :
             Values!Has(bools, Values!WireOrder[j])
               => V[Values!WireOrder[j]] = value[Values!WireOrder[j]]
  BY <1>1, <1>9, Zenon DEF AtFieldWith
<1>11. \A f \in Fields : Values!Has(bools, f) => V[f] = value[f]
  <2> HIDE DEF F
  <2>1. SUFFICES ASSUME NEW f \in Fields, Values!Has(bools, f) PROVE V[f] = value[f]
    BY Zenon
  <2>2. PICK j \in 1..14 : Values!WireOrder[j] = f
    BY FieldsInOrder, Zenon
  <2>3. QED
    BY <1>10, <2>1, <2>2, Zenon
<1>12. Values!Read(Values!Fill) = [r |-> Frame(<<>>, g), value |-> V]
  BY <1>3, <1>10, Zenon
<1>13. QED
  <2> WITNESS g, V
  <2>1. QED
    BY <1>11, <1>12, Zenon

\* A message survives the way through a frame.
LEMMA Survives ==
    ASSUME ValueTypes
    PROVE  Values!SurvivesFrame
<1>1. Values!RoomInBuffer
  BY FillLayout, Zenon DEF Values!RoomInBuffer
<1>2. ASSUME Values!Fits
      PROVE  LET m == Values!Read(Values!Fill) IN
             /\ m.r.ok /\ m.r.rest = <<>>
             /\ \A f \in Fields : Values!Has(bools, f) => m.value[f] = value[f]
  <2>1. PICK g, V :
              /\ Values!Read(Values!Fill) = [r |-> Frame(<<>>, g), value |-> V]
              /\ \A f \in Fields : Values!Has(bools, f) => V[f] = value[f]
    BY <1>2, ReadBack, Zenon
  <2> DEFINE m == Values!Read(Values!Fill)
  <2> HIDE DEF m
  <2>2. m = [r |-> Frame(<<>>, g), value |-> V]
    BY <2>1, Zenon DEF m
  <2>3. m.r = Frame(<<>>, g) /\ m.value = V
    BY <2>2
  <2>4. Frame(<<>>, g).ok /\ Frame(<<>>, g).rest = <<>>
    BY DEF Frame
  <2>5. m.r.ok /\ m.r.rest = <<>>
    BY <2>3, <2>4, Zenon
  <2>6. \A f \in Fields : Values!Has(bools, f) => m.value[f] = value[f]
    BY <2>1, <2>3, Zenon
  <2>7. QED
    BY <2>5, <2>6, Zenon DEF m
<1>3. Values!ToSet(Values!WireOrder) = Fields
  BY FieldsInOrder, Zenon
<1>4. Values!ReadsWhatWasSet
  BY <1>2, <1>3, OwnFlags, Zenon DEF Values!ReadsWhatWasSet
<1>5. QED
  BY <1>1, <1>4, Zenon DEF Values!SurvivesFrame

-----------------------------------------------------------------------------
(* The setters *)

\* A setter that gives a field a value it may have keeps the types.
LEMMA FieldValueSet ==
    ASSUME ValueTypes, NEW f \in Fields, NEW v, FieldValue(f, v), Values!Set(f, v)
    PROVE  ValueTypes'
<1>1. value' = [value EXCEPT ![f] = v] /\ bools' = Values!Raise(bools, f)
  BY Zenon DEF Values!Set
<1>2. value = [x \in Fields |-> value[x]] /\ \A x \in Fields : FieldValue(x, value[x])
  BY Zenon DEF ValueTypes
<1>3. value' = [x \in Fields |-> value'[x]]
  BY <1>1, <1>2
<1>4. value'[f] = v /\ \A x \in Fields : x # f => value'[x] = value[x]
  BY <1>1, <1>2
<1>5. \A x \in Fields : FieldValue(x, value'[x])
  BY <1>2, <1>4, Zenon
<1>6. bools' \in [1..2 -> SUBSET (0..7)]
  <2>1. bools \in [1..2 -> SUBSET (0..7)]
    BY Zenon DEF ValueTypes
  <2>2. Values!Bit[f][1] \in 1..2 /\ Values!Bit[f][2] \in 0..7
    BY OwnFlags, Zenon
  <2> DEFINE b == Values!Bit[f][1]
             j == Values!Bit[f][2]
  <2>3. bools' = [bools EXCEPT ![b] = bools[b] \cup {j}]
    BY <1>1, Zenon DEF Values!Raise
  <2>4. b \in 1..2 /\ j \in 0..7
    BY <2>2, Zenon
  <2> HIDE DEF b, j
  <2>5. QED
    BY <2>1, <2>3, <2>4
<1>7. ValueTypes'
  <2>1. \A x \in Fields : FieldValue(x, value'[x]) <=> FieldValue(x, value[x])'
    BY Zenon DEF FieldValue
  <2>2. QED
    BY <1>3, <1>5, <1>6, Zenon DEF ValueTypes, FieldValue
<1>8. QED
  BY <1>7, Zenon

\* An empty table is one.
LEMMA NoTable == Tabled(<<>>) /\ DOMAIN <<>> = {}
<1>1. DOMAIN <<>> = {} /\ [k \in {} |-> <<>>[k]] = <<>>
  OBVIOUS
<1>2. QED
  BY <1>1 DEF Tabled

\* A new message has values that its fields may have.
LEMMA FirstValues ==
    ASSUME Values!Init
    PROVE  ValueTypes
<1>1. /\ bools = [b \in 1..2 |-> {}]
      /\ value = [f \in Fields |-> CASE f \in TwoOctets -> <<0>>
                                     [] f = "timestamp" -> Values!Bytes(0, 8)
                                     [] OTHER -> <<>>]
  BY FieldsInOrder, Zenon DEF Values!Init, TwoOctets
<1>2. bools \in [1..2 -> SUBSET (0..7)]
  BY <1>1
<1>3. value = [f \in Fields |-> value[f]]
  BY <1>1
<1>4. ASSUME NEW f \in Fields PROVE FieldValue(f, value[f])
  <2> DEFINE t == Values!Bytes(0, 8)
  <2>1. t \in Str /\ Len(t) = 8
    BY BytesLength, 0 \in Nat, 8 \in Nat, Zenon
  <2> HIDE DEF t
  <2>2. value[f] = CASE f \in TwoOctets -> <<0>> [] f = "timestamp" -> t [] OTHER -> <<>>
    BY <1>1, Zenon DEF t
  <2>3. <<>> \in Str
    BY DEF Str
  <2>4. <<0>> \in Str /\ Len(<<0>>) = 1
    BY OneByteStr, 0 \in Nat, Zenon
  <2>5. f \in TwoOctets => value[f] = <<0>>
    BY <2>2 DEF TwoOctets
  <2>6. f = "timestamp" => value[f] = t
    BY <2>2 DEF TwoOctets
  <2>7. f \in StringFields \/ f = "headers" => value[f] = <<>>
    BY <2>2 DEF TwoOctets, StringFields
  <2>8. f = "headers" => Tabled(value[f]) /\ DOMAIN value[f] = {}
    BY <2>7, NoTable, Zenon
  <2>9. QED
    BY <2>1, <2>3, <2>4, <2>5, <2>6, <2>7, <2>8, Zenon DEF FieldValue
<1>5. QED
  BY <1>2, <1>3, <1>4, Zenon DEF ValueTypes

\* The classes of the fields that FieldProxy makes.
LEMMA Classes ==
    /\ \A type \in DOMAIN Values!ClassOf : Values!ClassOf[type] \in Types
    /\ \A class \in Types : class # "S" => Values!Width[class] \in 1..8
    /\ Values!Width["D"] = 5
<1>1. \A type \in DOMAIN Values!ClassOf : Values!ClassOf[type] \in Types
  BY DEF Values!ClassOf, Types
<1>2. \A class \in Types : class # "S" => Values!Width[class] \in 1..8
  BY DEF Values!Width, Types
<1>3. Values!Width["D"] = 5
  BY DEF Values!Width
<1>4. QED
  BY <1>1, <1>2, <1>3, Zenon

\* A table with one more field.
LEMMA TableSet ==
    ASSUME NEW T, FieldValue("headers", T), NEW k \in Names, NEW v, Proper(v),
           Values!EntrySize(v) <= Byte + 8
    PROVE  FieldValue("headers", Values!Put(T, k, v))
<1> DEFINE P == Values!Put(T, k, v)
<1>1. "headers" \notin StringFields /\ "headers" \notin TwoOctets /\ "headers" # "timestamp"
  BY DEF StringFields, TwoOctets
<1>2. Tabled(T) /\ \A j \in DOMAIN T : Values!EntrySize(T[j]) <= Byte + 8
  BY Zenon DEF FieldValue
<1>3. /\ DOMAIN P = DOMAIN T \cup {k} /\ P = [j \in DOMAIN P |-> P[j]]
      /\ \A j \in DOMAIN P : P[j] = IF j = k THEN v ELSE T[j]
  <2>1. P = [j \in DOMAIN T \cup {k} |-> IF j = k THEN v ELSE T[j]]
    BY Zenon DEF Values!Put
  <2> HIDE DEF P
  <2>2. QED
    BY <2>1
<1> HIDE DEF P
<1>4. \A j \in DOMAIN P : Proper(P[j]) /\ Values!EntrySize(P[j]) <= Byte + 8
  <2>1. SUFFICES ASSUME NEW j \in DOMAIN P PROVE Proper(P[j]) /\ Values!EntrySize(P[j]) <= Byte + 8
    BY Zenon
  <2>2. CASE j = k
    BY <1>3, <2>2, Zenon
  <2>3. CASE j # k
    <3>1. j \in DOMAIN T /\ P[j] = T[j]
      BY <1>3, <2>3, Zenon
    <3>2. QED
      BY <1>2, <3>1, Zenon DEF Tabled
  <2>4. QED
    BY <2>2, <2>3, Zenon
<1>5. Tabled(P)
  <2>1. DOMAIN P \subseteq Names
    BY <1>2, <1>3, Zenon DEF Tabled
  <2>2. QED
    BY <1>3, <1>4, <2>1, Zenon DEF Tabled
<1>6. QED
  BY <1>1, <1>4, <1>5, Zenon DEF FieldValue, P

\* What FieldProxy makes can be told from its bytes.
LEMMA HeaderValue ==
    ASSUME NEW class \in Types
    PROVE  LET v == [type |-> class,
                     bytes |-> CASE class = "S" -> Values!Bytes(1, Byte + 1)
                                 [] class = "D" -> Values!Decimal(2, Byte + 1)
                                 [] OTHER -> Values!Bytes(1, Values!Width[class])]
           IN Proper(v) /\ Values!EntrySize(v) <= Byte + 8
<1> DEFINE s == Values!Bytes(1, Byte + 1)
           d == Values!Decimal(2, Byte + 1)
           o == Values!Bytes(1, Values!Width[class])
           bytes == CASE class = "S" -> s [] class = "D" -> d [] OTHER -> o
           v == [type |-> class, bytes |-> bytes]
<1>1. Byte + 1 \in Nat /\ Byte + 1 \in Small
  <2>1. Byte + 1 \in Nat /\ Byte + 1 <= Byte * (Byte + 8)
    <3>1. Byte * (Byte + 8) = Byte * Byte + Byte * 8 /\ Byte * Byte >= Byte
      BY ByteBound
    <3>2. Byte * Byte \in Nat
      BY ByteBound
    <3>3. QED
      BY <3>1, <3>2, ByteBound
  <2>2. QED
    BY <2>1, SmallLength, Zenon
<1>2. s \in Str /\ Len(s) = Byte + 1
  BY <1>1, BytesLength, 1 \in Nat, Zenon
<1>3. d \in Str /\ Len(d) = 5
  <2>1. Values!Bytes(2, 1) \in Str /\ Len(Values!Bytes(2, 1)) = 1
    BY BytesLength, 2 \in Nat, 1 \in Nat, Zenon
  <2>2. Values!Bytes(Byte + 1, 4) \in Str /\ Len(Values!Bytes(Byte + 1, 4)) = 4
    <3> DEFINE n == Byte + 1
    <3>1. n \in Nat
      BY <1>1, Zenon
    <3> HIDE DEF n
    <3>2. Values!Bytes(n, 4) \in Str /\ Len(Values!Bytes(n, 4)) = 4
      BY <3>1, BytesLength, 4 \in Nat, Zenon
    <3>3. QED
      BY <3>2, Zenon DEF n
  <2>3. d = After(Values!Bytes(2, 1), Values!Bytes(Byte + 1, 4))
    BY Zenon DEF Values!Decimal, After
  <2>4. QED
    BY <2>1, <2>2, <2>3, AfterStr, 1 + 4 = 5, Zenon
<1>4. class # "S" => o \in Str /\ Len(o) = Values!Width[class] /\ Values!Width[class] \in 1..8
  <2>1. SUFFICES ASSUME class # "S"
                 PROVE  o \in Str /\ Len(o) = Values!Width[class] /\ Values!Width[class] \in 1..8
    BY Zenon
  <2>2. Values!Width[class] \in 1..8
    BY <2>1, Classes, Zenon
  <2>3. Values!Width[class] \in Nat
    BY <2>2
  <2>4. QED
    BY <2>2, <2>3, BytesLength, 1 \in Nat, Zenon
<1> HIDE DEF s, d, o
<1>5. /\ bytes \in Str
      /\ class = "S" => Len(bytes) = Byte + 1
      /\ class # "S" => Len(bytes) = Values!Width[class]
  <2>1. CASE class = "S"
    <3>1. bytes = s
      BY <2>1
    <3>2. QED
      BY <1>2, <2>1, <3>1, Zenon
  <2>2. CASE class = "D"
    <3>1. bytes = d /\ class # "S"
      BY <2>2
    <3>2. QED
      BY <1>3, <2>2, <3>1, Classes, Zenon
  <2>3. CASE class # "S" /\ class # "D"
    <3>1. bytes = o
      BY <2>3
    <3>2. QED
      BY <1>4, <2>3, <3>1, Zenon
  <2>4. QED
    BY <2>1, <2>2, <2>3, Zenon
<1> HIDE DEF bytes
<1>6. v.type = class /\ v.bytes = bytes /\ v \in [type : Types, bytes : Str]
  BY <1>5
<1> HIDE DEF v
<1>7. Proper(v)
  BY <1>1, <1>5, <1>6, Zenon DEF Proper
<1>8. Values!EntrySize(v) <= Byte + 8
  <2>1. Values!EntrySize(v) = 2 + 1 + Values!FieldSize(v)
    BY Zenon DEF Values!EntrySize
  <2>2. CASE class = "S"
    <3>1. Values!FieldSize(v) = 4 + (Byte + 1)
      BY <1>5, <1>6, <2>2, Zenon DEF Values!FieldSize
    <3>2. QED
      BY <2>1, <3>1, ByteBound
  <2>3. CASE class # "S"
    <3>1. Values!FieldSize(v) = Values!Width[class]
      BY <1>6, <2>3, Zenon DEF Values!FieldSize
    <3>2. QED
      BY <1>4, <2>1, <2>3, <3>1, ByteBound
  <2>4. QED
    BY <2>2, <2>3, Zenon
<1>9. QED
  BY <1>7, <1>8, Zenon DEF v, bytes, s, d, o

\* Values that nobody sets keep their types.
LEMMA ValuesStay ==
    ASSUME ValueTypes, bools' = bools, value' = value
    PROVE  ValueTypes'
BY Zenon DEF ValueTypes, FieldValue

\* The setters of strings keep the types, however long the string.
LEMMA StringSet ==
    ASSUME ValueTypes, Values!SetString
    PROVE  ValueTypes'
<1>1. PICK f \in Values!Strings, n \in {0, 1, Byte + 1} : Values!Set(f, [i \in 1..n |-> 1])
  BY Zenon DEF Values!SetString
<1> DEFINE s == [i \in 1..n |-> 1]
<1>2. f \in StringFields /\ f \in Fields
  BY FieldsInOrder, Zenon DEF Fields
<1>3. s \in Str
  <2>1. n \in Nat
    BY ByteBound
  <2>2. QED
    BY <2>1 DEF Str
<1> HIDE DEF s
<1>4. FieldValue(f, s)
  BY <1>2, <1>3, KindsOfField, Zenon DEF FieldValue
<1>5. Values!Set(f, s)
  BY <1>1, Zenon DEF s
<1>6. QED
  BY <1>2, <1>4, <1>5, FieldValueSet, Zenon

\* The setters of octets keep the types.
LEMMA OctetSet ==
    ASSUME ValueTypes, NEW f \in TwoOctets, NEW n \in Nat, Values!Set(f, <<n>>)
    PROVE  ValueTypes'
<1>1. f \in Fields /\ f # "headers" /\ f # "timestamp" /\ f \notin StringFields
  BY DEF Fields, TwoOctets, StringFields
<1>2. <<n>> \in Str /\ Len(<<n>>) = 1
  BY OneByteStr, Zenon
<1>3. FieldValue(f, <<n>>)
  BY <1>1, <1>2, Zenon DEF FieldValue
<1>4. QED
  BY <1>1, <1>3, FieldValueSet, Zenon

\* The setters of numbers keep the types.
LEMMA NumberSet ==
    ASSUME ValueTypes, Values!SetNumber
    PROVE  ValueTypes'
<1>1. CASE \E f \in Values!Octets, n \in 0..(Byte - 1) : Values!Set(f, <<n>>)
  <2>1. PICK f \in Values!Octets, n \in 0..(Byte - 1) : Values!Set(f, <<n>>)
    BY <1>1, Zenon
  <2>2. f \in TwoOctets
    BY FieldsInOrder, Zenon DEF TwoOctets
  <2>3. n \in Nat
    BY ByteBound
  <2>4. QED
    BY <2>1, <2>2, <2>3, OctetSet, Zenon
<1>2. CASE Values!Set("timestamp", Values!Bytes(Byte + 1, 8))
  <2> DEFINE n == Byte + 1
             t == Values!Bytes(n, 8)
  <2>1. n \in Nat
    BY ByteBound
  <2> HIDE DEF n
  <2>2. t \in Str /\ Len(t) = 8
    BY <2>1, BytesLength, 8 \in Nat, Zenon
  <2>3. /\ "timestamp" \in Fields /\ "timestamp" # "headers"
        /\ "timestamp" \notin StringFields /\ "timestamp" \notin TwoOctets
    BY DEF Fields, TwoOctets, StringFields
  <2> HIDE DEF t
  <2>4. FieldValue("timestamp", t)
    BY <2>2, <2>3, Zenon DEF FieldValue
  <2>5. Values!Set("timestamp", t)
    BY <1>2, Zenon DEF t, n
  <2>6. QED
    BY <2>3, <2>4, <2>5, FieldValueSet, Zenon
<1>3. QED
  BY <1>1, <1>2, Zenon DEF Values!SetNumber

\* A field in the headers keeps the types.
LEMMA HeaderSet ==
    ASSUME ValueTypes, Values!SetHeader
    PROVE  ValueTypes'
<1> DEFINE Val(class) == [type |-> class,
                          bytes |-> CASE class = "S" -> Values!Bytes(1, Byte + 1)
                                      [] class = "D" -> Values!Decimal(2, Byte + 1)
                                      [] OTHER -> Values!Bytes(1, Values!Width[class])]
<1>1. PICK k \in Names, type \in DOMAIN Values!ClassOf :
         Values!Set("headers", Values!Put(value["headers"], k, Val(Values!ClassOf[type])))
  BY Zenon DEF Values!SetHeader
<1> DEFINE class == Values!ClassOf[type]
           v == Val(class)
           T == Values!Put(value["headers"], k, v)
<1>2. class \in Types
  BY Classes, Zenon
<1>3. Proper(v) /\ Values!EntrySize(v) <= Byte + 8
  <2> HIDE DEF class
  <2>1. QED
    BY <1>2, HeaderValue, Zenon
<1>4. Values!Set("headers", T)
  BY <1>1, Zenon
<1> HIDE DEF v
<1>5. "headers" \in Fields
  BY DEF Fields
<1>6. FieldValue("headers", value["headers"])
  BY <1>5, Zenon DEF ValueTypes
<1>7. FieldValue("headers", T)
  BY <1>3, <1>6, TableSet, Zenon
<1> HIDE DEF T
<1>8. QED
  BY <1>4, <1>5, <1>7, FieldValueSet, Zenon

\* setPersistent() keeps the types, on and off.
LEMMA PersistentSet ==
    ASSUME ValueTypes, Values!SetPersistent(TRUE) \/ Values!SetPersistent(FALSE)
    PROVE  ValueTypes'
<1>1. CASE Values!SetPersistent(TRUE)
  <2>1. Values!Set("deliveryMode", <<2>>)
    BY <1>1, Zenon DEF Values!SetPersistent
  <2>2. "deliveryMode" \in TwoOctets
    BY DEF TwoOctets
  <2>3. QED
    BY <2>1, <2>2, OctetSet, 2 \in Nat, Zenon
<1>2. CASE Values!SetPersistent(FALSE)
  <2>1. /\ value' = [value EXCEPT !["deliveryMode"] = <<0>>]
        /\ bools' = [bools EXCEPT ![1] = bools[1] \ {4}]
    BY <1>2, Zenon DEF Values!SetPersistent
  <2>2. value = [x \in Fields |-> value[x]] /\ \A x \in Fields : FieldValue(x, value[x])
    BY Zenon DEF ValueTypes
  <2>3. bools' \in [1..2 -> SUBSET (0..7)]
    <3>1. bools \in [1..2 -> SUBSET (0..7)]
      BY Zenon DEF ValueTypes
    <3>2. QED
      BY <2>1, <3>1
  <2>4. value' = [x \in Fields |-> value'[x]]
    BY <2>1, <2>2
  <2>5. /\ "deliveryMode" \in Fields /\ value'["deliveryMode"] = <<0>>
        /\ \A x \in Fields : x # "deliveryMode" => value'[x] = value[x]
    <3>1. "deliveryMode" \in Fields
      BY DEF Fields
    <3>2. QED
      BY <2>1, <2>2, <3>1
  <2>6. FieldValue("deliveryMode", <<0>>)
    <3>1. <<0>> \in Str /\ Len(<<0>>) = 1
      BY OneByteStr, 0 \in Nat, Zenon
    <3>2. /\ "deliveryMode" \notin StringFields /\ "deliveryMode" # "timestamp"
          /\ "deliveryMode" # "headers"
      BY DEF StringFields
    <3>3. QED
      BY <3>1, <3>2, Zenon DEF FieldValue
  <2>7. \A x \in Fields : FieldValue(x, value'[x])
    BY <2>2, <2>5, <2>6, Zenon
  <2>8. QED
    BY <2>3, <2>4, <2>7, Zenon DEF ValueTypes, FieldValue
<1>3. QED
  BY <1>1, <1>2, Zenon

\* Every step keeps the types.
LEMMA ValueTypesStep ==
    ASSUME ValueTypes, Next
    PROVE  ValueTypes'
<1>1. \/ UNCHANGED valueVars
      \/ Values!SetString \/ Values!SetNumber \/ Values!SetHeader
      \/ Values!SetPersistent(TRUE) \/ Values!SetPersistent(FALSE)
  BY Zenon DEF Next, ChannelStep, DeferredStep, DeliveryStep, ValueStep
<1>2. CASE UNCHANGED valueVars
  <2>1. bools' = bools /\ value' = value
    BY <1>2 DEF valueVars
  <2>2. QED
    BY <2>1, ValuesStay
<1>3. QED
  BY <1>1, <1>2, StringSet, NumberSet, HeaderSet, PersistentSet, Zenon

-----------------------------------------------------------------------------
(* Theorems *)

\* metadata.h, table.h, fieldproxy.h: whatever is set, in whatever order, each
\* property keeps a value that can be told from its bytes, and the headers stay
\* small enough for the four bytes of their size.
THEOREM PropertiesHaveValues == Spec => []ValueTypes
<1>1. Init => ValueTypes
  BY FirstValues, Zenon DEF Init
<1>2. ValueTypes /\ [Next]_vars => ValueTypes'
  <2>1. SUFFICES ASSUME ValueTypes, [Next]_vars PROVE ValueTypes'
    BY Zenon
  <2>2. CASE Next
    BY <2>1, <2>2, ValueTypesStep, Zenon
  <2>3. CASE UNCHANGED vars
    <3>1. bools' = bools /\ value' = value
      BY <2>3 DEF vars, valueVars
    <3>2. QED
      BY <3>1, <2>1, ValuesStay
  <2>4. QED
    BY <2>1, <2>2, <2>3, Zenon
<1>3. QED
  BY <1>1, <1>2, PTL DEF Spec

\* metadata.h, address.h: what is written is read again, for a byte of any size,
\* any names in the headers and any number of sets: fill() writes as many bytes as
\* size() says, even with strings that do not fit, and where all fit the receiver
\* reads each property that was set, in its place.
THEOREM WrittenIsReadBack == Spec => []RoundTrip
<1>1. ValueTypes => RoundTrip
  BY Survives, AddressesReadBack, Zenon DEF RoundTrip
<1>2. QED
  BY <1>1, PropertiesHaveValues, PTL
=============================================================================
