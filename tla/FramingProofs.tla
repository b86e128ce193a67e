--------------------------- MODULE FramingProofs ----------------------------
(***************************************************************************)
(* ReadFrame returns what WriteFrame was given, for every base, header     *)
(* size, limit and payload length that fits in the header.                 *)
(*                                                                         *)
(* The argument is about absolute positions in the stream.  The bytes      *)
(* between the start of what ReadFull is reading and the last byte under   *)
(* way are a window on it; where a written frame and the window overlap,   *)
(* the window holds the frame's bytes.  Recursive functions are reasoned   *)
(* about through one lemma on primitive recursion, proved by induction     *)
(* over a set of numbers.                                                  *)
(***************************************************************************)
EXTENDS Framing, WellFoundedInduction, TLAPS

-----------------------------------------------------------------------------
(* Recursion *)

\* Induction over a set of numbers: the least number outside it would have a
\* predecessor inside.
LEMMA SetInduction ==
    ASSUME NEW S \in SUBSET Nat, 0 \in S, \A n \in S : n + 1 \in S
    PROVE  S = Nat
<1> SUFFICES ASSUME Nat \ S # {} PROVE FALSE
  OBVIOUS
<1>1. PICK x \in Nat \ S : \A y \in Nat \ S : ~(<<y, x>> \in OpToRel(<, Nat))
  BY NatLessThanWellFounded, WFMin
<1>2. \A y \in Nat \ S : ~(y < x)
  BY <1>1 DEF OpToRel
<1>3. x - 1 \in Nat \ S /\ x - 1 < x
  BY SMT
<1> QED
  BY <1>2, <1>3

\* The same up to a bound.
LEMMA BoundedInduction ==
    ASSUME NEW n \in Nat, NEW S, 0 \in S, \A i \in 0 .. n - 1 : i \in S => i + 1 \in S
    PROVE  \A i \in 0 .. n : i \in S
<1> DEFINE T == {i \in Nat : i <= n => i \in S}
<1>1. 0 \in T /\ \A i \in T : i + 1 \in T
  OBVIOUS
<1> HIDE DEF T
<1>2. T = Nat
  <2>1. T \in SUBSET Nat
    BY DEF T
  <2> QED
    BY <1>1, <2>1, SetInduction
<1> QED
  BY <1>2 DEF T

\* f starts with a and goes on, up to n, as the table g says.
Follows(f, n, a, g) == f = [i \in 0 .. n |-> IF i = 0 THEN a ELSE g[<<i, f[i - 1]>>]]

\* There is such a function.
LEMMA RecursionExists ==
    ASSUME NEW V, NEW a \in V, NEW n \in Nat, NEW g \in [(1 .. n) \X V -> V]
    PROVE  \E f \in [0 .. n -> V] : Follows(f, n, a, g)
<1> DEFINE S == {m \in 0 .. n : \E f \in [0 .. m -> V] : Follows(f, m, a, g)}
<1>1. 0 \in S
  <2>1. Follows([i \in 0 .. 0 |-> a], 0, a, g)
    BY DEF Follows
  <2> QED
    BY <2>1
<1>2. ASSUME NEW m \in 0 .. n - 1, m \in S PROVE m + 1 \in S
  <2>1. PICK f \in [0 .. m -> V] : Follows(f, m, a, g)
    BY <1>2
  <2>2. /\ f[0] = a
        /\ \A i \in 1 .. m : f[i] = g[<<i, f[i - 1]>>]
    BY <2>1 DEF Follows
  <2> DEFINE h == [i \in 0 .. m + 1 |-> IF i = m + 1 THEN g[<<m + 1, f[m]>>] ELSE f[i]]
  <2>3. g[<<m + 1, f[m]>>] \in V
    <3>1. m + 1 \in 1 .. n /\ f[m] \in V
      OBVIOUS
    <3> QED
      BY <3>1
  <2>4. h \in [0 .. m + 1 -> V]
    BY <2>3
  <2>5. /\ h[0] = a
        /\ \A i \in 1 .. m : h[i] = f[i] /\ h[i - 1] = f[i - 1]
        /\ h[m] = f[m]
        /\ h[m + 1] = g[<<m + 1, f[m]>>]
    BY <2>2
  <2> HIDE DEF h
  <2>6. \A i \in 0 .. m + 1 : h[i] = IF i = 0 THEN a ELSE g[<<i, h[i - 1]>>]
    <3> SUFFICES ASSUME NEW i \in 0 .. m + 1
                 PROVE  h[i] = IF i = 0 THEN a ELSE g[<<i, h[i - 1]>>]
      OBVIOUS
    <3>1. CASE i = 0
      BY <2>5, <3>1
    <3>2. CASE i \in 1 .. m
      BY <2>2, <2>5, <3>2
    <3>3. CASE i = m + 1
      <4>1. i # 0 /\ i - 1 = m
        BY <3>3
      <4> QED
        BY <2>5, <3>3, <4>1
    <3> QED
      BY <3>1, <3>2, <3>3
  <2>7. Follows(h, m + 1, a, g)
    BY <2>4, <2>6 DEF Follows
  <2> QED
    BY <2>4, <2>7
<1> HIDE DEF S
<1>3. n \in S
  BY <1>1, <1>2, BoundedInduction
<1> QED
  BY <1>3 DEF S

-----------------------------------------------------------------------------
(* Headers *)

\* Division with remainder.
LEMMA DivMod ==
    ASSUME NEW a \in Nat, NEW b \in Nat \ {0}
    PROVE  /\ a \div b \in Nat
           /\ a % b \in 0 .. b - 1
           /\ a = b * (a \div b) + (a % b)
OBVIOUS

\* It has one result.
LEMMA DivUnique ==
    ASSUME NEW a \in Nat, NEW b \in Nat \ {0}, NEW q \in Nat, NEW r \in 0 .. b - 1, a = b * q + r
    PROVE  a \div b = q
OBVIOUS

\* Dividing by b and then by c is dividing by their product.
LEMMA DivDiv ==
    ASSUME NEW a \in Nat, NEW b \in Nat \ {0}, NEW c \in Nat \ {0}
    PROVE  a \div (c * b) = (a \div b) \div c
<1> DEFINE q == a \div b
           r == a % b
           q2 == q \div c
           r2 == q % c
<1>1. q \in Nat /\ r \in 0 .. b - 1 /\ a = b * q + r
  BY DivMod
<1>2. q2 \in Nat /\ r2 \in 0 .. c - 1 /\ q = c * q2 + r2
  <2> HIDE DEF q
  <2> QED
    BY <1>1, DivMod
<1> HIDE DEF q, r, q2, r2
<1>3. c * b \in Nat \ {0} /\ b * r2 \in Nat /\ b * r2 <= b * (c - 1)
  BY <1>2
<1>4. b * (c - 1) = c * b - b
  OBVIOUS
<1>5. b * r2 + r \in 0 .. c * b - 1
  BY <1>1, <1>3, <1>4
<1>6. a = (c * b) * q2 + (b * r2 + r)
  <2>1. b * (c * q2 + r2) = (c * b) * q2 + b * r2
    BY <1>2
  <2> QED
    BY <1>1, <1>2, <1>3, <2>1
<1>7. a \div (c * b) = q2
  BY <1>2, <1>3, <1>5, <1>6, DivUnique
<1> QED
  BY <1>7 DEF q, q2

\* Multiplying by two or more.
LEMMA MoreThanTwice ==
    ASSUME NEW b \in Nat, b >= 2, NEW m \in Nat
    PROVE  b * m \in Nat /\ b * m >= 2 * m
<1>1. PICK c \in Nat : b = c + 2
  <2>1. b - 2 \in Nat /\ b = (b - 2) + 2
    OBVIOUS
  <2> QED
    BY <2>1
<1>2. (c + 2) * m = c * m + 2 * m /\ c * m \in Nat
  OBVIOUS
<1> QED
  BY <1>1, <1>2

\* The powers of Base are what they should be, and grow.
LEMMA PowerFacts ==
    /\ Power[0] = 1
    /\ \A i \in 1 .. HeaderSize : Power[i] = Base * Power[i - 1]
    /\ \A i \in 0 .. HeaderSize : Power[i] \in Nat /\ i + 1 <= Power[i]
<1> DEFINE V == Nat
           g == [x \in (1 .. HeaderSize) \X Nat |-> Base * x[2]]
<1>a. Base \in Nat /\ Base >= 2 /\ HeaderSize \in Nat /\ HeaderSize > 0
  BY FramingAssumption
<1>1. g \in [(1 .. HeaderSize) \X Nat -> Nat]
  BY <1>a
<1>2. \A i \in 1 .. HeaderSize, v \in Nat : g[<<i, v>>] = Base * v
  OBVIOUS
<1> HIDE DEF g
<1>3. PICK f \in [0 .. HeaderSize -> Nat] : Follows(f, HeaderSize, 1, g)
  BY <1>a, <1>1, RecursionExists
<1>4. f = [i \in 0 .. HeaderSize |-> IF i = 0 THEN 1 ELSE Base * f[i - 1]]
  <2>a. /\ f[0] = 1
        /\ \A i \in 1 .. HeaderSize : i - 1 \in 0 .. HeaderSize /\ f[i] = g[<<i, f[i - 1]>>]
    BY <1>a, <1>3 DEF Follows
  <2>1. f[0] = 1 /\ \A i \in 1 .. HeaderSize : f[i] = Base * f[i - 1]
    <3>1. \A i \in 1 .. HeaderSize : f[i - 1] \in Nat
      BY <2>a
    <3> QED
      BY <1>2, <2>a, <3>1
  <2>2. \A i \in 0 .. HeaderSize : f[i] = IF i = 0 THEN 1 ELSE Base * f[i - 1]
    BY <1>a, <2>1
  <2> QED
    BY <2>2
<1>5. Power = [i \in 0 .. HeaderSize |-> IF i = 0 THEN 1 ELSE Base * Power[i - 1]]
  BY <1>4 DEF Power
<1>6. Power[0] = 1 /\ \A i \in 1 .. HeaderSize : Power[i] = Base * Power[i - 1]
  <2>1. \A i \in 0 .. HeaderSize : Power[i] = IF i = 0 THEN 1 ELSE Base * Power[i - 1]
    BY <1>5, Zenon
  <2> QED
    BY <1>a, <2>1
<1> DEFINE S == {i \in 0 .. HeaderSize : Power[i] \in Nat /\ i + 1 <= Power[i]}
<1>7. 0 \in S
  BY <1>a, <1>6
<1>8. ASSUME NEW i \in 0 .. HeaderSize - 1, i \in S PROVE i + 1 \in S
  <2>1. i + 1 \in 1 .. HeaderSize /\ Power[i + 1] = Base * Power[i]
    <3>1. i + 1 \in 1 .. HeaderSize /\ (i + 1) - 1 = i
      BY <1>a
    <3> QED
      BY <1>6, <3>1
  <2>2. Power[i] \in Nat /\ i + 1 <= Power[i]
    BY <1>8
  <2>3. Base * Power[i] \in Nat /\ Base * Power[i] >= 2 * Power[i]
    BY <1>a, <2>2, MoreThanTwice
  <2> QED
    BY <1>a, <2>1, <2>2, <2>3
<1> HIDE DEF S
<1>9. \A i \in 0 .. HeaderSize : i \in S
  BY <1>a, <1>7, <1>8, BoundedInduction
<1> QED
  BY <1>6, <1>9 DEF S

\* Reading a header digit by digit is a function that follows a table.
LEMMA UintFollows ==
    ASSUME NEW hdr \in [1 .. HeaderSize -> Byte]
    PROVE  \E L : /\ Uint(hdr) = L[HeaderSize]
                  /\ L[0] = 0
                  /\ \A i \in 1 .. HeaderSize : L[i] = Base * L[i - 1] + hdr[i]
<1> DEFINE g == [x \in (1 .. HeaderSize) \X Nat |-> Base * x[2] + hdr[x[1]]]
<1>a. Base \in Nat /\ HeaderSize \in Nat
  BY FramingAssumption
<1>1. g \in [(1 .. HeaderSize) \X Nat -> Nat]
  BY <1>a DEF Byte
<1>2. \A i \in 1 .. HeaderSize, v \in Nat : g[<<i, v>>] = Base * v + hdr[i]
  OBVIOUS
<1> HIDE DEF g
<1>3. PICK f \in [0 .. HeaderSize -> Nat] : Follows(f, HeaderSize, 0, g)
  BY <1>a, <1>1, RecursionExists
<1>4. f = [i \in 0 .. HeaderSize |-> IF i = 0 THEN 0 ELSE Base * f[i - 1] + hdr[i]]
  <2>a. /\ f[0] = 0
        /\ \A i \in 1 .. HeaderSize : i - 1 \in 0 .. HeaderSize /\ f[i] = g[<<i, f[i - 1]>>]
    BY <1>a, <1>3 DEF Follows
  <2>1. f[0] = 0 /\ \A i \in 1 .. HeaderSize : f[i] = Base * f[i - 1] + hdr[i]
    <3>1. \A i \in 1 .. HeaderSize : f[i - 1] \in Nat
      BY <2>a
    <3> QED
      BY <1>2, <2>a, <3>1
  <2>2. \A i \in 0 .. HeaderSize : f[i] = IF i = 0 THEN 0 ELSE Base * f[i - 1] + hdr[i]
    BY <1>a, <2>1
  <2> QED
    BY <2>2
<1>5. PICK L : /\ Uint(hdr) = L[HeaderSize]
               /\ L = [i \in 0 .. HeaderSize |-> IF i = 0 THEN 0 ELSE Base * L[i - 1] + hdr[i]]
  BY <1>4 DEF Uint
<1>6. L[0] = 0 /\ \A i \in 1 .. HeaderSize : L[i] = Base * L[i - 1] + hdr[i]
  <2>1. \A i \in 0 .. HeaderSize : L[i] = IF i = 0 THEN 0 ELSE Base * L[i - 1] + hdr[i]
    BY <1>5, Zenon
  <2> QED
    BY <1>a, <2>1
<1> QED
  BY <1>5, <1>6

\* A header is made of bytes, and Uint32 undoes PutUint32 for every length that
\* fits in it.
THEOREM HeaderRoundTrip ==
    ASSUME NEW n \in 0 .. Power[HeaderSize] - 1
    PROVE  /\ PutUint(n) \in [1 .. HeaderSize -> Byte]
           /\ Uint(PutUint(n)) = n
<1>a. Base \in Nat /\ Base >= 2 /\ HeaderSize \in Nat /\ HeaderSize > 0
  BY FramingAssumption
<1>b. n \in Nat /\ n < Power[HeaderSize]
  BY <1>a, PowerFacts
<1>c. \A i \in 0 .. HeaderSize : Power[i] \in Nat \ {0}
  BY PowerFacts
<1>1. \A i \in 1 .. HeaderSize : PutUint(n)[i] = (n \div Power[HeaderSize - i]) % Base
  BY DEF PutUint
<1>2. PutUint(n) \in [1 .. HeaderSize -> Byte]
  <2>1. ASSUME NEW i \in 1 .. HeaderSize PROVE (n \div Power[HeaderSize - i]) % Base \in Byte
    <3>1. HeaderSize - i \in 0 .. HeaderSize
      BY <1>a
    <3>2. n \div Power[HeaderSize - i] \in Nat
      BY <1>b, <1>c, <3>1, DivMod
    <3>3. \A m \in Nat : m % Base \in 0 .. Base - 1
      BY <1>a, DivMod
    <3> QED
      BY <3>2, <3>3 DEF Byte
  <2> QED
    BY <2>1 DEF PutUint
<1>3. PICK L : /\ Uint(PutUint(n)) = L[HeaderSize]
               /\ L[0] = 0
               /\ \A i \in 1 .. HeaderSize : L[i] = Base * L[i - 1] + PutUint(n)[i]
  BY <1>2, UintFollows
<1> DEFINE S == {i \in 0 .. HeaderSize : L[i] = n \div Power[HeaderSize - i]}
<1>4. 0 \in S
  <2>1. n \div Power[HeaderSize] = 0
    <3>1. Power[HeaderSize] \in Nat \ {0}
      BY <1>a, <1>c
    <3>2. n = Power[HeaderSize] * 0 + n /\ n \in 0 .. Power[HeaderSize] - 1
      BY <1>b, <3>1
    <3> QED
      BY <1>b, <3>1, <3>2, DivUnique
  <2> QED
    BY <1>a, <1>3, <2>1
<1>5. ASSUME NEW i \in 0 .. HeaderSize - 1, i \in S PROVE i + 1 \in S
  <2> DEFINE j == HeaderSize - (i + 1)
             m == n \div Power[j]
  <2>1. /\ j \in 0 .. HeaderSize - 1 /\ HeaderSize - i = j + 1 /\ j + 1 \in 1 .. HeaderSize
        /\ (j + 1) - 1 = j /\ i + 1 \in 1 .. HeaderSize /\ (i + 1) - 1 = i
    BY <1>a
  <2>2. L[i] = n \div Power[j + 1]
    BY <1>5, <2>1
  <2>3. Power[j + 1] = Base * Power[j] /\ Power[j] \in Nat \ {0}
    BY <1>a, <1>c, <2>1, PowerFacts
  <2>4. m \in Nat
    BY <1>b, <2>3, DivMod
  <2>5. L[i] = m \div Base
    BY <1>a, <1>b, <2>2, <2>3, DivDiv
  <2>6. L[i + 1] = Base * (m \div Base) + (m % Base)
    BY <1>1, <1>3, <2>1, <2>5
  <2>7. L[i + 1] = m
    <3> HIDE DEF m
    <3> QED
      BY <1>a, <2>4, <2>6, DivMod
  <2> QED
    BY <2>1, <2>7
<1> HIDE DEF S
<1>6. HeaderSize \in S
  BY <1>a, <1>4, <1>5, BoundedInduction
<1>7. L[HeaderSize] = n \div Power[0]
  BY <1>a, <1>6 DEF S
<1>8. n \div 1 = n
  BY <1>b, DivUnique
<1> QED
  BY <1>2, <1>3, <1>7, <1>8, PowerFacts

-----------------------------------------------------------------------------
(* Where frames start *)

\* Start, for any sequence of payloads.
Offset(ws, k) ==
    LET O[i \in 0 .. k] == IF i = 0 THEN 0 ELSE O[i - 1] + HeaderSize + Len(ws[i])
    IN O[k]

\* It is Start for what was written.
LEMMA StartIsOffset == ASSUME NEW k PROVE Start(k) = Offset(written, k)
BY DEF Start, Offset

\* A function that adds up the lengths of the first n frames.
Adds(f, n, ws) ==
    /\ f \in [0 .. n -> Nat]
    /\ f[0] = 0
    /\ \A i \in 1 .. n : f[i] = f[i - 1] + HeaderSize + Len(ws[i])

\* There is one, and Offset is its last value.
LEMMA OffsetAdds ==
    ASSUME NEW ws, NEW n \in Nat, \A i \in 1 .. n : Len(ws[i]) \in Nat
    PROVE  \E f : Adds(f, n, ws) /\ Offset(ws, n) = f[n]
<1> DEFINE g == [x \in (1 .. n) \X Nat |-> x[2] + HeaderSize + Len(ws[x[1]])]
<1>a. HeaderSize \in Nat
  BY FramingAssumption
<1>1. g \in [(1 .. n) \X Nat -> Nat]
  BY <1>a
<1>2. \A i \in 1 .. n, v \in Nat : g[<<i, v>>] = v + HeaderSize + Len(ws[i])
  OBVIOUS
<1> HIDE DEF g
<1>3. PICK f \in [0 .. n -> Nat] : Follows(f, n, 0, g)
  BY <1>1, RecursionExists
<1>4. f = [i \in 0 .. n |-> IF i = 0 THEN 0 ELSE f[i - 1] + HeaderSize + Len(ws[i])]
  <2>1. /\ f[0] = 0
        /\ \A i \in 1 .. n : i - 1 \in 0 .. n /\ f[i] = g[<<i, f[i - 1]>>]
    BY <1>3 DEF Follows
  <2>2. \A i \in 1 .. n : f[i - 1] \in Nat
    BY <2>1
  <2>3. \A i \in 1 .. n : f[i] = f[i - 1] + HeaderSize + Len(ws[i])
    BY <1>2, <2>1, <2>2
  <2>4. \A i \in 0 .. n : f[i] = IF i = 0 THEN 0 ELSE f[i - 1] + HeaderSize + Len(ws[i])
    BY <2>1, <2>3
  <2> QED
    BY <2>4
<1>5. PICK h : /\ Offset(ws, n) = h[n]
               /\ h = [i \in 0 .. n |-> IF i = 0 THEN 0 ELSE h[i - 1] + HeaderSize + Len(ws[i])]
  BY <1>4 DEF Offset
<1>6. /\ \A i \in 0 .. n : h[i] = IF i = 0 THEN 0 ELSE h[i - 1] + HeaderSize + Len(ws[i])
      /\ DOMAIN h = 0 .. n
      /\ h = [i \in 0 .. n |-> h[i]]
  BY <1>5, Zenon
<1>7. h[0] = 0 /\ \A i \in 1 .. n : h[i] = h[i - 1] + HeaderSize + Len(ws[i])
  BY <1>6
<1> DEFINE S == {i \in 0 .. n : h[i] \in Nat}
<1>8. 0 \in S
  BY <1>7
<1>9. ASSUME NEW i \in 0 .. n - 1, i \in S PROVE i + 1 \in S
  <2>1. i + 1 \in 1 .. n /\ (i + 1) - 1 = i
    OBVIOUS
  <2>2. h[i + 1] = h[i] + HeaderSize + Len(ws[i + 1]) /\ Len(ws[i + 1]) \in Nat
    BY <1>7, <2>1
  <2> QED
    BY <1>9, <1>a, <2>1, <2>2
<1> HIDE DEF S
<1>10. \A i \in 0 .. n : i \in S
  BY <1>8, <1>9, BoundedInduction
<1>11. h \in [0 .. n -> Nat]
  BY <1>6, <1>10 DEF S
<1>12. Adds(h, n, ws)
  BY <1>7, <1>11 DEF Adds
<1> QED
  BY <1>5, <1>12

\* Two such functions agree as far as their frames do.
LEMMA AddsAgree ==
    ASSUME NEW n \in Nat, NEW m \in 0 .. n, NEW ws, NEW ws2,
           \A i \in 1 .. m : ws2[i] = ws[i],
           NEW f, Adds(f, n, ws), NEW f2, Adds(f2, m, ws2)
    PROVE  \A i \in 0 .. m : f2[i] = f[i]
<1> DEFINE S == {i \in 0 .. m : f2[i] = f[i]}
<1>1. 0 \in S
  BY DEF Adds
<1>2. ASSUME NEW i \in 0 .. m - 1, i \in S PROVE i + 1 \in S
  <2>1. i + 1 \in 1 .. m /\ (i + 1) - 1 = i /\ i + 1 \in 1 .. n
    OBVIOUS
  <2>2. /\ f[i + 1] = f[i] + HeaderSize + Len(ws[i + 1])
        /\ f2[i + 1] = f2[i] + HeaderSize + Len(ws2[i + 1])
        /\ ws2[i + 1] = ws[i + 1]
    BY <2>1 DEF Adds
  <2> QED
    BY <1>2, <2>1, <2>2
<1> HIDE DEF S
<1>3. \A i \in 0 .. m : i \in S
  BY <1>1, <1>2, BoundedInduction
<1> QED
  BY <1>3 DEF S

\* So there is one function whose values are the offsets of all frames.
LEMMA OffsetFacts ==
    ASSUME NEW ws, NEW n \in Nat, \A i \in 1 .. n : Len(ws[i]) \in Nat
    PROVE  /\ Offset(ws, 0) = 0
           /\ \A k \in 0 .. n : Offset(ws, k) \in Nat
           /\ \A k \in 1 .. n : Offset(ws, k) = Offset(ws, k - 1) + HeaderSize + Len(ws[k])
<1>1. PICK f : Adds(f, n, ws)
  BY OffsetAdds
<1>2. ASSUME NEW k \in 0 .. n PROVE Offset(ws, k) = f[k]
  <2>1. k \in Nat /\ \A i \in 1 .. k : Len(ws[i]) \in Nat
    OBVIOUS
  <2>2. PICK h : Adds(h, k, ws) /\ Offset(ws, k) = h[k]
    BY <2>1, OffsetAdds
  <2>3. k \in 0 .. k
    OBVIOUS
  <2> QED
    BY <1>1, <2>2, <2>3, AddsAgree
<1>3. f[0] = 0 /\ \A k \in 0 .. n : f[k] \in Nat
  BY <1>1 DEF Adds
<1>4. \A k \in 1 .. n : k - 1 \in 0 .. n /\ k \in 0 .. n /\ f[k] = f[k - 1] + HeaderSize + Len(ws[k])
  BY <1>1 DEF Adds
<1>5. 0 \in 0 .. n
  OBVIOUS
<1> QED
  BY <1>2, <1>3, <1>4, <1>5

\* Frames that come later start later.
LEMMA OffsetGrows ==
    ASSUME NEW ws, NEW n \in Nat, \A i \in 1 .. n : Len(ws[i]) \in Nat
    PROVE  \A m \in 0 .. n : \A k \in 0 .. m : Offset(ws, k) <= Offset(ws, m)
<1> DEFINE S == {m \in 0 .. n : \A k \in 0 .. m : Offset(ws, k) <= Offset(ws, m)}
<1>a. HeaderSize \in Nat
  BY FramingAssumption
<1>b. \A k \in 0 .. n : Offset(ws, k) \in Nat
  BY OffsetFacts
<1>1. 0 \in S
  BY <1>b
<1>2. ASSUME NEW m \in 0 .. n - 1, m \in S PROVE m + 1 \in S
  <2>1. /\ m + 1 \in 1 .. n /\ (m + 1) - 1 = m /\ m \in 0 .. n /\ m + 1 \in 0 .. n
        /\ Len(ws[m + 1]) \in Nat
    OBVIOUS
  <2>2. Offset(ws, m + 1) = Offset(ws, m) + HeaderSize + Len(ws[m + 1])
    BY <2>1, OffsetFacts
  <2>3. Offset(ws, m) <= Offset(ws, m + 1)
    BY <1>a, <1>b, <2>1, <2>2
  <2>4. ASSUME NEW k \in 0 .. m + 1 PROVE Offset(ws, k) <= Offset(ws, m + 1)
    <3>1. CASE k = m + 1
      BY <1>b, <2>1, <3>1
    <3>2. CASE k \in 0 .. m
      <4>1. Offset(ws, k) <= Offset(ws, m) /\ k \in 0 .. n
        BY <1>2, <3>2
      <4> QED
        BY <1>b, <2>1, <2>3, <4>1
    <3> QED
      BY <3>1, <3>2
  <2> QED
    BY <2>1, <2>4
<1> HIDE DEF S
<1>3. \A m \in 0 .. n : m \in S
  BY <1>1, <1>2, BoundedInduction
<1> QED
  BY <1>3 DEF S

\* Frames written later do not move the earlier ones.
LEMMA OffsetKept ==
    ASSUME NEW ws, NEW ws2, NEW n \in Nat, \A i \in 1 .. n : Len(ws[i]) \in Nat /\ ws2[i] = ws[i]
    PROVE  Offset(ws2, n) = Offset(ws, n)
<1>1. PICK f : Adds(f, n, ws) /\ Offset(ws, n) = f[n]
  BY OffsetAdds
<1>2. \A i \in 1 .. n : Len(ws2[i]) \in Nat
  OBVIOUS
<1>3. PICK f2 : Adds(f2, n, ws2) /\ Offset(ws2, n) = f2[n]
  BY <1>2, OffsetAdds
<1>4. n \in 0 .. n
  OBVIOUS
<1>5. f2[n] = f[n]
  BY <1>1, <1>3, <1>4, AddsAgree
<1> QED
  BY <1>1, <1>3, <1>5

\* Payloads are sequences of bytes whose length fits in a header.
LEMMA PayloadFacts ==
    ASSUME NEW p \in Payloads
    PROVE  /\ p \in Seq(Byte)
           /\ Len(p) \in Nat /\ Len(p) \in 0 .. Power[HeaderSize] - 1
<1>1. PICK n \in 0 .. MaxPayload : p \in [1 .. n -> Byte]
  BY DEF Payloads
<1>2. Power[HeaderSize] \in Nat /\ MaxPayload \in 0 .. Power[HeaderSize] - 1
  BY PowerFacts, FramingAssumption
<1>3. n \in Nat /\ n <= Power[HeaderSize] - 1
  BY <1>2
<1>4. p \in Seq(Byte) /\ Len(p) = n
  BY <1>1, <1>3
<1> QED
  BY <1>2, <1>3, <1>4

\* The starts of written frames.
LEMMA FrameStarts ==
    ASSUME NEW ws \in Seq(Payloads)
    PROVE  /\ Len(ws) \in Nat
           /\ \A k \in 1 .. Len(ws) : Len(ws[k]) \in Nat
           /\ Offset(ws, 0) = 0
           /\ \A k \in 0 .. Len(ws) : Offset(ws, k) \in Nat
           /\ \A k \in 1 .. Len(ws) : Offset(ws, k) = Offset(ws, k - 1) + HeaderSize + Len(ws[k])
           /\ \A m \in 0 .. Len(ws) : \A k \in 0 .. m : Offset(ws, k) <= Offset(ws, m)
<1>1. Len(ws) \in Nat /\ \A i \in 1 .. Len(ws) : Len(ws[i]) \in Nat
  BY PayloadFacts
<1> QED
  BY <1>1, OffsetFacts, OffsetGrows

\* A new frame starts where the last one ends.
LEMMA NewFrameStarts ==
    ASSUME NEW ws \in Seq(Payloads), NEW p \in Payloads
    PROVE  /\ Append(ws, p) \in Seq(Payloads)
           /\ Len(Append(ws, p)) = Len(ws) + 1
           /\ \A i \in 1 .. Len(ws) : Append(ws, p)[i] = ws[i]
           /\ Append(ws, p)[Len(ws) + 1] = p
           /\ \A k \in 0 .. Len(ws) : Offset(Append(ws, p), k) = Offset(ws, k)
           /\ Offset(Append(ws, p), Len(ws) + 1) = Offset(ws, Len(ws)) + HeaderSize + Len(p)
<1> DEFINE n == Len(ws)
           ws2 == Append(ws, p)
<1>1. /\ n \in Nat /\ ws2 \in Seq(Payloads) /\ Len(ws2) = n + 1 /\ ws2[n + 1] = p
      /\ \A i \in 1 .. n : ws2[i] = ws[i]
  OBVIOUS
<1> HIDE DEF ws2
<1>2. \A i \in 1 .. n : Len(ws[i]) \in Nat
  BY <1>1, PayloadFacts
<1>4. ASSUME NEW k \in 0 .. n PROVE Offset(ws2, k) = Offset(ws, k)
  <2>1. k \in Nat /\ \A i \in 1 .. k : Len(ws[i]) \in Nat /\ ws2[i] = ws[i]
    BY <1>1, <1>2
  <2> QED
    BY <2>1, OffsetKept
<1>5. Offset(ws2, n + 1) = Offset(ws2, n) + HeaderSize + Len(p)
  <2>1. n + 1 \in 1 .. Len(ws2) /\ (n + 1) - 1 = n
    BY <1>1
  <2> QED
    BY <1>1, <2>1, FrameStarts
<1>6. n \in 0 .. n
  BY <1>1
<1> QED
  BY <1>1, <1>4, <1>5, <1>6 DEF ws2

-----------------------------------------------------------------------------
(* The window on the stream *)

\* The bytes that ReadFull holds, b, and those under way, w, at their positions
\* in the stream, of which c bytes have been read.
Window(b, w, c) ==
    [x \in (c - Len(b)) + 1 .. c + Len(w) |-> IF x <= c THEN b[x - (c - Len(b))] ELSE w[x - c]]

\* Where the frames of ws after the first r overlap the window, the window holds
\* their bytes.
Shows(win, ws, r) ==
    \A k \in r + 1 .. Len(ws) :
        /\ \A j \in 1 .. HeaderSize : Offset(ws, k - 1) + j \in DOMAIN win =>
              win[Offset(ws, k - 1) + j] = PutUint(Len(ws[k]))[j]
        /\ \A j \in 1 .. Len(ws[k]) : Offset(ws, k - 1) + HeaderSize + j \in DOMAIN win =>
              win[Offset(ws, k - 1) + HeaderSize + j] = ws[k][j]

\* A part of a window.
PartOf(win2, win) == \A x \in DOMAIN win2 : x \in DOMAIN win /\ win2[x] = win[x]

\* A smaller window shows the same frames, or fewer.
LEMMA ShowsLess ==
    ASSUME NEW win, NEW win2, NEW ws \in Seq(Payloads), NEW r \in Nat, NEW r2 \in Nat, r <= r2,
           Shows(win, ws, r),
           PartOf(win2, win)
    PROVE  Shows(win2, ws, r2)
<1>1. \A k \in r2 + 1 .. Len(ws) : k \in r + 1 .. Len(ws)
  OBVIOUS
<1> QED
  BY <1>1 DEF Shows, PartOf

\* The window holds the bytes b after position x.
Begins(win, x, b) == \A j \in 1 .. Len(b) : x + j \in DOMAIN win /\ win[x + j] = b[j]

\* ReadFull takes n bytes off the wire: the window stays what it is, and what
\* ReadFull then holds is its beginning.
LEMMA WindowRead ==
    ASSUME NEW b \in Seq(Byte), NEW w \in Seq(Byte), NEW c \in Nat, NEW n \in 1 .. Len(w)
    PROVE  LET b2 == b \o SubSeq(w, 1, n)
               w2 == SubSeq(w, n + 1, Len(w))
           IN  /\ b2 \in Seq(Byte) /\ Len(b2) = Len(b) + n
               /\ w2 \in Seq(Byte) /\ Len(w2) = Len(w) - n
               /\ PartOf(Window(b2, w2, c + n), Window(b, w, c))
               /\ PartOf(Window(<<>>, w2, c + n), Window(b, w, c))
               /\ Begins(Window(b, w, c), c - Len(b), b2)
<1> DEFINE b2 == b \o SubSeq(w, 1, n)
           w2 == SubSeq(w, n + 1, Len(w))
           lb == Len(b)
           lw == Len(w)
<1>1. lb \in Nat /\ lw \in Nat /\ n \in Nat /\ n <= lw
  OBVIOUS
<1>2. /\ b2 \in Seq(Byte) /\ Len(b2) = lb + n
      /\ \A j \in 1 .. lb : b2[j] = b[j]
      /\ \A j \in lb + 1 .. lb + n : b2[j] = w[j - lb]
  <2> DEFINE u == SubSeq(w, 1, n)
  <2>1. u \in Seq(Byte) /\ Len(u) = n /\ \A j \in 1 .. n : u[j] = w[j]
    OBVIOUS
  <2> HIDE DEF u
  <2>2. b2 = b \o u
    BY DEF u
  <2>3. /\ b2 \in Seq(Byte) /\ Len(b2) = lb + n
        /\ \A j \in 1 .. lb : b2[j] = b[j]
        /\ \A j \in lb + 1 .. lb + n : b2[j] = u[j - lb]
    BY <2>1, <2>2
  <2>4. \A j \in lb + 1 .. lb + n : j - lb \in 1 .. n
    BY <1>1
  <2> QED
    BY <2>1, <2>3, <2>4
<1>3. /\ w2 \in Seq(Byte) /\ Len(w2) = lw - n
      /\ \A j \in 1 .. lw - n : w2[j] = w[j + n]
  OBVIOUS
<1> HIDE DEF b2, w2
<1>4. /\ DOMAIN Window(b, w, c) = (c - lb) + 1 .. c + lw
      /\ \A x \in (c - lb) + 1 .. c + lw :
            Window(b, w, c)[x] = IF x <= c THEN b[x - (c - lb)] ELSE w[x - c]
  BY DEF Window
<1>5. /\ DOMAIN Window(b2, w2, c + n) = (c - lb) + 1 .. c + lw
      /\ \A x \in (c - lb) + 1 .. c + lw :
            Window(b2, w2, c + n)[x] =
                IF x <= c + n THEN b2[x - (c - lb)] ELSE w2[x - (c + n)]
  <2>1. (c + n) - Len(b2) = c - lb /\ (c + n) + Len(w2) = c + lw
    <3> HIDE DEF lb, lw
    <3>1. Len(b2) = lb + n /\ Len(w2) = lw - n
      BY <1>2, <1>3
    <3>2. \A y, z : y = lb + n /\ z = lw - n => (c + n) - y = c - lb /\ (c + n) + z = c + lw
      BY <1>1
    <3> QED
      BY <3>1, <3>2
  <2> QED
    BY <2>1 DEF Window
<1>6. /\ DOMAIN Window(<<>>, w2, c + n) = c + n + 1 .. c + lw
      /\ \A x \in c + n + 1 .. c + lw : Window(<<>>, w2, c + n)[x] = w2[x - (c + n)]
  <2>1. (c + n) - Len(<<>>) = c + n /\ (c + n) + Len(w2) = c + lw
    <3> HIDE DEF lb, lw
    <3>1. Len(<<>>) = 0 /\ Len(w2) = lw - n
      BY <1>3
    <3>2. \A y, z : y = 0 /\ z = lw - n => (c + n) - y = c + n /\ (c + n) + z = c + lw
      BY <1>1
    <3> QED
      BY <3>1, <3>2
  <2>2. \A x \in c + n + 1 .. c + lw : ~(x <= c + n)
    BY <1>1
  <2> QED
    BY <2>1, <2>2 DEF Window
<1> HIDE DEF lb, lw
<1>7. ASSUME NEW x \in (c - lb) + 1 .. c + lw
      PROVE  Window(b2, w2, c + n)[x] = Window(b, w, c)[x]
  <2>1. CASE x <= c
    <3>1. x - (c - lb) \in 1 .. lb /\ x <= c + n
      BY <1>1, <2>1
    <3> QED
      BY <1>2, <1>4, <1>5, <2>1, <3>1
  <2>2. CASE x > c /\ x <= c + n
    <3>1. x - (c - lb) \in lb + 1 .. lb + n /\ (x - (c - lb)) - lb = x - c /\ ~(x <= c)
      BY <1>1, <2>2
    <3> QED
      BY <1>2, <1>4, <1>5, <2>2, <3>1
  <2>3. CASE x > c + n
    <3>1. x - (c + n) \in 1 .. lw - n /\ (x - (c + n)) + n = x - c /\ ~(x <= c) /\ ~(x <= c + n)
      BY <1>1, <2>3
    <3> QED
      BY <1>3, <1>4, <1>5, <3>1
  <2> QED
    BY <1>1, <2>1, <2>2, <2>3
<1>8. ASSUME NEW x \in c + n + 1 .. c + lw
      PROVE  /\ x \in (c - lb) + 1 .. c + lw
             /\ Window(<<>>, w2, c + n)[x] = Window(b, w, c)[x]
  <2>1. /\ x \in (c - lb) + 1 .. c + lw /\ ~(x <= c)
        /\ x - (c + n) \in 1 .. lw - n /\ (x - (c + n)) + n = x - c
    BY <1>1
  <2> QED
    BY <1>3, <1>4, <1>6, <2>1
<1>9. ASSUME NEW j \in 1 .. Len(b2)
      PROVE  /\ (c - lb) + j \in (c - lb) + 1 .. c + lw
             /\ Window(b, w, c)[(c - lb) + j] = b2[j]
  <2> DEFINE x == (c - lb) + j
  <2>1. /\ x \in (c - lb) + 1 .. c + lw /\ x <= c + n /\ x - (c - lb) = j
    BY <1>1, <1>2
  <2> QED
    BY <1>5, <1>7, <2>1
<1> QED
  BY <1>2, <1>3, <1>4, <1>5, <1>6, <1>7, <1>8, <1>9 DEF b2, w2, lb, lw, PartOf, Begins

\* The connection ends and only n of the bytes under way arrive.
LEMMA WindowCut ==
    ASSUME NEW b \in Seq(Byte), NEW w \in Seq(Byte), NEW c \in Nat, NEW n \in 0 .. Len(w)
    PROVE  /\ SubSeq(w, 1, n) \in Seq(Byte) /\ Len(SubSeq(w, 1, n)) = n
           /\ PartOf(Window(b, SubSeq(w, 1, n), c), Window(b, w, c))
<1> DEFINE w2 == SubSeq(w, 1, n)
           lb == Len(b)
           lw == Len(w)
<1>1. lb \in Nat /\ lw \in Nat /\ n \in 0 .. lw
  OBVIOUS
<1>2. w2 \in Seq(Byte) /\ Len(w2) = n /\ \A j \in 1 .. n : w2[j] = w[j]
  OBVIOUS
<1> HIDE DEF w2
<1>3. /\ DOMAIN Window(b, w, c) = (c - lb) + 1 .. c + lw
      /\ \A x \in (c - lb) + 1 .. c + lw :
            Window(b, w, c)[x] = IF x <= c THEN b[x - (c - lb)] ELSE w[x - c]
  BY DEF Window
<1>4. /\ DOMAIN Window(b, w2, c) = (c - lb) + 1 .. c + n
      /\ \A x \in (c - lb) + 1 .. c + n :
            Window(b, w2, c)[x] = IF x <= c THEN b[x - (c - lb)] ELSE w2[x - c]
  BY <1>2 DEF Window
<1> HIDE DEF lb, lw
<1>5. ASSUME NEW x \in (c - lb) + 1 .. c + n
      PROVE  x \in (c - lb) + 1 .. c + lw /\ Window(b, w2, c)[x] = Window(b, w, c)[x]
  <2>1. x \in (c - lb) + 1 .. c + lw /\ (x <= c \/ x - c \in 1 .. n)
    BY <1>1
  <2> QED
    BY <1>2, <1>3, <1>4, <2>1
<1> QED
  BY <1>2, <1>3, <1>4, <1>5 DEF w2, PartOf

\* A window goes on with the bytes v after position hi.
Extends(win2, win, hi, v) ==
    \A x \in DOMAIN win2 :
        /\ x \in Int /\ x <= hi + Len(v)
        /\ x <= hi => x \in DOMAIN win /\ win2[x] = win[x]
        /\ x > hi => win2[x] = v[x - hi]

\* The writer puts bytes v behind those under way.
LEMMA WindowGrows ==
    ASSUME NEW b \in Seq(Byte), NEW w \in Seq(Byte), NEW c \in Nat, NEW v \in Seq(Byte)
    PROVE  /\ w \o v \in Seq(Byte) /\ Len(w \o v) = Len(w) + Len(v)
           /\ Extends(Window(b, w \o v, c), Window(b, w, c), c + Len(w), v)
<1> DEFINE w2 == w \o v
           lb == Len(b)
           lw == Len(w)
           lv == Len(v)
<1>1. lb \in Nat /\ lw \in Nat /\ lv \in Nat
  OBVIOUS
<1>2. /\ w2 \in Seq(Byte) /\ Len(w2) = lw + lv
      /\ \A j \in 1 .. lw : w2[j] = w[j]
      /\ \A j \in lw + 1 .. lw + lv : w2[j] = v[j - lw]
  OBVIOUS
<1> HIDE DEF w2
<1>3. /\ DOMAIN Window(b, w, c) = (c - lb) + 1 .. c + lw
      /\ \A x \in (c - lb) + 1 .. c + lw :
            Window(b, w, c)[x] = IF x <= c THEN b[x - (c - lb)] ELSE w[x - c]
  BY DEF Window
<1>4. /\ DOMAIN Window(b, w2, c) = (c - lb) + 1 .. c + (lw + lv)
      /\ \A x \in (c - lb) + 1 .. c + (lw + lv) :
            Window(b, w2, c)[x] = IF x <= c THEN b[x - (c - lb)] ELSE w2[x - c]
  BY <1>2 DEF Window
<1> HIDE DEF lb, lw, lv
<1>5. ASSUME NEW x \in (c - lb) + 1 .. c + (lw + lv)
      PROVE  /\ x \in Int /\ x <= c + lw + lv
             /\ x <= c + lw => /\ x \in (c - lb) + 1 .. c + lw
                               /\ Window(b, w2, c)[x] = Window(b, w, c)[x]
             /\ x > c + lw => Window(b, w2, c)[x] = v[x - (c + lw)]
  <2>1. x \in Int /\ x <= c + lw + lv
    BY <1>1
  <2>2. ASSUME x <= c + lw
        PROVE  x \in (c - lb) + 1 .. c + lw /\ Window(b, w2, c)[x] = Window(b, w, c)[x]
    <3>1. x \in (c - lb) + 1 .. c + lw /\ (x <= c \/ x - c \in 1 .. lw)
      BY <1>1, <2>2
    <3> QED
      BY <1>2, <1>3, <1>4, <3>1
  <2>3. ASSUME x > c + lw PROVE Window(b, w2, c)[x] = v[x - (c + lw)]
    <3>1. x - c \in lw + 1 .. lw + lv /\ ~(x <= c) /\ (x - c) - lw = x - (c + lw)
      BY <1>1, <2>3
    <3> QED
      BY <1>2, <1>4, <3>1
  <2> QED
    BY <2>1, <2>2, <2>3
<1>6. Extends(Window(b, w2, c), Window(b, w, c), c + lw, v)
  BY <1>3, <1>4, <1>5 DEF Extends, lv
<1> QED
  BY <1>2, <1>6 DEF w2, lw, lv

\* After a header is written behind the last frame, the window shows it too.
LEMMA ShowsHeader ==
    ASSUME NEW ws \in Seq(Payloads), NEW p \in Payloads, NEW r \in Nat, NEW win, NEW win2,
           Shows(win, ws, r),
           NEW hi, hi = Offset(ws, Len(ws)),
           Extends(win2, win, hi, PutUint(Len(p)))
    PROVE  Shows(win2, Append(ws, p), r)
<1> DEFINE ws2 == Append(ws, p)
           n == Len(ws)
<1>a. HeaderSize \in Nat
  BY FramingAssumption
<1>1. /\ ws2 \in Seq(Payloads) /\ Len(ws2) = n + 1 /\ ws2[n + 1] = p
      /\ \A i \in 1 .. n : ws2[i] = ws[i]
      /\ \A k \in 0 .. n : Offset(ws2, k) = Offset(ws, k)
  BY NewFrameStarts
<1>2. /\ n \in Nat /\ hi \in Nat
      /\ \A k \in 1 .. n : Len(ws[k]) \in Nat /\ Offset(ws, k) \in Nat /\ Offset(ws, k) <= hi
      /\ \A k \in 0 .. n : Offset(ws, k) \in Nat
      /\ \A k \in 1 .. n : Offset(ws, k) = Offset(ws, k - 1) + HeaderSize + Len(ws[k])
  <2>1. n \in Nat /\ n \in 0 .. n
    OBVIOUS
  <2>2. \A k \in 1 .. n : k \in 0 .. n
    BY <2>1
  <2> QED
    BY <2>1, <2>2, FrameStarts
<1>b. \A x \in DOMAIN win2 : /\ x \in Int /\ x <= hi + HeaderSize
                             /\ x <= hi => x \in DOMAIN win /\ win2[x] = win[x]
                             /\ x > hi => win2[x] = PutUint(Len(p))[x - hi]
  <2>1. Len(PutUint(Len(p))) = HeaderSize
    BY <1>a, PayloadFacts, HeaderRoundTrip
  <2> QED
    BY <2>1 DEF Extends
<1> HIDE DEF ws2, n
<1> SUFFICES ASSUME NEW k \in r + 1 .. n + 1
             PROVE  /\ \A j \in 1 .. HeaderSize : Offset(ws2, k - 1) + j \in DOMAIN win2 =>
                          win2[Offset(ws2, k - 1) + j] = PutUint(Len(ws2[k]))[j]
                    /\ \A j \in 1 .. Len(ws2[k]) :
                          Offset(ws2, k - 1) + HeaderSize + j \in DOMAIN win2 =>
                          win2[Offset(ws2, k - 1) + HeaderSize + j] = ws2[k][j]
  BY <1>1 DEF Shows, ws2
<1>3. CASE k = n + 1
  <2>1. Offset(ws2, k - 1) = hi /\ ws2[k] = p
    <3>1. k - 1 = n /\ n \in 0 .. n
      BY <1>2, <1>3
    <3> QED
      BY <1>1, <1>3, <3>1 DEF n
  <2>2. ASSUME NEW j \in 1 .. HeaderSize, hi + j \in DOMAIN win2
        PROVE  win2[hi + j] = PutUint(Len(p))[j]
    <3>1. hi + j > hi /\ (hi + j) - hi = j
      BY <1>2, <1>a
    <3> QED
      BY <1>b, <2>2, <3>1
  <2>3. ASSUME NEW j \in 1 .. Len(p), hi + HeaderSize + j \in DOMAIN win2 PROVE FALSE
    <3>1. hi + HeaderSize + j > hi + HeaderSize
      BY <1>2, <1>a, PayloadFacts
    <3> QED
      BY <1>2, <1>a, <1>b, <2>3, <3>1
  <2> QED
    BY <2>1, <2>2, <2>3
<1>4. CASE k \in r + 1 .. n
  <2>1. /\ k \in 1 .. n /\ k - 1 \in 0 .. n
    BY <1>2, <1>4
  <2>2. /\ Offset(ws2, k - 1) = Offset(ws, k - 1) /\ ws2[k] = ws[k]
        /\ Offset(ws, k - 1) \in Nat /\ Len(ws[k]) \in Nat
        /\ Offset(ws, k - 1) + HeaderSize + Len(ws[k]) <= hi
    BY <1>1, <1>2, <2>1
  <2>3. /\ \A j \in 1 .. HeaderSize : Offset(ws, k - 1) + j <= hi
        /\ \A j \in 1 .. Len(ws[k]) : Offset(ws, k - 1) + HeaderSize + j <= hi
    BY <1>2, <1>a, <2>2
  <2> QED
    BY <1>4, <1>b, <2>2, <2>3 DEF Shows, n
<1> QED
  BY <1>2, <1>3, <1>4

\* Where a frame ends and its payload starts.
LEMMA CancelLength ==
    ASSUME NEW x \in Nat, NEW y \in Nat, NEW h \in Nat, NEW l \in Nat, x + l = y + h + l
    PROVE  x = y + h
OBVIOUS

\* After the payload of the last frame is written, the window shows it too.
LEMMA ShowsPayload ==
    ASSUME NEW ws \in Seq(Payloads), ws # <<>>, NEW r \in Nat, NEW win, NEW win2,
           Shows(win, ws, r),
           NEW hi, hi \in Nat, hi + Len(ws[Len(ws)]) = Offset(ws, Len(ws)),
           Extends(win2, win, hi, ws[Len(ws)])
    PROVE  Shows(win2, ws, r)
<1> DEFINE n == Len(ws)
<1>a. HeaderSize \in Nat
  BY FramingAssumption
<1>2. /\ n \in Nat /\ n \in 1 .. n /\ n - 1 \in 0 .. n
      /\ \A k \in 1 .. n : Len(ws[k]) \in Nat
      /\ \A k \in 0 .. n : Offset(ws, k) \in Nat
      /\ \A k \in 1 .. n : Offset(ws, k) = Offset(ws, k - 1) + HeaderSize + Len(ws[k])
      /\ \A k \in 0 .. n - 1 : Offset(ws, k) <= Offset(ws, n - 1)
  <2>1. n \in Nat /\ n \in 1 .. n /\ n - 1 \in 0 .. n
    OBVIOUS
  <2> QED
    BY <2>1, FrameStarts
<1>3. hi = Offset(ws, n - 1) + HeaderSize
  <2>1. Offset(ws, n) = Offset(ws, n - 1) + HeaderSize + Len(ws[n]) /\ Len(ws[n]) \in Nat
    BY <1>2
  <2>2. hi + Len(ws[n]) = Offset(ws, n) /\ Offset(ws, n - 1) \in Nat
    BY <1>2
  <2>4. hi + Len(ws[n]) = Offset(ws, n - 1) + HeaderSize + Len(ws[n])
    BY <2>1, <2>2
  <2>5. hi \in Nat
    OBVIOUS
  <2> QED
    BY <1>a, <2>1, <2>2, <2>4, <2>5, CancelLength
<1>b. \A x \in DOMAIN win2 : /\ x \in Int
                             /\ x <= hi => x \in DOMAIN win /\ win2[x] = win[x]
                             /\ x > hi => win2[x] = ws[n][x - hi]
  BY DEF Extends
<1> HIDE DEF n
<1> SUFFICES ASSUME NEW k \in r + 1 .. n
             PROVE  /\ \A j \in 1 .. HeaderSize : Offset(ws, k - 1) + j \in DOMAIN win2 =>
                          win2[Offset(ws, k - 1) + j] = PutUint(Len(ws[k]))[j]
                    /\ \A j \in 1 .. Len(ws[k]) :
                          Offset(ws, k - 1) + HeaderSize + j \in DOMAIN win2 =>
                          win2[Offset(ws, k - 1) + HeaderSize + j] = ws[k][j]
  BY DEF Shows, n
<1>4. /\ k \in 1 .. n /\ k - 1 \in 0 .. n - 1 /\ k - 1 \in 0 .. n
      /\ Offset(ws, k - 1) \in Nat /\ Len(ws[k]) \in Nat
      /\ Offset(ws, k - 1) <= Offset(ws, n - 1)
  <2>1. k \in 1 .. n /\ k - 1 \in 0 .. n - 1 /\ k - 1 \in 0 .. n
    BY <1>2
  <2> QED
    BY <1>2, <2>1
<1>5. \A j \in 1 .. HeaderSize : Offset(ws, k - 1) + j <= hi
  BY <1>2, <1>3, <1>4, <1>a
<1>6. ASSUME NEW j \in 1 .. Len(ws[k]), Offset(ws, k - 1) + HeaderSize + j \in DOMAIN win2
      PROVE  win2[Offset(ws, k - 1) + HeaderSize + j] = ws[k][j]
  <2>1. CASE k = n
    <3>1. /\ Offset(ws, k - 1) + HeaderSize = hi
          /\ hi + j > hi /\ (hi + j) - hi = j
      BY <1>3, <1>4, <2>1
    <3> QED
      BY <1>6, <1>b, <2>1, <3>1
  <2>2. CASE k # n
    <3>1. k \in 0 .. n - 1
      BY <1>2, <1>4, <2>2
    <3>2. Offset(ws, k) <= Offset(ws, n - 1) /\ Offset(ws, k) \in Nat
      BY <1>2, <1>4, <3>1
    <3>3. Offset(ws, k) = Offset(ws, k - 1) + HeaderSize + Len(ws[k])
      BY <1>2, <1>4
    <3>4. Offset(ws, k - 1) + HeaderSize + j <= hi
      <4>1. \A x, y, z, l \in Nat : \A i \in 1 .. l :
                y = x + HeaderSize + l /\ y <= z => x + HeaderSize + i <= z + HeaderSize
        BY <1>a
      <4>2. Offset(ws, n - 1) \in Nat
        BY <1>2
      <4> QED
        BY <1>3, <1>4, <3>2, <3>3, <4>1, <4>2
    <3> QED
      BY <1>6, <1>b, <3>4 DEF Shows, n
  <2> QED
    BY <2>1, <2>2
<1> QED
  BY <1>5, <1>6, <1>b DEF Shows, n

-----------------------------------------------------------------------------
(* The invariant *)

Reading == reader \in {"header", "payload"}

\* The stream ends where the frames do, except for what the writer has yet to
\* write of the last one and what was lost with the connection.
WriterInv ==
    /\ writer = "header" => todo = <<>>
    /\ writer = "payload" => written # <<>> /\ todo = written[Len(written)]
    /\ consumed + Len(wire) + Len(todo) <= Offset(written, Len(written))
    /\ open => consumed + Len(wire) + Len(todo) = Offset(written, Len(written))

\* ReadFull reads the header or the payload of the frame after those returned.
ReaderInv ==
    /\ Reading => Len(buf) < need
    /\ reader = "header" =>
          /\ need = HeaderSize
          /\ consumed = Offset(written, Len(received)) + Len(buf)
    /\ reader = "payload" =>
          /\ Len(received) < Len(written)
          /\ need = Len(written[Len(received) + 1])
          /\ consumed = Offset(written, Len(received)) + HeaderSize + Len(buf)

\* What it has read and what is under way are those frames' bytes.
WindowInv == Reading => Shows(Window(buf, wire, consumed), written, Len(received))

\* ErrorsAreTrue, with Offset for Start, and all that ReadFull's two ways to
\* io.EOF leave possible.
ErrorInv ==
    /\ MaxFrameLen # 0 => \A i \in 1 .. Len(received) : Len(received[i]) <= MaxFrameLen
    /\ reader = "ErrFrameTooLarge" =>
          /\ Len(received) < Len(written)
          /\ Len(written[Len(received) + 1]) > MaxFrameLen
          /\ consumed = Offset(written, Len(received)) + HeaderSize
    /\ reader = "EOF" =>
          \/ consumed = Offset(written, Len(received))
          \/ consumed = Offset(written, Len(received)) + HeaderSize
    /\ reader = "ErrUnexpectedEOF" =>
          /\ Len(received) < Len(written)
          /\ Offset(written, Len(received)) < consumed
          /\ consumed < Offset(written, Len(received) + 1)

FrameInv == TypeOK /\ ReceivedAsWritten /\ ErrorInv /\ WriterInv /\ ReaderInv /\ WindowInv

\* At the start there is nothing to show.
LEMMA InitFrame == Init => FrameInv
<1> SUFFICES ASSUME Init PROVE FrameInv
  OBVIOUS
<1>1. /\ HeaderSize \in Nat /\ HeaderSize > 0
      /\ Power[HeaderSize] \in Nat /\ HeaderSize + 1 <= Power[HeaderSize]
      /\ MaxPayload \in Nat /\ MaxFrames \in Nat
  BY FramingAssumption, PowerFacts
<1>2. <<>> \in Payloads
  <2>1. 0 \in 0 .. MaxPayload /\ <<>> \in [1 .. 0 -> Byte]
    BY <1>1
  <2> QED
    BY <2>1 DEF Payloads
<1>3. <<>> \in Seq(Payloads) /\ <<>> \in Seq(Byte) /\ Len(<<>>) = 0
  OBVIOUS
<1>4. TypeOK
  BY <1>1, <1>2, <1>3 DEF Init, TypeOK
<1>5. Offset(<<>>, 0) = 0
  BY <1>3, FrameStarts
<1>6. ReceivedAsWritten /\ ErrorInv /\ WriterInv /\ ReaderInv
  BY <1>1, <1>3, <1>5 DEF Init, ReceivedAsWritten, ErrorInv, WriterInv, ReaderInv
<1>7. WindowInv
  BY <1>3 DEF Init, WindowInv, Shows
<1> QED
  BY <1>4, <1>6, <1>7 DEF FrameInv

\* WriteFrame writes a header.
LEMMA WriteHeaderKeeps ==
    ASSUME FrameInv, WriteHeader
    PROVE  FrameInv'
<1>a. HeaderSize \in Nat
  BY FramingAssumption
<1>b. /\ written \in Seq(Payloads) /\ wire \in Seq(Byte) /\ buf \in Seq(Byte) /\ consumed \in Nat
      /\ received \in Seq(Payloads) /\ Len(written) \in Nat /\ Len(received) \in Nat
      /\ Len(wire) \in Nat
  BY DEF FrameInv, TypeOK
<1>c. UNCHANGED <<open, buf, need, reader, received, consumed>>
  BY DEF WriteHeader, readerVars
<1>1. PICK p \in Payloads :
          /\ written' = Append(written, p)
          /\ wire' = wire \o PutUint(Len(p))
          /\ IF p = <<>> THEN UNCHANGED <<todo, writer>> ELSE todo' = p /\ writer' = "payload"
  BY DEF WriteHeader
<1>2. /\ open /\ todo = <<>> /\ writer = "header" /\ Len(written) < MaxFrames
      /\ consumed + Len(wire) = Offset(written, Len(written))
  <2>1. open /\ todo = <<>> /\ writer = "header" /\ Len(written) < MaxFrames
    BY DEF WriteHeader, FrameInv, WriterInv
  <2>2. consumed + Len(wire) + Len(todo) = Offset(written, Len(written)) /\ Len(todo) = 0
    BY <2>1 DEF FrameInv, WriterInv
  <2> QED
    BY <1>b, <2>1, <2>2
<1>3. /\ PutUint(Len(p)) \in Seq(Byte) /\ Len(PutUint(Len(p))) = HeaderSize
  BY <1>a, PayloadFacts, HeaderRoundTrip
<1>4. /\ written' \in Seq(Payloads) /\ Len(written') = Len(written) + 1
      /\ \A i \in 1 .. Len(written) : written'[i] = written[i]
      /\ written'[Len(written) + 1] = p
      /\ \A k \in 0 .. Len(written) : Offset(written', k) = Offset(written, k)
      /\ Offset(written', Len(written')) = Offset(written, Len(written)) + HeaderSize + Len(p)
  BY <1>b, <1>1, NewFrameStarts
<1>5. /\ wire' \in Seq(Byte) /\ Len(wire') = Len(wire) + HeaderSize
      /\ Extends(Window(buf, wire', consumed), Window(buf, wire, consumed),
                 consumed + Len(wire), PutUint(Len(p)))
  BY <1>b, <1>1, <1>3, WindowGrows
<1>6. /\ todo' \in Payloads /\ Len(todo') = Len(p) /\ Len(p) \in Nat
      /\ writer' = "header" => todo' = <<>>
      /\ writer' = "payload" => todo' = p
      /\ writer' \in {"header", "payload"}
  BY <1>1, <1>2, PayloadFacts
<1>7. TypeOK'
  BY <1>b, <1>c, <1>2, <1>4, <1>5, <1>6, FramingAssumption DEF FrameInv, TypeOK
<1>8. Len(received) <= Len(written) /\ ReceivedAsWritten'
  BY <1>b, <1>c, <1>4 DEF FrameInv, ReceivedAsWritten
<1>9. ErrorInv' /\ ReaderInv'
  <2>1. /\ Len(received) \in 0 .. Len(written)
        /\ Len(received) < Len(written) => /\ Len(received) + 1 \in 1 .. Len(written)
                                           /\ Len(received) + 1 \in 0 .. Len(written)
                                           /\ Len(received) < Len(written')
    BY <1>b, <1>4, <1>8
  <2>2. /\ Offset(written', Len(received)) = Offset(written, Len(received))
        /\ Len(received) < Len(written) =>
              /\ Offset(written', Len(received) + 1) = Offset(written, Len(received) + 1)
              /\ written'[Len(received) + 1] = written[Len(received) + 1]
    BY <1>4, <2>1
  <2>3. ErrorInv'
    BY <1>c, <2>1, <2>2 DEF FrameInv, ErrorInv
  <2>4. ReaderInv'
    BY <1>c, <2>1, <2>2 DEF FrameInv, ReaderInv, Reading
  <2> QED
    BY <2>3, <2>4
<1>10. WriterInv'
  <2>1. written' # <<>>
    BY <1>4, <1>b
  <2>2. consumed + Len(wire') + Len(todo') = Offset(written', Len(written'))
    <3>1. \A c, l, q \in Nat : c + (l + HeaderSize) + q = (c + l) + HeaderSize + q
      BY <1>a
    <3>2. consumed + Len(wire') + Len(todo') = consumed + (Len(wire) + HeaderSize) + Len(p)
      BY <1>5, <1>6
    <3> QED
      BY <1>b, <1>2, <1>4, <1>6, <3>1, <3>2
  <2>3. writer' = "payload" => todo' = written'[Len(written')]
    BY <1>4, <1>6
  <2>4. consumed + Len(wire') + Len(todo') <= Offset(written', Len(written'))
    BY <1>a, <1>b, <1>5, <1>6, <2>2
  <2> QED
    BY <1>c, <1>6, <2>1, <2>2, <2>3, <2>4 DEF WriterInv
<1>11. WindowInv'
  <2>1. ASSUME Reading PROVE Shows(Window(buf, wire', consumed), written', Len(received))
    <3>1. Shows(Window(buf, wire, consumed), written, Len(received))
      BY <2>1 DEF FrameInv, WindowInv
    <3> QED
      BY <1>b, <1>1, <1>2, <1>5, <3>1, ShowsHeader
  <2> QED
    BY <1>c, <2>1 DEF WindowInv, Reading
<1> QED
  BY <1>7, <1>8, <1>9, <1>10, <1>11 DEF FrameInv

\* The types of the sequences, which every step starts from.
LEMMA Types ==
    ASSUME FrameInv
    PROVE  /\ written \in Seq(Payloads) /\ Len(written) \in Nat
           /\ received \in Seq(Payloads) /\ Len(received) \in Nat
           /\ Len(received) \in 0 .. Len(written)
           /\ wire \in Seq(Byte) /\ Len(wire) \in Nat
           /\ buf \in Seq(Byte) /\ Len(buf) \in Nat
           /\ todo \in Payloads /\ todo \in Seq(Byte) /\ Len(todo) \in Nat
           /\ consumed \in Nat /\ need \in Nat
           /\ HeaderSize \in Nat /\ HeaderSize > 0
<1>1. /\ written \in Seq(Payloads) /\ received \in Seq(Payloads) /\ wire \in Seq(Byte)
      /\ buf \in Seq(Byte) /\ todo \in Payloads /\ consumed \in Nat /\ need \in Nat
      /\ Len(received) <= Len(written)
  BY DEF FrameInv, TypeOK, ReceivedAsWritten
<1>2. todo \in Seq(Byte) /\ Len(todo) \in Nat
  BY <1>1, PayloadFacts
<1> QED
  BY <1>1, <1>2, FramingAssumption

\* WriteFrame writes the payload.
LEMMA WritePayloadKeeps ==
    ASSUME FrameInv, WritePayload
    PROVE  FrameInv'
<1>c. UNCHANGED <<written, open, buf, need, reader, received, consumed>>
  BY DEF WritePayload, readerVars
<1>1. /\ open /\ written # <<>> /\ todo = written[Len(written)]
      /\ wire' = wire \o todo /\ todo' = <<>> /\ writer' = "header"
      /\ consumed + Len(wire) + Len(todo) = Offset(written, Len(written))
  BY DEF WritePayload, FrameInv, WriterInv
<1>2. /\ wire' \in Seq(Byte) /\ Len(wire') = Len(wire) + Len(todo)
      /\ Extends(Window(buf, wire', consumed), Window(buf, wire, consumed),
                 consumed + Len(wire), todo)
  BY <1>1, Types, WindowGrows
<1>3. todo' \in Payloads /\ Len(todo') = 0
  <2>1. 0 \in 0 .. MaxPayload /\ <<>> \in [1 .. 0 -> Byte]
    BY FramingAssumption, PowerFacts
  <2> QED
    BY <1>1, <2>1 DEF Payloads
<1>4. TypeOK'
  BY <1>c, <1>1, <1>2, <1>3 DEF FrameInv, TypeOK
<1>5. ReceivedAsWritten' /\ ErrorInv' /\ ReaderInv'
  BY <1>c DEF FrameInv, ReceivedAsWritten, ErrorInv, ReaderInv, Reading
<1>6. WriterInv'
  <2>1. \A c, l, q \in Nat : c + (l + q) + 0 = c + l + q
    OBVIOUS
  <2>2. consumed + Len(wire') + Len(todo') = Offset(written, Len(written))
    BY <1>1, <1>2, <1>3, <2>1, Types
  <2>3. Offset(written, Len(written)) \in Nat
    <3>1. Len(written) \in 0 .. Len(written)
      BY Types
    <3> QED
      BY <3>1, Types, FrameStarts
  <2>4. consumed + Len(wire') + Len(todo') <= Offset(written, Len(written))
    BY <2>2, <2>3
  <2> QED
    BY <1>c, <1>1, <2>2, <2>4 DEF WriterInv
<1>7. WindowInv'
  <2>1. ASSUME Reading PROVE Shows(Window(buf, wire', consumed), written, Len(received))
    <3>1. Shows(Window(buf, wire, consumed), written, Len(received))
      BY <2>1 DEF FrameInv, WindowInv
    <3>2. consumed + Len(wire) \in Nat
      BY Types
    <3> QED
      BY <1>1, <1>2, <3>1, <3>2, Types, ShowsPayload
  <2> QED
    BY <1>c, <2>1 DEF WindowInv, Reading
<1> QED
  BY <1>4, <1>5, <1>6, <1>7 DEF FrameInv

\* The connection ends.
LEMMA CloseKeeps ==
    ASSUME FrameInv, Close
    PROVE  FrameInv'
<1>c. UNCHANGED <<written, todo, writer, buf, need, reader, received, consumed>>
  BY DEF Close, readerVars
<1>1. PICK n \in 0 .. Len(wire) : wire' = SubSeq(wire, 1, n)
  BY DEF Close
<1>2. open /\ open' = FALSE
  BY DEF Close
<1>3. /\ wire' \in Seq(Byte) /\ Len(wire') = n
      /\ PartOf(Window(buf, wire', consumed), Window(buf, wire, consumed))
  BY <1>1, Types, WindowCut
<1>4. TypeOK'
  BY <1>c, <1>2, <1>3 DEF FrameInv, TypeOK
<1>5. ReceivedAsWritten' /\ ErrorInv' /\ ReaderInv'
  BY <1>c DEF FrameInv, ReceivedAsWritten, ErrorInv, ReaderInv, Reading
<1>6. WriterInv'
  <2>1. \A c, l, q, o \in Nat : \A m \in 0 .. l : c + l + q <= o => c + m + q <= o
    OBVIOUS
  <2>2. Offset(written, Len(written)) \in Nat
    <3>1. Len(written) \in 0 .. Len(written)
      BY Types
    <3> QED
      BY <3>1, Types, FrameStarts
  <2>3. consumed + Len(wire) + Len(todo) <= Offset(written, Len(written))
    BY DEF FrameInv, WriterInv
  <2>4. consumed + Len(wire') + Len(todo) <= Offset(written, Len(written))
    BY <1>3, <2>1, <2>2, <2>3, Types
  <2> QED
    BY <1>c, <1>2, <2>4 DEF FrameInv, WriterInv
<1>7. WindowInv'
  <2>1. ASSUME Reading PROVE Shows(Window(buf, wire', consumed), written, Len(received))
    <3>1. Shows(Window(buf, wire, consumed), written, Len(received))
      BY <2>1 DEF FrameInv, WindowInv
    <3>2. Len(received) <= Len(received)
      BY Types
    <3> QED
      BY <1>3, <3>1, <3>2, Types, ShowsLess
  <2> QED
    BY <1>c, <2>1 DEF WindowInv, Reading
<1> QED
  BY <1>4, <1>5, <1>6, <1>7 DEF FrameInv

\* ReadFull meets the end of the stream: a position inside the frame that it is
\* reading, or at its start or the start of its payload.
LEMMA ReadEndKeeps ==
    ASSUME FrameInv, ReadEnd
    PROVE  FrameInv'
<1>c. UNCHANGED <<written, todo, writer, wire, open, buf, need, received, consumed>>
  BY DEF ReadEnd
<1>1. Reading /\ wire = <<>> /\ reader' = IF buf = <<>> THEN "EOF" ELSE "ErrUnexpectedEOF"
  BY DEF ReadEnd, Reading, EndOfStream
<1>2. TypeOK' /\ ReceivedAsWritten' /\ WriterInv'
  BY <1>c, <1>1 DEF FrameInv, TypeOK, Errors, ReceivedAsWritten, WriterInv
<1>3. ReaderInv' /\ WindowInv'
  BY <1>c, <1>1 DEF ReaderInv, WindowInv, Reading
<1> DEFINE r == Len(received)
           o == Offset(written, r)
<1>4. /\ o \in Nat /\ Len(buf) < need
      /\ (reader = "header" /\ need = HeaderSize /\ consumed = o + Len(buf))
         \/ (/\ reader = "payload" /\ r < Len(written) /\ need = Len(written[r + 1])
             /\ consumed = o + HeaderSize + Len(buf))
  <2>1. o \in Nat
    BY Types, FrameStarts
  <2> QED
    BY <1>1, <2>1 DEF FrameInv, ReaderInv, Reading
<1>5. CASE buf = <<>>
  <2>1. Len(buf) = 0 /\ reader' = "EOF"
    BY <1>1, <1>5
  <2>2. consumed = o \/ consumed = o + HeaderSize
    BY <1>4, <2>1, Types
  <2>3. ErrorInv'
    BY <1>c, <2>1, <2>2 DEF FrameInv, ErrorInv
  <2> QED
    BY <1>2, <1>3, <2>3 DEF FrameInv
<1>6. CASE buf # <<>>
  <2>1. Len(buf) > 0 /\ reader' = "ErrUnexpectedEOF"
    BY <1>1, <1>6, Types
  <2>2. consumed > o
    BY <1>4, <2>1, Types
  <2>3. r < Len(written)
    <3>1. consumed <= Offset(written, Len(written))
      <4>1. Len(written) \in 0 .. Len(written)
        BY Types
      <4>2. Offset(written, Len(written)) \in Nat
        BY <4>1, Types, FrameStarts
      <4>3. consumed + Len(wire) + Len(todo) <= Offset(written, Len(written))
        BY DEF FrameInv, WriterInv
      <4> QED
        BY <4>2, <4>3, Types
    <3>2. r # Len(written)
      BY <1>4, <2>2, <3>1, Types
    <3> QED
      BY <3>2, Types
  <2>4. consumed < Offset(written, r + 1)
    <3>1. r + 1 \in 1 .. Len(written) /\ (r + 1) - 1 = r
      BY <2>3, Types
    <3>2. Offset(written, r + 1) = o + HeaderSize + Len(written[r + 1]) /\ Len(written[r + 1]) \in Nat
      BY <3>1, Types, FrameStarts
    <3> HIDE DEF r, o
    <3> QED
      BY <1>4, <3>2, Types
  <2>5. ErrorInv'
    BY <1>c, <2>1, <2>2, <2>3, <2>4 DEF FrameInv, ErrorInv
  <2> QED
    BY <1>2, <1>3, <2>5 DEF FrameInv
<1> QED
  BY <1>5, <1>6

\* Bytes that agree one by one.
LEMMA SameBytes ==
    ASSUME NEW n, NEW f \in [1 .. n -> Byte], NEW g \in [1 .. n -> Byte],
           \A j \in 1 .. n : f[j] = g[j]
    PROVE  f = g
<1>1. f = [j \in 1 .. n |-> f[j]] /\ g = [j \in 1 .. n |-> g[j]]
  OBVIOUS
<1>2. [j \in 1 .. n |-> f[j]] = [j \in 1 .. n |-> g[j]]
  OBVIOUS
<1> QED
  BY <1>1, <1>2

\* What has been read was written.
LEMMA ReadWasWritten ==
    ASSUME FrameInv, NEW n \in 1 .. Len(wire)
    PROVE  /\ Offset(written, Len(written)) \in Nat
           /\ consumed + n <= Offset(written, Len(written))
<1>1. Len(written) \in 0 .. Len(written)
  BY Types
<1>2. Offset(written, Len(written)) \in Nat
  BY <1>1, Types, FrameStarts
<1>3. consumed + Len(wire) + Len(todo) <= Offset(written, Len(written))
  BY DEF FrameInv, WriterInv
<1>4. \A c, l, q, o \in Nat : \A m \in 1 .. l : c + l + q <= o => c + m <= o
  OBVIOUS
<1> QED
  BY <1>2, <1>3, <1>4, Types

\* ReadFull gets more bytes: the first of the window.
LEMMA BytesRead ==
    ASSUME FrameInv, NEW n \in 1 .. Len(wire), NEW b, b = buf \o SubSeq(wire, 1, n)
    PROVE  /\ b \in Seq(Byte) /\ b \in [1 .. Len(b) -> Byte] /\ Len(b) = Len(buf) + n
           /\ Begins(Window(buf, wire, consumed), consumed - Len(buf), b)
<1>1. buf \in Seq(Byte) /\ wire \in Seq(Byte) /\ consumed \in Nat
  BY Types
<1>3. /\ b \in Seq(Byte) /\ Len(b) = Len(buf) + n
      /\ Begins(Window(buf, wire, consumed), consumed - Len(buf), b)
  BY <1>1, WindowRead
<1>4. \A s \in Seq(Byte) : s \in [1 .. Len(s) -> Byte]
  OBVIOUS
<1> QED
  BY <1>3, <1>4

\* A header that ReadFull has read is the next frame's, and says how long its
\* payload is.
LEMMA HeaderRead ==
    ASSUME FrameInv, reader = "header", NEW n \in 1 .. Len(wire),
           NEW b, b = buf \o SubSeq(wire, 1, n), Len(b) = HeaderSize
    PROVE  /\ Len(received) < Len(written)
           /\ Uint(b) = Len(written[Len(received) + 1])
           /\ consumed + n = Offset(written, Len(received)) + HeaderSize
<1> DEFINE r == Len(received)
           o == Offset(written, r)
           win == Window(buf, wire, consumed)
<1>1. consumed = o + Len(buf) /\ Shows(win, written, r)
  BY DEF FrameInv, ReaderInv, WindowInv, Reading
<1>2. /\ b \in Seq(Byte) /\ b \in [1 .. Len(b) -> Byte] /\ Len(b) = Len(buf) + n
      /\ Begins(win, consumed - Len(buf), b)
  BY BytesRead
<1>3. o \in Nat
  BY Types, FrameStarts
<1>4. consumed + n = o + HeaderSize /\ consumed - Len(buf) = o
  <2>1. \A x, l, m \in Nat : (x + l) + m = x + (l + m) /\ (x + l) - l = x
    OBVIOUS
  <2>2. n \in Nat
    OBVIOUS
  <2> HIDE DEF o
  <2> QED
    BY <1>1, <1>2, <1>3, <2>1, <2>2, Types
<1>5. r < Len(written)
  <2>1. r # Len(written)
    BY <1>3, <1>4, Types, ReadWasWritten
  <2> QED
    BY <2>1, Types
<1>6. /\ r + 1 \in r + 1 .. Len(written) /\ (r + 1) - 1 = r
      /\ r + 1 \in 1 .. Len(written)
  BY <1>5, Types
<1> DEFINE p == written[r + 1]
<1>7. p \in Payloads
  BY <1>6, Types
<1>8. /\ Len(p) \in 0 .. Power[HeaderSize] - 1
      /\ PutUint(Len(p)) \in [1 .. HeaderSize -> Byte]
      /\ Uint(PutUint(Len(p))) = Len(p)
  <2> HIDE DEF p
  <2> QED
    BY <1>7, PayloadFacts, HeaderRoundTrip
<1>9. \A j \in 1 .. HeaderSize : b[j] = PutUint(Len(p))[j]
  <2> SUFFICES ASSUME NEW j \in 1 .. HeaderSize PROVE b[j] = PutUint(Len(p))[j]
    OBVIOUS
  <2>1. o + j \in DOMAIN win /\ win[o + j] = b[j]
    BY <1>2, <1>4 DEF Begins
  <2>2. o + j \in DOMAIN win => win[o + j] = PutUint(Len(p))[j]
    BY <1>1, <1>6 DEF Shows
  <2> QED
    BY <2>1, <2>2
<1>10. b = PutUint(Len(p))
  <2>1. b \in [1 .. HeaderSize -> Byte]
    BY <1>2
  <2> HIDE DEF p
  <2> QED
    BY <1>8, <1>9, <2>1
<1> QED
  BY <1>4, <1>5, <1>8, <1>10

\* A payload that ReadFull has read is the next frame's.
LEMMA PayloadRead ==
    ASSUME FrameInv, reader = "payload", NEW n \in 1 .. Len(wire),
           NEW b, b = buf \o SubSeq(wire, 1, n), Len(b) = need
    PROVE  /\ Len(received) < Len(written)
           /\ b = written[Len(received) + 1]
           /\ consumed + n = Offset(written, Len(received) + 1)
<1> DEFINE r == Len(received)
           o == Offset(written, r)
           win == Window(buf, wire, consumed)
           p == written[r + 1]
<1>1. /\ r < Len(written) /\ need = Len(p)
      /\ consumed = o + HeaderSize + Len(buf) /\ Shows(win, written, r)
  BY DEF FrameInv, ReaderInv, WindowInv, Reading
<1>2. /\ b \in Seq(Byte) /\ b \in [1 .. Len(b) -> Byte] /\ Len(b) = Len(buf) + n
      /\ Begins(win, consumed - Len(buf), b)
  BY BytesRead
<1>3. o \in Nat
  BY Types, FrameStarts
<1>4. /\ r + 1 \in r + 1 .. Len(written) /\ (r + 1) - 1 = r
      /\ r + 1 \in 1 .. Len(written)
  BY <1>1, Types
<1>5. p \in Payloads /\ p \in Seq(Byte)
  <2>1. p \in Payloads
    BY <1>4, Types
  <2> HIDE DEF p
  <2> QED
    BY <2>1, PayloadFacts
<1>6. Offset(written, r + 1) = o + HeaderSize + Len(p)
  BY <1>4, Types, FrameStarts
<1>7. consumed + n = o + HeaderSize + Len(p) /\ consumed - Len(buf) = o + HeaderSize
  <2>1. \A x, h, l, m \in Nat : (x + h + l) + m = x + h + (l + m) /\ (x + h + l) - l = x + h
    OBVIOUS
  <2>2. n \in Nat
    OBVIOUS
  <2>3. Len(p) = Len(buf) + n
    BY <1>1, <1>2
  <2> HIDE DEF o, p
  <2> QED
    BY <1>1, <1>3, <2>1, <2>2, <2>3, Types
<1>8. \A j \in 1 .. Len(p) : b[j] = p[j]
  <2> SUFFICES ASSUME NEW j \in 1 .. Len(p) PROVE b[j] = p[j]
    OBVIOUS
  <2>1. o + HeaderSize + j \in DOMAIN win /\ win[o + HeaderSize + j] = b[j]
    BY <1>1, <1>2, <1>7 DEF Begins
  <2>2. o + HeaderSize + j \in DOMAIN win => win[o + HeaderSize + j] = p[j]
    BY <1>1, <1>4 DEF Shows
  <2> QED
    BY <2>1, <2>2
<1>9. b = p
  <2> HIDE DEF p
  <2>1. b \in [1 .. Len(p) -> Byte] /\ p \in [1 .. Len(p) -> Byte]
    BY <1>1, <1>2, <1>5
  <2>2. \A f \in [1 .. Len(p) -> Byte] : (\A j \in 1 .. Len(p) : f[j] = p[j]) => f = p
    BY <2>1, SameBytes
  <2> QED
    BY <1>8, <2>1, <2>2, Zenon
<1> QED
  BY <1>1, <1>6, <1>7, <1>9

\* ReadFull takes n bytes off the wire.
TakeBytes(n) ==
    /\ wire' = SubSeq(wire, n + 1, Len(wire))
    /\ consumed' = consumed + n
    /\ UNCHANGED <<written, todo, writer, open>>

\* They stay in the window, and the writer has nothing to do with it.
LEMMA TakeBytesKeeps ==
    ASSUME FrameInv, NEW n \in 1 .. Len(wire), TakeBytes(n)
    PROVE  /\ wire' \in Seq(Byte) /\ consumed' \in Nat /\ WriterInv'
           /\ PartOf(Window(<<>>, wire', consumed'), Window(buf, wire, consumed))
           /\ PartOf(Window(buf \o SubSeq(wire, 1, n), wire', consumed'),
                     Window(buf, wire, consumed))
<1>1. /\ wire' = SubSeq(wire, n + 1, Len(wire)) /\ consumed' = consumed + n
      /\ UNCHANGED <<written, todo, writer, open>>
  BY DEF TakeBytes
<1>2. /\ wire' \in Seq(Byte) /\ Len(wire') = Len(wire) - n
      /\ PartOf(Window(<<>>, wire', consumed'), Window(buf, wire, consumed))
      /\ PartOf(Window(buf \o SubSeq(wire, 1, n), wire', consumed'),
                Window(buf, wire, consumed))
  BY <1>1, Types, WindowRead
<1>3. consumed' + Len(wire') + Len(todo) = consumed + Len(wire) + Len(todo)
  <2>1. \A c, l, q \in Nat : \A m \in 1 .. l : (c + m) + (l - m) + q = c + l + q
    OBVIOUS
  <2> QED
    BY <1>1, <1>2, <2>1, Types
<1>4. WriterInv'
  BY <1>1, <1>3 DEF FrameInv, WriterInv
<1> QED
  BY <1>1, <1>2, <1>4, Types

\* ReadFull gets bytes and wants more.
LEMMA ReadMoreKeeps ==
    ASSUME FrameInv, Reading, NEW n \in 1 .. Len(wire), n <= need - Len(buf), TakeBytes(n),
           buf' = buf \o SubSeq(wire, 1, n), Len(buf') # need, UNCHANGED <<need, reader, received>>
    PROVE  FrameInv'
<1>1. /\ buf' \in Seq(Byte) /\ Len(buf') = Len(buf) + n /\ Len(buf') < need
  <2>1. buf' \in Seq(Byte) /\ Len(buf') = Len(buf) + n
    BY BytesRead
  <2>2. \A l, d \in Nat : \A m \in 1 .. Len(wire) : m <= d - l /\ l + m # d => l + m < d
    BY Types
  <2> QED
    BY <2>1, <2>2, Types
<1>2. UNCHANGED written /\ consumed' = consumed + n
  BY DEF TakeBytes
<1>3. TypeOK'
  BY <1>1, <1>2, TakeBytesKeeps, Types DEF FrameInv, TypeOK, TakeBytes
<1>4. ReceivedAsWritten' /\ ErrorInv'
  BY <1>2 DEF FrameInv, ReceivedAsWritten, ErrorInv, Reading
<1>5. ReaderInv'
  <2>1. Offset(written, Len(received)) \in Nat
    BY Types, FrameStarts
  <2>2. \A o, l, h \in Nat : \A m \in 1 .. Len(wire) :
            (o + l) + m = o + (l + m) /\ (o + h + l) + m = o + h + (l + m)
    BY Types
  <2>3. reader = "header" => consumed' = Offset(written, Len(received)) + Len(buf')
    BY <1>1, <1>2, <2>1, <2>2, Types DEF FrameInv, ReaderInv
  <2>4. reader = "payload" => consumed' = Offset(written, Len(received)) + HeaderSize + Len(buf')
    BY <1>1, <1>2, <2>1, <2>2, Types DEF FrameInv, ReaderInv
  <2> QED
    BY <1>1, <1>2, <2>3, <2>4 DEF FrameInv, ReaderInv, Reading
<1>6. WindowInv'
  <2>1. /\ Shows(Window(buf, wire, consumed), written, Len(received))
        /\ Len(received) <= Len(received)
    BY Types DEF FrameInv, WindowInv
  <2>2. Shows(Window(buf', wire', consumed'), written, Len(received))
    BY <2>1, Types, TakeBytesKeeps, ShowsLess
  <2> QED
    BY <1>2, <2>2 DEF WindowInv
<1> QED
  BY <1>3, <1>4, <1>5, <1>6, TakeBytesKeeps DEF FrameInv

\* The next frame has been read to its end, and ReadFrame starts over.
LEMMA NextFrameKeeps ==
    ASSUME FrameInv, Reading, NEW n \in 1 .. Len(wire), TakeBytes(n), NextFrame,
           Len(received) < Len(written),
           received' = Append(received, written[Len(received) + 1]),
           consumed' = Offset(written, Len(received) + 1),
           MaxFrameLen # 0 => Len(written[Len(received) + 1]) <= MaxFrameLen
    PROVE  FrameInv'
<1> DEFINE r == Len(received)
           p == written[r + 1]
<1>1. UNCHANGED <<written, todo, writer, open>>
  BY DEF TakeBytes
<1>2. reader' = "header" /\ buf' = <<>> /\ need' = HeaderSize /\ Len(buf') = 0
  BY DEF NextFrame
<1>3. r \in Nat /\ r + 1 \in Nat /\ r <= r + 1 /\ r + 1 \in 1 .. Len(written) /\ p \in Payloads
  BY Types
<1>4. /\ received' \in Seq(Payloads) /\ Len(received') = r + 1
      /\ \A i \in 1 .. r : received'[i] = received[i]
      /\ received'[r + 1] = p
  <2> HIDE DEF p
  <2> QED
    BY <1>3, Types DEF p
<1> HIDE DEF p
<1>5. TypeOK'
  <2>1. HeaderSize \in 0 .. Power[HeaderSize] - 1
    <3>1. HeaderSize \in 0 .. HeaderSize
      BY Types
    <3>2. Power[HeaderSize] \in Nat /\ HeaderSize + 1 <= Power[HeaderSize]
      BY <3>1, PowerFacts
    <3> QED
      BY <3>2, Types
  <2> QED
    BY <1>1, <1>2, <1>4, <2>1, TakeBytesKeeps, Types DEF FrameInv, TypeOK
<1>6. ReceivedAsWritten'
  BY <1>1, <1>3, <1>4 DEF FrameInv, ReceivedAsWritten, p
<1>7. ErrorInv'
  <2>1. ASSUME MaxFrameLen # 0, NEW i \in 1 .. r + 1 PROVE Len(received'[i]) <= MaxFrameLen
    <3>1. CASE i = r + 1
      BY <1>4, <2>1, <3>1 DEF p
    <3>2. CASE i \in 1 .. r
      BY <1>4, <2>1, <3>2 DEF FrameInv, ErrorInv
    <3> QED
      BY <1>3, <3>1, <3>2
  <2> QED
    BY <1>2, <1>4, <2>1 DEF ErrorInv
<1>8. ReaderInv'
  <2>1. Offset(written, r + 1) \in Nat
    BY <1>3, Types, FrameStarts
  <2> HIDE DEF r
  <2>2. consumed' = Offset(written, r + 1) + Len(buf')
    BY <1>2, <2>1 DEF r
  <2> QED
    BY <1>1, <1>2, <1>4, <2>2, Types DEF ReaderInv, Reading
<1>9. WindowInv'
  <2>1. Shows(Window(buf, wire, consumed), written, r)
    BY DEF FrameInv, WindowInv
  <2>2. Shows(Window(<<>>, wire', consumed'), written, r + 1)
    <3> HIDE DEF r
    <3> QED
      BY <1>3, <2>1, Types, TakeBytesKeeps, ShowsLess
  <2> QED
    BY <1>1, <1>2, <1>4, <2>2 DEF WindowInv
<1> QED
  BY <1>5, <1>6, <1>7, <1>8, <1>9, TakeBytesKeeps DEF FrameInv

\* ReadFull gets bytes of a header, or all of them.
LEMMA MoreHeaderKeeps ==
    ASSUME FrameInv, NEW n \in 1 .. Len(wire), n <= need - Len(buf), TakeBytes(n),
           MoreHeader(buf \o SubSeq(wire, 1, n))
    PROVE  FrameInv'
<1> DEFINE b == buf \o SubSeq(wire, 1, n)
           r == Len(received)
           p == written[r + 1]
<1>1. reader = "header" /\ Reading /\ need = HeaderSize
  BY DEF MoreHeader, Reading, FrameInv, ReaderInv
<1>2. CASE Len(b) # need
  BY <1>1, <1>2, ReadMoreKeeps DEF MoreHeader, Full
<1>3. CASE Len(b) = need
  <2>1. /\ r < Len(written) /\ Uint(b) = Len(p)
        /\ consumed + n = Offset(written, r) + HeaderSize
    <3>1. \A c : c = buf \o SubSeq(wire, 1, n) /\ Len(c) = HeaderSize =>
              /\ r < Len(written) /\ Uint(c) = Len(p)
              /\ consumed + n = Offset(written, r) + HeaderSize
      BY <1>1, HeaderRead
    <3> QED
      BY <1>1, <1>3, <3>1
  <2>a. r \in Nat /\ r + 1 \in 1 .. Len(written) /\ (r + 1) - 1 = r
    BY <2>1, Types
  <2>2. p \in Payloads /\ Len(p) \in Nat /\ Len(p) \in 0 .. Power[HeaderSize] - 1
    <3>1. p \in Payloads
      BY <2>a, Types
    <3> HIDE DEF p
    <3> QED
      BY <3>1, PayloadFacts
  <2>3. UNCHANGED <<written, todo, writer, open>> /\ consumed' = Offset(written, r) + HeaderSize
    BY <2>1 DEF TakeBytes
  <2>4. \/ /\ TooLarge(Len(p))
           /\ reader' = "ErrFrameTooLarge"
           /\ UNCHANGED <<buf, need, received>>
        \/ /\ ~TooLarge(Len(p)) /\ Len(p) = 0
           /\ received' = Append(received, <<>>)
           /\ NextFrame
        \/ /\ ~TooLarge(Len(p)) /\ Len(p) # 0
           /\ reader' = "payload"
           /\ buf' = <<>>
           /\ need' = Len(p)
           /\ UNCHANGED received
    <3> HIDE DEF p
    <3> QED
      BY <1>3, <2>1 DEF MoreHeader, Full
  <2>5. CASE /\ TooLarge(Len(p)) /\ reader' = "ErrFrameTooLarge"
             /\ UNCHANGED <<buf, need, received>>
    <3>1. TypeOK'
      BY <2>3, <2>5, TakeBytesKeeps DEF FrameInv, TypeOK, Errors
    <3>2. ReceivedAsWritten' /\ ErrorInv'
      BY <2>1, <2>3, <2>5, <1>1 DEF FrameInv, ReceivedAsWritten, ErrorInv, TooLarge
    <3>3. ReaderInv' /\ WindowInv'
      BY <2>5 DEF ReaderInv, WindowInv, Reading
    <3> QED
      BY <3>1, <3>2, <3>3, TakeBytesKeeps DEF FrameInv
  <2>6. CASE /\ ~TooLarge(Len(p)) /\ Len(p) = 0
             /\ received' = Append(received, <<>>) /\ NextFrame
    <3>1. p = <<>>
      <4>1. p \in Seq(Byte)
        <5> HIDE DEF p
        <5> QED
          BY <2>2, PayloadFacts
      <4> HIDE DEF p
      <4> QED
        BY <2>6, <4>1
    <3>2. consumed' = Offset(written, r + 1)
      <4>1. /\ Offset(written, r + 1) = Offset(written, r) + HeaderSize + Len(p)
            /\ Offset(written, r) \in Nat
        BY <2>a, Types, FrameStarts
      <4>2. \A o \in Nat : o + HeaderSize + 0 = o + HeaderSize
        BY Types
      <4> HIDE DEF p
      <4> QED
        BY <2>3, <2>6, <4>1, <4>2
    <3>3. MaxFrameLen # 0 => Len(p) <= MaxFrameLen
      BY <2>2, <2>6, FramingAssumption
    <3>4. received' = Append(received, p)
      BY <2>6, <3>1
    <3> QED
      BY <1>1, <2>1, <2>6, <3>2, <3>3, <3>4, NextFrameKeeps
  <2>7. CASE /\ ~TooLarge(Len(p)) /\ Len(p) # 0 /\ reader' = "payload" /\ buf' = <<>>
             /\ need' = Len(p) /\ UNCHANGED received
    <3>1. buf' \in Seq(Byte) /\ Len(buf') = 0
      BY <2>7
    <3>2. MaxFrameLen # 0 => need' <= MaxFrameLen
      BY <2>2, <2>7, FramingAssumption DEF TooLarge
    <3>3. TypeOK'
      <4> HIDE DEF p
      <4> QED
        BY <2>2, <2>3, <2>7, <3>1, <3>2, TakeBytesKeeps DEF FrameInv, TypeOK
    <3>4. ReceivedAsWritten' /\ ErrorInv'
      BY <2>3, <2>7, <1>1 DEF FrameInv, ReceivedAsWritten, ErrorInv
    <3>5. ReaderInv'
      <4>1. Offset(written, r) \in Nat
        BY Types, FrameStarts
      <4>2. \A o \in Nat : o + HeaderSize = o + HeaderSize + 0
        BY Types
      <4>3. consumed' = Offset(written, r) + HeaderSize + Len(buf')
        BY <2>3, <3>1, <4>1, <4>2
      <4> QED
        BY <2>1, <2>2, <2>3, <2>7, <3>1, <4>3 DEF ReaderInv, Reading
    <3>6. WindowInv'
      <4>1. Shows(Window(buf, wire, consumed), written, r) /\ r <= r
        BY <1>1, Types DEF FrameInv, WindowInv
      <4>2. Shows(Window(<<>>, wire', consumed'), written, r)
        BY <4>1, Types, TakeBytesKeeps, ShowsLess
      <4> QED
        BY <2>3, <2>7, <4>2 DEF WindowInv
    <3> QED
      BY <3>3, <3>4, <3>5, <3>6, TakeBytesKeeps DEF FrameInv
  <2> QED
    BY <2>4, <2>5, <2>6, <2>7
<1> QED
  BY <1>2, <1>3

\* ReadFull gets bytes of a payload, or all of them.
LEMMA MorePayloadKeeps ==
    ASSUME FrameInv, NEW n \in 1 .. Len(wire), n <= need - Len(buf), TakeBytes(n),
           MorePayload(buf \o SubSeq(wire, 1, n))
    PROVE  FrameInv'
<1> DEFINE b == buf \o SubSeq(wire, 1, n)
           r == Len(received)
<1>1. reader = "payload" /\ Reading
  BY DEF MorePayload, Reading
<1>2. CASE Len(b) # need
  BY <1>1, <1>2, ReadMoreKeeps DEF MorePayload, Full
<1>3. CASE Len(b) = need
  <2>1. /\ r < Len(written) /\ b = written[r + 1]
        /\ consumed + n = Offset(written, r + 1)
    <3>1. \A c : c = buf \o SubSeq(wire, 1, n) /\ Len(c) = need =>
              /\ r < Len(written) /\ c = written[r + 1]
              /\ consumed + n = Offset(written, r + 1)
      BY <1>1, PayloadRead
    <3> QED
      BY <1>3, <3>1
  <2>2. received' = Append(received, b) /\ NextFrame
    BY <1>3 DEF MorePayload, Full
  <2>3. MaxFrameLen # 0 => Len(written[r + 1]) <= MaxFrameLen
    BY <1>1, <1>3, <2>1 DEF FrameInv, TypeOK
  <2>4. consumed' = Offset(written, r + 1) /\ received' = Append(received, written[r + 1])
    BY <2>1, <2>2 DEF TakeBytes
  <2> QED
    BY <1>1, <2>1, <2>2, <2>3, <2>4, NextFrameKeeps
<1> QED
  BY <1>2, <1>3

\* ReadFull gets some of the bytes under way.
LEMMA ReadKeeps ==
    ASSUME FrameInv, Read
    PROVE  FrameInv'
<1>1. PICK n \in 1 .. Len(wire) :
          /\ n <= need - Len(buf) /\ TakeBytes(n)
          /\ \/ MoreHeader(buf \o SubSeq(wire, 1, n))
             \/ MorePayload(buf \o SubSeq(wire, 1, n))
  BY DEF Read, TakeBytes
<1> QED
  BY <1>1, MoreHeaderKeeps, MorePayloadKeeps

-----------------------------------------------------------------------------
(* What ReadFrame promises *)

\* Every step keeps the invariant.
LEMMA FrameStep == FrameInv /\ [Next]_vars => FrameInv'
<1> SUFFICES ASSUME FrameInv, [Next]_vars PROVE FrameInv'
  OBVIOUS
<1>1. CASE WriteHeader
  BY <1>1, WriteHeaderKeeps
<1>2. CASE WritePayload
  BY <1>2, WritePayloadKeeps
<1>3. CASE Close
  BY <1>3, CloseKeeps
<1>4. CASE Read
  BY <1>4, ReadKeeps
<1>5. CASE ReadEnd
  BY <1>5, ReadEndKeeps
<1>6. CASE UNCHANGED vars
  BY <1>6 DEF vars, FrameInv, TypeOK, ReceivedAsWritten, ErrorInv, WriterInv, ReaderInv,
              WindowInv, Reading
<1> QED
  BY <1>1, <1>2, <1>3, <1>4, <1>5, <1>6 DEF Next

\* So it holds throughout.
LEMMA FrameInvHolds == Spec => []FrameInv
  BY InitFrame, FrameStep, PTL DEF Spec

\* What WriteFrame, ReadFrame and the connection keep is of its type; no more
\* than need bytes are ever asked of the stream, and never more than
\* MaxFrameLen for a payload.
THEOREM FramingTypeCorrect == Spec => []TypeOK
<1>1. FrameInv => TypeOK
  BY DEF FrameInv
<1> QED
  BY <1>1, FrameInvHolds, PTL

\* ReadFrame returns the payloads given to WriteFrame, in their order and
\* unaltered, whatever pieces the stream hands out and wherever it ends, for
\* every size of byte, header and payload that fits in the header.
THEOREM FramesReceivedAsWritten == Spec => []ReceivedAsWritten
<1>1. FrameInv => ReceivedAsWritten
  BY DEF FrameInv
<1> QED
  BY <1>1, FrameInvHolds, PTL

\* ErrFrameTooLarge, io.EOF and io.ErrUnexpectedEOF each say what is the case:
\* the next frame is too long and only its header was read; the stream did
\* not end inside a header; it ended inside the next frame.
THEOREM FrameErrorsAreTrue == Spec => []ErrorsAreTrue
<1>1. ASSUME FrameInv PROVE ErrorsAreTrue
  <2> DEFINE r == Len(received)
  <2>1. Start(r) = Offset(written, r) /\ Start(r + 1) = Offset(written, r + 1)
    BY StartIsOffset
  <2>2. Offset(written, r) \in Nat
    BY <1>1, Types, FrameStarts
  <2>3. ErrorInv
    BY <1>1 DEF FrameInv
  <2>4. reader = "EOF" => consumed - Start(r) \notin 1 .. HeaderSize - 1
    <3>1. \A o \in Nat : /\ o - o \notin 1 .. HeaderSize - 1
                         /\ (o + HeaderSize) - o \notin 1 .. HeaderSize - 1
      BY FramingAssumption
    <3>2. reader = "EOF" => \/ consumed = Offset(written, r)
                            \/ consumed = Offset(written, r) + HeaderSize
      BY <2>3 DEF ErrorInv
    <3> HIDE DEF r
    <3> QED
      BY <2>1, <2>2, <3>1, <3>2
  <2> QED
    BY <2>1, <2>3, <2>4 DEF ErrorInv, ErrorsAreTrue
<1> QED
  BY <1>1, FrameInvHolds, PTL
=============================================================================
