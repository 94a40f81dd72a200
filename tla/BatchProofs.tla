--------------------------- MODULE BatchProofs ---------------------------
(***************************************************************************)
(* Batches and the table they are inserted in, for every value of the      *)
(* constants: what the coding of numbers, slices, keys and records loses   *)
(* (nothing), the order of the table, and what InsertInto promises.        *)
(*                                                                         *)
(* The argument goes from the bytes up.  A number is read back from its    *)
(* digits, a slice and a record from their bytes, and no part of one is    *)
(* taken for a whole one.  Comparing entries compares the user keys that   *)
(* were put in them.  So the table stays in order, and InsertInto meets    *)
(* exactly the updates that the client asked for.                          *)
(***************************************************************************)
EXTENDS WriteBatch, DataInduction, SequenceTheorems, TLAPS

\* Leaves cite the assumptions they need.
HIDE RadixAssumption
HIDE WidthsAssumption
HIDE PowersAssumption
HIDE SlicesAssumption
HIDE LengthsAssumption
HIDE WidthsSuffice
HIDE DeletedAssumption

---------------------------------------------------------------------------
(* Sequences.                                                              *)

\* The bytes of two strings that are put together.
LEMMA Joined ==
    ASSUME NEW S, NEW a \in Seq(S), NEW b \in Seq(S)
    PROVE  /\ a \o b \in Seq(S)
           /\ Len(a) \in Nat /\ Len(b) \in Nat /\ Len(a \o b) = Len(a) + Len(b)
           /\ \A i \in 1 .. Len(a) : (a \o b)[i] = a[i]
           /\ \A i \in 1 .. Len(b) : (a \o b)[Len(a) + i] = b[i]
<1>1. /\ a \o b \in Seq(S) /\ Len(a \o b) = Len(a) + Len(b)
      /\ \A i \in 1 .. Len(a) + Len(b) :
           (a \o b)[i] = IF i <= Len(a) THEN a[i] ELSE b[i - Len(a)]
  BY ConcatProperties
<1>2. Len(a) \in Nat /\ Len(b) \in Nat
  BY LenProperties
<1>3. ASSUME NEW i \in 1 .. Len(a) PROVE (a \o b)[i] = a[i]
  <2>1. i \in 1 .. Len(a) + Len(b) /\ i <= Len(a)
    BY <1>2
  <2> QED
    BY <1>1, <2>1
<1>4. ASSUME NEW i \in 1 .. Len(b) PROVE (a \o b)[Len(a) + i] = b[i]
  <2>1. Len(a) + i \in 1 .. Len(a) + Len(b) /\ ~(Len(a) + i <= Len(a)) /\ (Len(a) + i) - Len(a) = i
    BY <1>2
  <2> QED
    BY <1>1, <2>1
<1> QED
  BY <1>1, <1>2, <1>3, <1>4

\* The bytes of a part of a string.
LEMMA Part ==
    ASSUME NEW S, NEW s \in Seq(S), NEW m \in Nat, NEW n \in Nat, m <= n, n <= Len(s)
    PROVE  /\ SubSeq(s, m + 1, n) \in Seq(S) /\ Len(SubSeq(s, m + 1, n)) = n - m
           /\ \A i \in 1 .. n - m : SubSeq(s, m + 1, n)[i] = s[m + i]
<1>1. Len(s) \in Nat
  BY LenProperties
<1>2. \A i \in m + 1 .. n : s[i] \in S
  <2> TAKE i \in m + 1 .. n
  <2>1. i \in 1 .. Len(s)
    BY <1>1
  <2> QED
    BY <2>1, ElementOfSeq
<1>3. /\ SubSeq(s, m + 1, n) \in Seq(S)
      /\ Len(SubSeq(s, m + 1, n)) = IF m + 1 <= n THEN n - (m + 1) + 1 ELSE 0
      /\ \A i \in 1 .. n - (m + 1) + 1 : SubSeq(s, m + 1, n)[i] = s[(m + 1) + i - 1]
  <2>1. m + 1 \in Int /\ n \in Int
    OBVIOUS
  <2> QED
    BY <1>2, <2>1, SubSeqProperties
<1>4. ASSUME NEW i \in 1 .. n - m PROVE SubSeq(s, m + 1, n)[i] = s[m + i]
  <2>1. i \in 1 .. n - (m + 1) + 1 /\ (m + 1) + i - 1 = m + i
    OBVIOUS
  <2> QED
    BY <1>3, <2>1
<1>5. Len(SubSeq(s, m + 1, n)) = n - m
  BY <1>3
<1> QED
  BY <1>3, <1>4, <1>5

\* The first bytes of a string.
LEMMA Start ==
    ASSUME NEW S, NEW s \in Seq(S), NEW n \in Nat, n <= Len(s)
    PROVE  /\ SubSeq(s, 1, n) \in Seq(S) /\ Len(SubSeq(s, 1, n)) = n
           /\ \A i \in 1 .. n : SubSeq(s, 1, n)[i] = s[i]
<1>1. /\ SubSeq(s, 0 + 1, n) \in Seq(S) /\ Len(SubSeq(s, 0 + 1, n)) = n - 0
      /\ \A i \in 1 .. n - 0 : SubSeq(s, 0 + 1, n)[i] = s[0 + i]
  <2>1. 0 \in Nat /\ 0 <= n
    OBVIOUS
  <2> QED
    BY <2>1, Part
<1> QED
  BY <1>1

\* What is behind the first of two strings is the second, and what is before
\* the second is the first.
LEMMA Apart ==
    ASSUME NEW S, NEW a \in Seq(S), NEW b \in Seq(S)
    PROVE  /\ SubSeq(a \o b, 1, Len(a)) = a
           /\ SubSeq(a \o b, Len(a) + 1, Len(a \o b)) = b
<1> DEFINE c == a \o b
<1>1. /\ c \in Seq(S) /\ Len(a) \in Nat /\ Len(b) \in Nat /\ Len(c) = Len(a) + Len(b)
      /\ \A i \in 1 .. Len(a) : c[i] = a[i]
      /\ \A i \in 1 .. Len(b) : c[Len(a) + i] = b[i]
  BY Joined
<1> HIDE DEF c
<1>2. SubSeq(c, 1, Len(a)) = a
  <2>1. /\ SubSeq(c, 1, Len(a)) \in Seq(S) /\ Len(SubSeq(c, 1, Len(a))) = Len(a)
        /\ \A i \in 1 .. Len(a) : SubSeq(c, 1, Len(a))[i] = c[i]
    <3>1. Len(a) <= Len(c)
      BY <1>1
    <3> QED
      BY <1>1, <3>1, Start
  <2> QED
    BY <1>1, <2>1, SeqEqual
<1>3. SubSeq(c, Len(a) + 1, Len(c)) = b
  <2> DEFINE t == SubSeq(c, Len(a) + 1, Len(c))
  <2>1. Len(a) <= Len(c) /\ Len(c) \in Nat /\ Len(c) - Len(a) = Len(b)
    BY <1>1
  <2>2. /\ t \in Seq(S) /\ Len(t) = Len(c) - Len(a)
        /\ \A i \in 1 .. Len(c) - Len(a) : t[i] = c[Len(a) + i]
    BY <1>1, <2>1, Part
  <2> HIDE DEF t
  <2>3. Len(t) = Len(b) /\ \A i \in 1 .. Len(t) : t[i] = b[i]
    BY <1>1, <2>1, <2>2
  <2>4. t = b
    BY <2>2, <2>3, SeqEqual
  <2> QED
    BY <2>4 DEF t
<1> QED
  BY <1>2, <1>3 DEF c

\* The start of two strings is a start of the first, or the first and a start
\* of the second.
LEMMA StartOfJoined ==
    ASSUME NEW S, NEW a \in Seq(S), NEW b \in Seq(S), NEW n \in Nat
    PROVE  /\ n <= Len(a) => SubSeq(a \o b, 1, n) = SubSeq(a, 1, n)
           /\ n >= Len(a) /\ n <= Len(a) + Len(b) =>
                SubSeq(a \o b, 1, n) = a \o SubSeq(b, 1, n - Len(a))
<1> DEFINE c == a \o b
<1>1. /\ c \in Seq(S) /\ Len(a) \in Nat /\ Len(b) \in Nat /\ Len(c) = Len(a) + Len(b)
      /\ \A i \in 1 .. Len(a) : c[i] = a[i]
      /\ \A i \in 1 .. Len(b) : c[Len(a) + i] = b[i]
  BY Joined
<1> HIDE DEF c
<1>2. ASSUME n <= Len(c)
      PROVE  /\ SubSeq(c, 1, n) \in Seq(S) /\ Len(SubSeq(c, 1, n)) = n
             /\ \A i \in 1 .. n : SubSeq(c, 1, n)[i] = c[i]
  BY <1>1, <1>2, Start
<1>3. ASSUME n <= Len(a) PROVE SubSeq(c, 1, n) = SubSeq(a, 1, n)
  <2>1. /\ SubSeq(a, 1, n) \in Seq(S) /\ Len(SubSeq(a, 1, n)) = n
        /\ \A i \in 1 .. n : SubSeq(a, 1, n)[i] = a[i]
    BY <1>3, Start
  <2>2. n <= Len(c) /\ \A i \in 1 .. n : i \in 1 .. Len(a)
    BY <1>1, <1>3
  <2>3. \A i \in 1 .. n : SubSeq(c, 1, n)[i] = SubSeq(a, 1, n)[i]
    BY <1>1, <1>2, <2>1, <2>2
  <2> QED
    BY <1>2, <2>1, <2>2, <2>3, SeqEqual
<1>4. ASSUME n >= Len(a), n <= Len(a) + Len(b)
      PROVE  SubSeq(c, 1, n) = a \o SubSeq(b, 1, n - Len(a))
  <2> DEFINE t == SubSeq(b, 1, n - Len(a))
             u == SubSeq(c, 1, n)
             v == a \o t
  <2>1. n - Len(a) \in Nat /\ n - Len(a) <= Len(b) /\ n <= Len(c)
    BY <1>1, <1>4
  <2>2. /\ t \in Seq(S) /\ Len(t) = n - Len(a)
        /\ \A i \in 1 .. n - Len(a) : t[i] = b[i]
    BY <2>1, Start
  <2>u. u \in Seq(S) /\ Len(u) = n /\ \A i \in 1 .. n : u[i] = c[i]
    BY <1>2, <2>1
  <2> HIDE DEF t, u
  <2>3. /\ v \in Seq(S) /\ Len(v) = Len(a) + Len(t)
        /\ \A i \in 1 .. Len(a) : v[i] = a[i]
        /\ \A i \in 1 .. Len(t) : v[Len(a) + i] = t[i]
    BY <2>2, Joined
  <2> HIDE DEF v
  <2>4. ASSUME NEW i \in 1 .. n PROVE u[i] = v[i]
    <3>1. CASE i <= Len(a)
      <4>1. i \in 1 .. Len(a)
        BY <3>1
      <4> QED
        BY <1>1, <2>3, <2>u, <4>1
    <3>2. CASE ~(i <= Len(a))
      <4>1. PICK k \in 1 .. n - Len(a) : i = Len(a) + k
        <5>1. i - Len(a) \in 1 .. n - Len(a) /\ i = Len(a) + (i - Len(a))
          BY <1>1, <2>1, <3>2
        <5> QED
          BY <5>1
      <4>2. k \in 1 .. Len(b) /\ k \in 1 .. Len(t)
        BY <1>1, <2>1, <2>2
      <4> QED
        BY <1>1, <2>2, <2>3, <2>u, <4>1, <4>2
    <3> QED
      BY <3>1, <3>2
  <2>5. Len(v) = n
    BY <1>1, <2>1, <2>2, <2>3
  <2>6. u = v
    BY <2>3, <2>4, <2>5, <2>u, SeqEqual
  <2> QED
    BY <2>6 DEF u, v, t
<1> QED
  BY <1>3, <1>4 DEF c

\* The joints of three strings may be made in either order.
LEMMA Joints ==
    ASSUME NEW a \in Seq(Nat), NEW b \in Seq(Nat), NEW c \in Seq(Nat)
    PROVE  (a \o b) \o c = a \o (b \o c)
  BY ConcatAssociative, SMTT(30)

---------------------------------------------------------------------------
(* Numbers and their digits.                                               *)

\* Quotient and remainder are what they are defined by.
LEMMA DivModAre ==
    ASSUME NEW B \in Nat \ {0}, NEW q \in Nat, NEW r \in 0 .. B - 1, NEW x, x = (B * q) + r
    PROVE  x \div B = q /\ x % B = r
<1> DEFINE p == x \div B
           s == x % B
<1>1. x \in Nat
  OBVIOUS
<1>2. p \in Int /\ s \in 0 .. B - 1 /\ x = (B * p) + s
  BY <1>1
<1> HIDE DEF p, s
<1>3. ASSUME p <= q - 1 PROVE FALSE
  <2>1. PICK d \in Nat : q = p + 1 + d
    <3>1. q - p - 1 \in Nat /\ q = p + 1 + (q - p - 1)
      BY <1>2, <1>3
    <3>2. QED
      BY <3>1
  <2>2. B * q = (B * p) + B + (B * d) /\ B * d \in Nat
    BY <1>2, <2>1
  <2>3. QED
    BY <1>2, <2>2
<1>4. ASSUME p >= q + 1 PROVE FALSE
  <2>1. PICK d \in Nat : p = q + 1 + d
    <3>1. p - q - 1 \in Nat /\ p = q + 1 + (p - q - 1)
      BY <1>2, <1>4
    <3>2. QED
      BY <3>1
  <2>2. B * p = (B * q) + B + (B * d) /\ B * d \in Nat
    BY <1>2, <2>1
  <2>3. QED
    BY <1>2, <2>2
<1>5. p = q
  BY <1>2, <1>3, <1>4
<1>6. s = r
  BY <1>2, <1>5
<1> QED
  BY <1>5, <1>6 DEF p, s

\* A number below the divisor is the remainder.
LEMMA SmallDivMod ==
    ASSUME NEW B \in Nat \ {0}, NEW x \in 0 .. B - 1
    PROVE  x \div B = 0 /\ x % B = x
<1>1. PICK q \in Nat : q = 0 /\ x = (B * q) + x
  OBVIOUS
<1>2. x \div B = q /\ x % B = x
  BY <1>1, DivModAre
<1> QED
  BY <1>1, <1>2

\* A quotient of natural numbers is one.
LEMMA DivMod ==
    ASSUME NEW x \in Nat, NEW B \in Nat \ {0}
    PROVE  /\ x \div B \in Nat /\ x % B \in 0 .. B - 1
           /\ x = (B * (x \div B)) + (x % B)
<1> DEFINE p == x \div B
           s == x % B
<1>1. p \in Int /\ s \in 0 .. B - 1 /\ x = (B * p) + s
  OBVIOUS
<1> HIDE DEF p, s
<1>2. ASSUME p <= -1 PROVE FALSE
  <2>1. PICK d \in Nat : p = -1 - d
    <3>1. -1 - p \in Nat /\ p = -1 - (-1 - p)
      BY <1>1, <1>2
    <3> QED
      BY <3>1
  <2>2. B * p = 0 - B - (B * d) /\ B * d \in Nat
    BY <1>1, <2>1
  <2> QED
    BY <1>1, <2>2
<1>3. p \in Nat
  BY <1>1, <1>2
<1> QED
  BY <1>1, <1>3 DEF p, s

\* Dividing twice is dividing by the product.
LEMMA DivTwice ==
    ASSUME NEW x \in Nat, NEW a \in Nat \ {0}, NEW b \in Nat \ {0}
    PROVE  (x \div a) \div b = x \div (b * a)
<1> DEFINE q == x \div a
           r == x % a
<1>1. q \in Nat /\ r \in 0 .. a - 1 /\ x = (a * q) + r
  BY DivMod
<1> DEFINE p == q \div b
           s == q % b
<1> HIDE DEF q, r
<1>2. p \in Nat /\ s \in 0 .. b - 1 /\ q = (b * p) + s
  BY <1>1, DivMod
<1> HIDE DEF p, s
<1> DEFINE c == b * a
           t == (a * s) + r
<1>3. c \in Nat \ {0}
  OBVIOUS
<1>4. t \in 0 .. c - 1
  <2>1. PICK d \in Nat : b = s + 1 + d
    <3>1. b - s - 1 \in Nat /\ b = s + 1 + (b - s - 1)
      BY <1>2
    <3> QED
      BY <3>1
  <2>2. c = (a * s) + a + (a * d) /\ a * d \in Nat /\ a * s \in Nat
    BY <1>2, <2>1
  <2> HIDE DEF c
  <2> QED
    BY <1>1, <1>2, <1>3, <2>2
<1>5. x = (c * p) + t
  <2>1. a * q = (a * (b * p)) + (a * s)
    BY <1>1, <1>2
  <2>2. a * (b * p) = c * p
    BY <1>2
  <2> QED
    BY <1>1, <1>2, <1>3, <2>1, <2>2
<1> HIDE DEF c, t
<1>6. x \div c = p
  BY <1>2, <1>3, <1>4, <1>5, DivModAre
<1> QED
  BY <1>6 DEF c, p, q

\* The lengths of what the model codes.
MaxDigits == Fixed64 + MaxVarint

\* The radices and the widths.
LEMMA Widths ==
    /\ Radix \in Nat /\ Radix >= 2 /\ ByteRadix \in Nat /\ ByteRadix = 2 * Radix
    /\ MaxVarint \in Nat /\ Fixed32 \in Nat \ {0} /\ Fixed64 \in Nat \ {0} /\ Fixed32 < Fixed64
    /\ MaxDigits \in Nat /\ Fixed32 <= MaxDigits /\ Fixed64 <= MaxDigits /\ MaxVarint <= MaxDigits
  BY RadixAssumption, WidthsAssumption DEF ByteRadix, MaxDigits

\* The powers of a radix.
LEMMA Powers ==
    ASSUME NEW r \in {Radix, ByteRadix}
    PROVE  /\ r \in Nat /\ r >= 2
           /\ r^0 = 1
           /\ \A n \in 0 .. MaxDigits : r^n \in Nat \ {0}
           /\ \A n \in 1 .. MaxDigits : r^n = r * r^(n - 1)
           /\ \A n \in 1 .. MaxDigits : r^(n - 1) < r^n
<1>1. r \in Nat /\ r >= 2
  BY Widths
<1>2. r^0 = 1 /\ \A n \in 0 .. MaxDigits : r^n \in Nat /\ r^(n + 1) = r * r^n
  BY PowersAssumption DEF ByteRadix, MaxDigits
<1>3. \A n \in 1 .. MaxDigits : n - 1 \in 0 .. MaxDigits /\ r^n = r * r^(n - 1)
  <2> TAKE n \in 1 .. MaxDigits
  <2>1. n - 1 \in 0 .. MaxDigits /\ (n - 1) + 1 = n
    BY Widths
  <2> QED
    BY <1>2, <2>1
<1> DEFINE Z == {n \in Nat : n <= MaxDigits => r^n # 0}
<1>4. 0 \in Z
  BY <1>2
<1>5. ASSUME NEW n \in Nat, n \in Z PROVE n + 1 \in Z
  <2>1. CASE n + 1 <= MaxDigits
    <3>1. n \in 0 .. MaxDigits
      BY <2>1, Widths
    <3>2. r^n \in Nat /\ r^n # 0 /\ r^(n + 1) = r * r^n
      BY <1>2, <1>5, <3>1
    <3> DEFINE p == r^n
    <3>3. p \in Nat /\ p # 0 /\ r^(n + 1) = r * p
      BY <3>2
    <3> HIDE DEF p
    <3>4. r * p # 0
      BY <1>1, <3>3
    <3>5. r^(n + 1) # 0
      BY <3>3, <3>4
    <3> QED
      BY <3>5
  <2>2. CASE ~(n + 1 <= MaxDigits)
    BY <2>2
  <2> QED
    BY <2>1, <2>2
<1> HIDE DEF Z
<1>6. Nat \subseteq Z
  BY <1>4, <1>5, SetInduction
<1>7. \A n \in 0 .. MaxDigits : r^n \in Nat \ {0}
  <2> TAKE n \in 0 .. MaxDigits
  <2>1. n \in Nat /\ n <= MaxDigits
    BY Widths
  <2> QED
    BY <1>2, <1>6, <2>1 DEF Z
<1>8. ASSUME NEW n \in 1 .. MaxDigits PROVE r^(n - 1) < r^n
  <2> DEFINE p == r^(n - 1)
             q == r^n
  <2>1. p \in Nat \ {0} /\ q = r * p
    BY <1>3, <1>7
  <2> HIDE DEF p, q
  <2>2. PICK d \in Nat : r = 2 + d
    <3>1. r - 2 \in Nat /\ r = 2 + (r - 2)
      BY <1>1
    <3> QED
      BY <3>1
  <2>3. q = p + p + (d * p) /\ d * p \in Nat
    BY <2>1, <2>2
  <2>4. p < q
    BY <2>1, <2>3
  <2> QED
    BY <2>4 DEF p, q
<1> QED
  BY <1>1, <1>2, <1>3, <1>7, <1>8

\* A higher power is greater.
LEMMA PowersGrow ==
    ASSUME NEW r \in {Radix, ByteRadix}, NEW m \in 0 .. MaxDigits, NEW n \in 0 .. MaxDigits, m <= n
    PROVE  r^m <= r^n
<1>0. MaxDigits \in Nat
  BY Widths
<1> DEFINE Z == {k \in Nat : k >= m /\ k <= MaxDigits => r^m <= r^k}
<1>1. \A k \in 0 .. MaxDigits : r^k \in Nat
  BY Powers
<1>2. 0 \in Z
  <2>1. CASE m = 0
    <3>1. r^m <= r^0
      BY <1>1, <2>1
    <3> QED
      BY <3>1
  <2>2. CASE m # 0
    BY <1>0, <2>2
  <2> QED
    BY <2>1, <2>2
<1>3. ASSUME NEW k \in Nat, k \in Z PROVE k + 1 \in Z
  <2>1. CASE k + 1 <= MaxDigits /\ k + 1 > m
    <3>1. k >= m /\ k \in 0 .. MaxDigits /\ k + 1 \in 1 .. MaxDigits /\ (k + 1) - 1 = k /\ k + 1 \in 0 .. MaxDigits
      BY <1>0, <2>1
    <3>2. r^m <= r^k
      BY <1>3, <3>1
    <3>3. r^k < r^(k + 1)
      BY <3>1, Powers
    <3>4. r^m \in Nat /\ r^k \in Nat /\ r^(k + 1) \in Nat
      BY <1>1, <3>1
    <3>5. r^m <= r^(k + 1)
      BY <3>2, <3>3, <3>4
    <3> QED
      BY <3>5
  <2>2. CASE k + 1 = m
    <3>1. r^m <= r^(k + 1)
      BY <1>1, <2>2
    <3> QED
      BY <3>1
  <2>3. CASE ~(k + 1 <= MaxDigits) \/ k + 1 < m
    BY <1>0, <2>3
  <2> QED
    BY <1>0, <2>1, <2>2, <2>3
<1> HIDE DEF Z
<1>4. Nat \subseteq Z
  BY <1>2, <1>3, SetInduction
<1>5. n \in Z
  BY <1>0, <1>4
<1> QED
  BY <1>0, <1>5 DEF Z

\* Number sums the digits as its recursion says.
LEMMA NumberSums ==
    ASSUME NEW digits \in Seq(Nat), NEW r \in {Radix, ByteRadix}, Len(digits) <= MaxDigits
    PROVE  \E s : /\ s[0] = 0
                  /\ \A i \in 1 .. Len(digits) : s[i] = s[i - 1] + digits[i] * r^(i - 1)
                  /\ Number(digits, r) = s[Len(digits)]
<1> DEFINE n == Len(digits)
           Is(f) == f = [i \in 0 .. n |->
                          IF i = 0 THEN 0 ELSE f[i - 1] + digits[i] * r^(i - 1)]
           s == CHOOSE f : Is(f)
<1>0. n \in Nat
  BY LenProperties
<1>1. \E f : Is(f)
  <2> DEFINE F == [p \in (1 .. n) \X Nat |-> p[2] + digits[p[1]] * r^(p[1] - 1)]
  <2>1. \A i \in 1 .. n : digits[i] \in Nat /\ r^(i - 1) \in Nat /\ i - 1 \in 0 .. n
    <3> TAKE i \in 1 .. n
    <3>1. digits[i] \in Nat
      BY ElementOfSeq
    <3>2. i - 1 \in 0 .. MaxDigits /\ i - 1 \in 0 .. n
      BY <1>0, Widths
    <3> QED
      BY <3>1, <3>2, Powers
  <2>2. \A i \in 1 .. n, v \in Nat : F[<<i, v>>] = v + digits[i] * r^(i - 1)
    OBVIOUS
  <2>3. F \in [(1 .. n) \X Nat -> Nat]
    <3>0. \A v, x, y \in Nat : v + x * y \in Nat
      OBVIOUS
    <3>1. \A i \in 1 .. n, v \in Nat : v + digits[i] * r^(i - 1) \in Nat
      BY <2>1, <3>0, Zenon
    <3> QED
      BY <3>1
  <2> HIDE DEF F
  <2>4. PICK g \in [0 .. n -> Nat] : Recurs(g, n, 0, F)
    <3> HIDE DEF n
    <3> QED
      BY <1>0, <2>3, SegmentRecursion
  <2>5. g[0] = 0 /\ \A i \in 1 .. n : g[i] = F[<<i, g[i - 1]>>]
    BY <2>4 DEF Recurs
  <2>6. \A i \in 1 .. n : g[i] = g[i - 1] + digits[i] * r^(i - 1)
    <3> TAKE i \in 1 .. n
    <3>1. g[i - 1] \in Nat
      BY <2>1
    <3> QED
      BY <2>2, <2>5, <3>1
  <2>7. Is(g)
    BY <2>5, <2>6, <1>0
  <2> QED
    BY <2>7
<1>2. Is(s)
  BY <1>1, Zenon
<1>3. Number(digits, r) = s[n]
  BY Zenon DEF Number
<1> HIDE DEF s
<1>4. s[0] = 0
  BY <1>0, <1>2
<1>5. \A i \in 1 .. n : s[i] = s[i - 1] + digits[i] * r^(i - 1)
  <2>1. \A i \in 0 .. n : s[i] = IF i = 0 THEN 0 ELSE s[i - 1] + digits[i] * r^(i - 1)
    BY <1>2, Zenon
  <2>2. \A i \in 1 .. n : i \in 0 .. n /\ i # 0
    BY <1>0
  <2> QED
    BY <2>1, <2>2, Zenon
<1> QED
  BY <1>3, <1>4, <1>5

\* A number is read back from its digits, if there are enough of them.
LEMMA DigitsAreRead ==
    ASSUME NEW r \in {Radix, ByteRadix}, NEW v \in Nat, NEW digits \in Seq(Nat),
           Len(digits) <= MaxDigits, v < r^Len(digits),
           \A i \in 1 .. Len(digits) : digits[i] = (v \div r^(i - 1)) % r
    PROVE  Number(digits, r) = v
<1> DEFINE n == Len(digits)
<1>0. n \in Nat /\ n <= MaxDigits /\ MaxDigits \in Nat
  BY LenProperties, Widths
<1>1. PICK s : /\ s[0] = 0
               /\ \A i \in 1 .. n : s[i] = s[i - 1] + digits[i] * r^(i - 1)
               /\ Number(digits, r) = s[n]
  BY NumberSums
<1>2. /\ r \in Nat \ {0} /\ r^0 = 1
      /\ \A i \in 0 .. MaxDigits : r^i \in Nat \ {0}
      /\ \A i \in 1 .. MaxDigits : r^i = r * r^(i - 1)
  BY Powers
<1>d. \A i \in 1 .. n : digits[i] = (v \div r^(i - 1)) % r
  OBVIOUS
<1> HIDE DEF n
<1> DEFINE Z == {i \in Nat : i <= n => s[i] \in Nat /\ v = s[i] + r^i * (v \div r^i)}
<1>3. 0 \in Z
  <2>1. v \div 1 = v
    BY DivMod
  <2>2. v = 0 + 1 * v
    OBVIOUS
  <2>3. s[0] \in Nat /\ v = s[0] + r^0 * (v \div r^0)
    BY <1>1, <1>2, <2>1, <2>2
  <2> QED
    BY <2>3
<1>4. ASSUME NEW i \in Nat, i \in Z PROVE i + 1 \in Z
  <2>1. CASE i + 1 <= n
    <3> DEFINE p == r^i
               q == v \div p
               k == q % r
               w == q \div r
    <3>1. i \in 0 .. MaxDigits /\ i + 1 \in 1 .. MaxDigits /\ i + 1 \in 1 .. n /\ (i + 1) - 1 = i /\ i <= n
      BY <1>0, <2>1
    <3>2. p \in Nat \ {0} /\ r^(i + 1) = r * p
      BY <1>2, <3>1
    <3>3. s[i] \in Nat /\ v = s[i] + p * q
      BY <1>4, <3>1
    <3>4. s[i + 1] = s[i] + k * p
      <4>1. s[i + 1] = s[i] + digits[i + 1] * r^i
        BY <1>1, <3>1
      <4>2. digits[i + 1] = (v \div r^i) % r
        BY <1>d, <3>1
      <4> QED
        BY <4>1, <4>2
    <3> HIDE DEF p
    <3>5. q \in Nat
      BY <3>2, DivMod
    <3>6. w = v \div (r * p)
      BY <1>2, <3>2, DivTwice
    <3> HIDE DEF q
    <3>7. w \in Nat /\ k \in Nat /\ q = (r * w) + k
      <4>1. w \in Nat /\ k \in 0 .. r - 1 /\ q = (r * w) + k
        <5>1. r \in Nat \ {0} /\ q \in Nat
          BY <1>2, <3>5
        <5> QED
          BY <5>1, DivMod
      <4> HIDE DEF k
      <4>2. k \in Nat
        BY <1>2, <4>1
      <4> QED
        BY <4>1, <4>2
    <3> HIDE DEF k, w
    <3>8. p * q = (r * p) * w + k * p
      BY <1>2, <3>2, <3>5, <3>7
    <3> DEFINE a == s[i]
               b == k * p
               c == (r * p) * w
    <3>10. a \in Nat /\ b \in Nat /\ c \in Nat /\ v = a + (c + b)
      BY <1>2, <3>2, <3>3, <3>7, <3>8
    <3>11. s[i + 1] = a + b
      BY <3>4
    <3> HIDE DEF a, b, c
    <3>9. s[i + 1] \in Nat
      BY <3>10, <3>11
    <3>12. v = (a + b) + c
      BY <3>10
    <3>13. r^(i + 1) * (v \div r^(i + 1)) = c
      BY <3>2, <3>6 DEF c
    <3>14. v = s[i + 1] + r^(i + 1) * (v \div r^(i + 1))
      BY <3>11, <3>12, <3>13
    <3> QED
      BY <3>9, <3>14
  <2>2. CASE ~(i + 1 <= n)
    BY <2>2
  <2> QED
    BY <2>1, <2>2
<1> HIDE DEF Z
<1>5. Nat \subseteq Z
  BY <1>3, <1>4, SetInduction
<1>6. s[n] \in Nat /\ v = s[n] + r^n * (v \div r^n)
  <2>1. n \in Z
    BY <1>0, <1>5
  <2> QED
    BY <1>0, <2>1 DEF Z
<1>7. r^n \in Nat \ {0} /\ v < r^n
  BY <1>0, <1>2 DEF n
<1>8. v \div r^n = 0
  <2> DEFINE p == r^n
  <2>1. p \in Nat \ {0} /\ v \in 0 .. p - 1
    BY <1>7
  <2> HIDE DEF p
  <2>2. v \div p = 0
    BY <2>1, SmallDivMod
  <2> QED
    BY <2>2 DEF p
<1>9. v = s[n]
  BY <1>6, <1>7, <1>8
<1> QED
  BY <1>1, <1>9

---------------------------------------------------------------------------
(* What is written and what is read of it.                                 *)

\* A fixed-width number has as many bytes as it says ...
LEMMA FixedBytes ==
    ASSUME NEW v \in Nat, NEW w \in Nat, w <= MaxDigits
    PROVE  /\ EncodeFixed(v, w) \in Seq(Nat) /\ Len(EncodeFixed(v, w)) = w
           /\ \A i \in 1 .. w : EncodeFixed(v, w)[i] = (v \div ByteRadix^(i - 1)) % ByteRadix
<1> DEFINE e(i) == (v \div ByteRadix^(i - 1)) % ByteRadix
<1>1. ASSUME NEW i \in 1 .. w PROVE e(i) \in Nat
  <2> DEFINE p == ByteRadix^(i - 1)
             q == v \div p
  <2>1. i - 1 \in 0 .. MaxDigits
    BY Widths
  <2>2. p \in Nat \ {0} /\ ByteRadix \in Nat \ {0}
    BY <2>1, Powers, Widths
  <2> HIDE DEF p
  <2>3. q \in Nat
    BY <2>2, DivMod
  <2> HIDE DEF q
  <2>4. q % ByteRadix \in 0 .. ByteRadix - 1
    BY <2>2, <2>3, DivMod
  <2> DEFINE k == q % ByteRadix
  <2>5. k \in 0 .. ByteRadix - 1
    BY <2>4
  <2> HIDE DEF k
  <2>6. k \in Nat
    BY <2>2, <2>5
  <2> QED
    BY <2>6 DEF k, q, p
<1> HIDE DEF e
<1>2. [i \in 1 .. w |-> e(i)] \in Seq(Nat) /\ Len([i \in 1 .. w |-> e(i)]) = w
  BY <1>1
<1>3. EncodeFixed(v, w) = [i \in 1 .. w |-> e(i)]
  BY DEF EncodeFixed, e
<1>4. \A i \in 1 .. w : [j \in 1 .. w |-> e(j)][i] = e(i)
  OBVIOUS
<1> QED
  BY <1>2, <1>3, <1>4 DEF e

\* ... and is read back from them, if it is not too large.
LEMMA FixedRead ==
    ASSUME NEW v \in Nat, NEW w \in Nat, w <= MaxDigits, v < ByteRadix^w
    PROVE  DecodeFixed(EncodeFixed(v, w)) = v
<1> DEFINE d == EncodeFixed(v, w)
<1>1. /\ d \in Seq(Nat) /\ Len(d) = w
      /\ \A i \in 1 .. w : d[i] = (v \div ByteRadix^(i - 1)) % ByteRadix
  BY FixedBytes
<1> HIDE DEF d
<1>2. Number(d, ByteRadix) = v
  BY <1>1, DigitsAreRead
<1> QED
  BY <1>2 DEF d, DecodeFixed

\* A 32-bit number has a varint of n bytes: n digits are enough, and fewer are not.
LEMMA VarintDigits ==
    ASSUME NEW v \in Nat, v < ByteRadix^Fixed32
    PROVE  \E n \in 1 .. MaxVarint :
             /\ v < Radix^n
             /\ \A i \in 1 .. n - 1 : v >= Radix^i
             /\ n = 1 + Cardinality({i \in 1 .. MaxVarint - 1 : v >= Radix^i})
             /\ n = VarintLength(v)
<1>0. MaxVarint \in Nat /\ MaxDigits \in Nat /\ MaxVarint <= MaxDigits
      /\ Fixed32 \in 1 .. MaxDigits
  BY Widths
<1>p. \A i \in 0 .. MaxDigits : Radix^i \in Nat /\ ByteRadix^i \in Nat
  BY Powers
<1>1. v < Radix^MaxVarint
  <2>1. ByteRadix^Fixed32 <= Radix^MaxVarint
    BY WidthsAssumption DEF ByteRadix
  <2>2. ByteRadix^Fixed32 \in Nat /\ Radix^MaxVarint \in Nat
    BY <1>0, <1>p
  <2> QED
    BY <2>1, <2>2
<1>2. MaxVarint >= 1
  <2> SUFFICES ASSUME MaxVarint = 0 PROVE FALSE
    BY <1>0
  <2>1. ByteRadix^Fixed32 <= 1
    BY WidthsAssumption, Powers DEF ByteRadix
  <2>2. ByteRadix^0 = 1 /\ 0 \in 0 .. MaxDigits /\ 1 \in 1 .. MaxDigits /\ 1 \in 0 .. MaxDigits
    BY <1>0, Powers
  <2>3. ByteRadix^0 < ByteRadix^1
    <3>1. 1 - 1 = 0
      OBVIOUS
    <3> QED
      BY <2>2, <3>1, Powers
  <2>4. ByteRadix^1 <= ByteRadix^Fixed32
    BY <1>0, <2>2, PowersGrow
  <2>5. ByteRadix^1 \in Nat /\ ByteRadix^Fixed32 \in Nat
    BY <1>0, <1>p, <2>2
  <2> QED
    BY <2>1, <2>2, <2>3, <2>4, <2>5
<1> DEFINE D == {i \in 1 .. MaxVarint - 1 : v >= Radix^i}
           E == {i \in 1 .. MaxVarint : v >= Radix^i}
           n == 1 + Cardinality(D)
<1>3. D = E
  <2>1. \A i \in 1 .. MaxVarint : i \in 1 .. MaxVarint - 1 \/ i = MaxVarint
    BY <1>0
  <2>2. \A i \in 1 .. MaxVarint - 1 : i \in 1 .. MaxVarint
    BY <1>0
  <2>3. ~(v >= Radix^MaxVarint)
    BY <1>0, <1>1, <1>p
  <2> QED
    BY <2>1, <2>2, <2>3
<1>4. \A i \in D : 1 .. i \subseteq D
  <2> SUFFICES ASSUME NEW i \in D, NEW j \in 1 .. i PROVE j \in D
    OBVIOUS
  <2>1. i \in 1 .. MaxVarint - 1 /\ v >= Radix^i
    OBVIOUS
  <2>2. j \in 0 .. MaxDigits /\ i \in 0 .. MaxDigits /\ j <= i /\ j \in 1 .. MaxVarint - 1
    BY <1>0, <2>1
  <2>3. Radix^j <= Radix^i
    BY <2>2, PowersGrow
  <2>4. v >= Radix^j
    BY <1>p, <2>1, <2>2, <2>3
  <2> QED
    BY <2>2, <2>4
<1>5. Cardinality(D) \in 0 .. MaxVarint - 1 /\ D = 1 .. Cardinality(D)
  <2>1. MaxVarint - 1 \in Nat /\ D \in SUBSET (1 .. MaxVarint - 1)
    BY <1>0, <1>2
  <2> HIDE DEF D
  <2> QED
    BY <1>4, <2>1, FirstIndices
<1>6. n \in 1 .. MaxVarint /\ D = 1 .. n - 1
  BY <1>0, <1>5
<1>7. n = VarintLength(v)
  BY <1>3 DEF VarintLength
<1> HIDE DEF n
<1>8. v < Radix^n
  <2>1. CASE n = MaxVarint
    BY <1>1, <2>1
  <2>2. CASE n # MaxVarint
    <3>1. n \in 1 .. MaxVarint - 1 /\ n \notin 1 .. n - 1 /\ n \in 0 .. MaxDigits
      BY <1>0, <1>6, <2>2
    <3>2. ~(v >= Radix^n)
      BY <1>6, <3>1
    <3> QED
      BY <1>p, <3>1, <3>2
  <2> QED
    BY <2>1, <2>2
<1>9. \A i \in 1 .. n - 1 : v >= Radix^i
  BY <1>6
<1> QED
  BY <1>6, <1>7, <1>8, <1>9 DEF n

\* What a varint is: its last byte is below Radix and the others are not.
IsVarint(e, v, n) ==
    /\ e \in Seq(Nat) /\ Len(e) = n
    /\ n \in 1 .. MaxVarint /\ n = VarintLength(v) /\ v < Radix^n
    /\ \A i \in 1 .. n : e[i] % Radix = (v \div Radix^(i - 1)) % Radix
    /\ \A i \in 1 .. n - 1 : e[i] >= Radix
    /\ e[n] < Radix

(* EncodeVarint32 writes one.                                              *)
LEMMA VarintBytes ==
    ASSUME NEW v \in Nat, v < ByteRadix^Fixed32
    PROVE  \E n \in Nat : IsVarint(EncodeVarint32(v), v, n)
<1>1. PICK n \in 1 .. MaxVarint :
             /\ v < Radix^n
             /\ \A i \in 1 .. n - 1 : v >= Radix^i
             /\ n = 1 + Cardinality({i \in 1 .. MaxVarint - 1 : v >= Radix^i})
             /\ n = VarintLength(v)
  BY VarintDigits
<1>0. /\ MaxVarint \in Nat /\ n \in Nat /\ n <= MaxDigits /\ MaxDigits \in Nat
      /\ Radix \in Nat \ {0}
  BY Widths
<1> DEFINE q(i) == v \div Radix^(i - 1)
           e(i) == IF i < n THEN Radix + (q(i) % Radix) ELSE q(i)
           s == [i \in 1 .. n |-> e(i)]
<1>2. EncodeVarint32(v) = s
  BY <1>1, Zenon DEF EncodeVarint32
<1>3. ASSUME NEW i \in 1 .. n PROVE q(i) \in Nat
  <2>1. i - 1 \in 0 .. MaxDigits
    BY <1>0
  <2> DEFINE p == Radix^(i - 1)
  <2>2. p \in Nat \ {0}
    BY <2>1, Powers
  <2> HIDE DEF p
  <2>3. v \div p \in Nat
    BY <2>2, DivMod
  <2> QED
    BY <2>3 DEF p
<1>4. q(n) < Radix
  <2> DEFINE p == Radix^(n - 1)
             t == Radix^n
             z == v \div p
             y == v % p
  <2>1. n - 1 \in 0 .. MaxDigits /\ n \in 1 .. MaxDigits
    BY <1>0
  <2>2. p \in Nat \ {0} /\ t = Radix * p /\ v < t
    BY <1>1, <2>1, Powers
  <2> HIDE DEF p, t
  <2>3. z \in Nat /\ y \in 0 .. p - 1 /\ v = (p * z) + y
    BY <2>2, DivMod
  <2> HIDE DEF z, y
  <2>4. ASSUME ~(z < Radix) PROVE FALSE
    <3>1. PICK d \in Nat : z = Radix + d
      <4>1. z - Radix \in Nat /\ z = Radix + (z - Radix)
        BY <1>0, <2>3, <2>4
      <4> QED
        BY <4>1
    <3>2. p * z = (Radix * p) + (p * d) /\ p * d \in Nat /\ Radix * p \in Nat
      BY <1>0, <2>2, <3>1
    <3> QED
      BY <2>2, <2>3, <3>2
  <2> QED
    BY <2>4 DEF z, p
<1> HIDE DEF q
<1>m. ASSUME NEW i \in 1 .. n
      PROVE  /\ e(i) \in Nat /\ e(i) % Radix = q(i) % Radix
             /\ i < n => e(i) >= Radix
  <2> DEFINE z == q(i)
             k == z % Radix
             h == z \div Radix
  <2>1. z \in Nat
    BY <1>3
  <2>2. i = n => z < Radix
    BY <1>4
  <2> HIDE DEF z
  <2>3. h \in Nat /\ k \in 0 .. Radix - 1 /\ z = (Radix * h) + k
    BY <1>0, <2>1, DivMod
  <2> HIDE DEF k, h
  <2>4. CASE i < n
    <3>1. e(i) = Radix + k
      BY <2>4 DEF k, z
    <3>2. Radix + k = (Radix * 1) + k
      BY <1>0, <2>3
    <3>3. e(i) % Radix = k
      <4> DEFINE x == e(i)
      <4>1. x = (Radix * 1) + k /\ 1 \in Nat
        BY <3>1, <3>2
      <4> HIDE DEF x
      <4>2. x % Radix = k
        BY <1>0, <2>3, <4>1, DivModAre
      <4> QED
        BY <4>2 DEF x
    <3>4. e(i) \in Nat /\ e(i) >= Radix
      BY <1>0, <2>3, <3>1
    <3> QED
      BY <3>3, <3>4 DEF k, z
  <2>5. CASE ~(i < n)
    <3>1. e(i) = z
      BY <2>5 DEF z
    <3> QED
      BY <2>1, <2>5, <3>1 DEF z
  <2> QED
    BY <2>4, <2>5
<1>5. e(n) = q(n)
  BY <1>0
<1> HIDE DEF e
<1>6. s \in Seq(Nat) /\ Len(s) = n /\ \A i \in 1 .. n : s[i] = e(i)
  BY <1>0, <1>m
<1> HIDE DEF s
<1>7. /\ \A i \in 1 .. n : s[i] % Radix = (v \div Radix^(i - 1)) % Radix
      /\ \A i \in 1 .. n - 1 : s[i] >= Radix
      /\ s[n] < Radix
  <2>1. \A i \in 1 .. n : s[i] % Radix = (v \div Radix^(i - 1)) % Radix
    BY <1>6, <1>m DEF q
  <2>2. \A i \in 1 .. n - 1 : i \in 1 .. n /\ i < n
    BY <1>0
  <2>3. \A i \in 1 .. n - 1 : s[i] >= Radix
    BY <1>6, <1>m, <2>2
  <2>4. n \in 1 .. n
    BY <1>0
  <2> QED
    BY <1>4, <1>5, <1>6, <2>1, <2>3, <2>4
<1>8. IsVarint(s, v, n)
  BY <1>1, <1>6, <1>7 DEF IsVarint
<1> QED
  BY <1>0, <1>2, <1>8

\* A varint is read back from its bytes, and what is behind them is left.
LEMMA VarintRead ==
    ASSUME NEW v \in Nat, v < ByteRadix^Fixed32, NEW rest \in Seq(Nat)
    PROVE  GetVarint32(EncodeVarint32(v) \o rest) = [ok |-> TRUE, value |-> v, rest |-> rest]
<1> DEFINE e == EncodeVarint32(v)
           input == e \o rest
<1>1. PICK n \in Nat : IsVarint(e, v, n)
  BY VarintBytes
<1>e. /\ e \in Seq(Nat) /\ Len(e) = n /\ n \in 1 .. MaxVarint /\ v < Radix^n
      /\ \A i \in 1 .. n : e[i] % Radix = (v \div Radix^(i - 1)) % Radix
      /\ \A i \in 1 .. n - 1 : e[i] >= Radix
      /\ e[n] < Radix
  BY <1>1 DEF IsVarint
<1>w. Radix \in Nat \ {0} /\ MaxVarint \in Nat /\ MaxDigits \in Nat /\ MaxVarint <= MaxDigits
  BY Widths
<1> HIDE DEF e
<1>2. /\ input \in Seq(Nat) /\ Len(rest) \in Nat /\ Len(input) = n + Len(rest)
      /\ \A i \in 1 .. n : input[i] = e[i]
  BY <1>e, Joined
<1>r. SubSeq(input, n + 1, Len(input)) = rest
  BY <1>e, Apart
<1> HIDE DEF input
<1> DEFINE C == {i \in 1 .. Len(input) : \A j \in 1 .. i : input[j] >= Radix}
           digits == [i \in 1 .. n |-> input[i] % Radix]
<1>3. C = 1 .. n - 1
  <2>1. ASSUME NEW i \in C PROVE i \in 1 .. n - 1
    <3>1. CASE i >= n
      <4>1. n \in 1 .. i /\ n \in 1 .. n
        BY <1>2, <1>e, <3>1
      <4>2. input[n] >= Radix /\ input[n] = e[n]
        BY <1>2, <4>1
      <4>3. e[n] \in Nat
        BY <1>e, <4>1, ElementOfSeq
      <4> QED
        BY <1>e, <1>w, <4>2, <4>3
    <3>2. CASE ~(i >= n)
      BY <3>2
    <3> QED
      BY <3>1, <3>2
  <2>2. ASSUME NEW i \in 1 .. n - 1 PROVE i \in C
    <3>1. i \in 1 .. Len(input) /\ \A j \in 1 .. i : j \in 1 .. n - 1 /\ j \in 1 .. n
      BY <1>2
    <3> QED
      BY <1>2, <1>e, <3>1
  <2> QED
    BY <2>1, <2>2
<1>4. Cardinality(C) = n - 1
  <2>1. 1 \in Int /\ n - 1 \in Int
    OBVIOUS
  <2>2. Cardinality(1 .. n - 1) = n - 1
    BY <1>e, <2>1, FS_Interval
  <2> QED
    BY <1>3, <2>2
<1>5. 1 + Cardinality(C) = n
  BY <1>4
<1> HIDE DEF C
<1>6. digits \in Seq(Nat) /\ Len(digits) = n
      /\ \A i \in 1 .. n : digits[i] = (v \div Radix^(i - 1)) % Radix
  <2>1. ASSUME NEW i \in 1 .. n
        PROVE  input[i] % Radix \in Nat /\ input[i] % Radix = (v \div Radix^(i - 1)) % Radix
    <3> DEFINE x == e[i]
               k == x % Radix
    <3>1. x \in Nat
      BY <1>e, ElementOfSeq
    <3> HIDE DEF x
    <3>2. k \in 0 .. Radix - 1
      BY <1>w, <3>1, DivMod
    <3> HIDE DEF k
    <3>3. k \in Nat
      BY <1>w, <3>2
    <3> QED
      BY <1>2, <1>e, <3>3 DEF k, x
  <2> QED
    BY <2>1
<1> HIDE DEF digits
<1>7. Number(digits, Radix) = v
  <2>1. n <= MaxDigits
    BY <1>e, <1>w
  <2> QED
    BY <1>6, <1>e, <2>1, DigitsAreRead
<1>8. v % ByteRadix^Fixed32 = v
  <2> DEFINE p == ByteRadix^Fixed32
  <2>1. p \in Nat \ {0} /\ v \in 0 .. p - 1
    <3>1. Fixed32 \in 0 .. MaxDigits
      BY Widths
    <3>2. p \in Nat \ {0}
      BY <3>1, Powers
    <3>3. v < p
      OBVIOUS
    <3> HIDE DEF p
    <3> QED
      BY <3>2, <3>3
  <2> HIDE DEF p
  <2>2. v % p = v
    BY <2>1, SmallDivMod
  <2> QED
    BY <2>2 DEF p
<1>9. ~(n > Len(input) \/ n > MaxVarint)
  BY <1>2, <1>e, <1>w
<1>10. GetVarint32(input) = IF n > Len(input) \/ n > MaxVarint THEN Refused(input)
           ELSE [ok |-> TRUE, value |-> Number(digits, Radix) % ByteRadix^Fixed32,
                 rest |-> SubSeq(input, n + 1, Len(input))]
  BY <1>5, Zenon DEF GetVarint32, C, digits
<1>11. GetVarint32(input) = [ok |-> TRUE, value |-> v, rest |-> rest]
  BY <1>7, <1>8, <1>9, <1>10, <1>r
<1> QED
  BY <1>11 DEF input, e

\* A varint that is cut off is refused.
LEMMA VarintCut ==
    ASSUME NEW v \in Nat, v < ByteRadix^Fixed32, NEW c \in Nat, c < Len(EncodeVarint32(v))
    PROVE  GetVarint32(SubSeq(EncodeVarint32(v), 1, c)).ok = FALSE
<1> DEFINE e == EncodeVarint32(v)
           input == SubSeq(e, 1, c)
<1>1. PICK n \in Nat : IsVarint(e, v, n)
  BY VarintBytes
<1>e. /\ e \in Seq(Nat) /\ Len(e) = n /\ n \in 1 .. MaxVarint
      /\ \A i \in 1 .. n - 1 : e[i] >= Radix
  BY <1>1 DEF IsVarint
<1>c. c < n
  BY <1>e
<1> HIDE DEF e
<1>2. Len(input) = c /\ \A i \in 1 .. c : input[i] = e[i]
  <2>1. c <= Len(e)
    BY <1>c, <1>e
  <2> QED
    BY <1>e, <2>1, Start
<1> HIDE DEF input
<1> DEFINE C == {i \in 1 .. Len(input) : \A j \in 1 .. i : input[j] >= Radix}
<1>3. C = 1 .. c
  <2>1. ASSUME NEW i \in 1 .. c PROVE i \in C
    <3>1. i \in 1 .. Len(input) /\ \A j \in 1 .. i : j \in 1 .. n - 1 /\ j \in 1 .. c
      BY <1>2, <1>c
    <3> QED
      BY <1>2, <1>e, <3>1
  <2> QED
    BY <1>2, <2>1
<1>4. Cardinality(C) = c
  <2>1. Cardinality(1 .. c) = c
    BY FS_Interval
  <2> QED
    BY <1>3, <2>1
<1>5. 1 + Cardinality(C) > Len(input)
  BY <1>2, <1>4
<1>6. GetVarint32(input) = Refused(input)
  BY <1>5 DEF GetVarint32
<1>7. Refused(input).ok = FALSE
  BY DEF Refused
<1> QED
  BY <1>6, <1>7 DEF input, e

\* A slice is a string whose length is a 32-bit number.
IsSlice(s) == s \in Seq(Nat) /\ Len(s) < ByteRadix^Fixed32

(* What is written for a slice.                                            *)
LEMMA SliceBytes ==
    ASSUME NEW s, IsSlice(s)
    PROVE  /\ s \in Seq(Nat) /\ Len(s) \in Nat /\ Len(s) < ByteRadix^Fixed32
           /\ EncodeVarint32(Len(s)) \in Seq(Nat)
           /\ Len(EncodeVarint32(Len(s))) \in Nat
           /\ Len(EncodeVarint32(Len(s))) = VarintLength(Len(s))
           /\ Len(EncodeVarint32(Len(s))) >= 1
           /\ PutLengthPrefixedSlice(s) \in Seq(Nat)
           /\ Len(PutLengthPrefixedSlice(s)) = VarintLength(Len(s)) + Len(s)
           /\ Len(PutLengthPrefixedSlice(s)) \in Nat
<1> DEFINE n == Len(s)
           e == EncodeVarint32(n)
<1>1. s \in Seq(Nat) /\ n \in Nat /\ n < ByteRadix^Fixed32
  BY LenProperties DEF IsSlice
<1> HIDE DEF n
<1>2. PICK k \in Nat : IsVarint(e, n, k)
  BY <1>1, VarintBytes
<1> HIDE DEF e
<1>3. e \in Seq(Nat) /\ Len(e) = k /\ k = VarintLength(n) /\ k >= 1
  BY <1>2, Widths DEF IsVarint
<1>4. e \o s \in Seq(Nat) /\ Len(e \o s) = k + Len(s) /\ k + Len(s) \in Nat
  BY <1>1, <1>3, Joined
<1> QED
  BY <1>1, <1>3, <1>4 DEF PutLengthPrefixedSlice, e, n

\* A slice is read back, and what is behind it is left.
LEMMA SliceRead ==
    ASSUME NEW s, IsSlice(s), NEW rest \in Seq(Nat)
    PROVE  GetLengthPrefixedSlice(PutLengthPrefixedSlice(s) \o rest)
             = [ok |-> TRUE, value |-> s, rest |-> rest]
<1> DEFINE n == Len(s)
           e == EncodeVarint32(n)
           t == s \o rest
           input == e \o t
           len == GetVarint32(input)
<1>1. s \in Seq(Nat) /\ n \in Nat /\ n < ByteRadix^Fixed32 /\ e \in Seq(Nat)
  BY SliceBytes
<1>2. PutLengthPrefixedSlice(s) \o rest = input
  <2>1. PutLengthPrefixedSlice(s) = e \o s
    BY DEF PutLengthPrefixedSlice
  <2>2. e \in Seq(Nat) /\ s \in Seq(Nat) /\ rest \in Seq(Nat)
    BY <1>1
  <2> HIDE DEF e
  <2>3. (e \o s) \o rest = e \o (s \o rest)
    BY <2>2, Joints
  <2> QED
    BY <2>1, <2>3
<1>3. t \in Seq(Nat) /\ Len(t) = n + Len(rest) /\ Len(rest) \in Nat
      /\ SubSeq(t, 1, n) = s /\ SubSeq(t, n + 1, Len(t)) = rest
  BY <1>1, Joined, Apart
<1> HIDE DEF n, t
<1>4. len = [ok |-> TRUE, value |-> n, rest |-> t]
  BY <1>1, <1>3, VarintRead
<1> HIDE DEF len
<1>5. len.ok /\ len.value = n /\ len.rest = t
  BY <1>4
<1>6. Len(t) >= n
  BY <1>1, <1>3
<1>7. GetLengthPrefixedSlice(input) =
        IF len.ok /\ Len(len.rest) >= len.value
        THEN [ok |-> TRUE, value |-> SubSeq(len.rest, 1, len.value),
              rest |-> SubSeq(len.rest, len.value + 1, Len(len.rest))]
        ELSE Refused(len.rest)
  BY Zenon DEF GetLengthPrefixedSlice, len
<1> HIDE DEF input
<1>8. GetLengthPrefixedSlice(input) = [ok |-> TRUE, value |-> s, rest |-> rest]
  BY <1>3, <1>5, <1>6, <1>7
<1> QED
  BY <1>2, <1>8

\* A slice that is cut off, in its length or behind it, is refused.
LEMMA SliceCut ==
    ASSUME NEW s, IsSlice(s), NEW c \in Nat, c < Len(PutLengthPrefixedSlice(s))
    PROVE  GetLengthPrefixedSlice(SubSeq(PutLengthPrefixedSlice(s), 1, c)).ok = FALSE
<1> DEFINE n == Len(s)
           e == EncodeVarint32(n)
           input == SubSeq(e \o s, 1, c)
           len == GetVarint32(input)
<1>1. s \in Seq(Nat) /\ n \in Nat /\ n < ByteRadix^Fixed32 /\ e \in Seq(Nat) /\ Len(e) \in Nat
  BY SliceBytes
<1>2. c < Len(e) + n
  <2>1. Len(e \o s) = Len(e) + n
    BY <1>1, Joined
  <2> QED
    BY <2>1 DEF PutLengthPrefixedSlice
<1>3. /\ c <= Len(e) => input = SubSeq(e, 1, c)
      /\ c >= Len(e) /\ c <= Len(e) + n => input = e \o SubSeq(s, 1, c - Len(e))
  BY <1>1, StartOfJoined
<1>4. GetLengthPrefixedSlice(input) =
        IF len.ok /\ Len(len.rest) >= len.value
        THEN [ok |-> TRUE, value |-> SubSeq(len.rest, 1, len.value),
              rest |-> SubSeq(len.rest, len.value + 1, Len(len.rest))]
        ELSE Refused(len.rest)
  BY Zenon DEF GetLengthPrefixedSlice
<1>5. ~(len.ok /\ Len(len.rest) >= len.value)
  <2>1. CASE c < Len(e)
    <3>1. input = SubSeq(e, 1, c)
      BY <1>1, <1>3, <2>1
    <3> HIDE DEF input, n
    <3>2. len.ok = FALSE
      BY <1>1, <2>1, <3>1, VarintCut
    <3> QED
      BY <3>2
  <2>2. CASE ~(c < Len(e))
    <3> DEFINE t == SubSeq(s, 1, c - Len(e))
    <3>0. c >= Len(e) /\ c <= Len(e) + n /\ c - Len(e) \in Nat /\ c - Len(e) < n
      <4> HIDE DEF n, e
      <4> QED
        BY <1>1, <1>2, <2>2
    <3>1. input = e \o t /\ c - Len(e) \in Nat /\ c - Len(e) < n
      BY <1>3, <3>0, Zenon
    <3>2. t \in Seq(Nat) /\ Len(t) = c - Len(e)
      <4>1. c - Len(e) <= Len(s)
        BY <1>1, <3>1
      <4> QED
        BY <1>1, <3>1, <4>1, Start
    <3> HIDE DEF input, t, n
    <3>3. len = [ok |-> TRUE, value |-> n, rest |-> t]
      BY <1>1, <3>1, <3>2, VarintRead
    <3>4. len.value = n /\ len.rest = t
      BY <3>3
    <3>5. ~(Len(t) >= n)
      BY <1>1, <3>1, <3>2
    <3> QED
      BY <3>4, <3>5
  <2> QED
    BY <2>1, <2>2
<1> HIDE DEF input, len
<1>6. GetLengthPrefixedSlice(input) = Refused(len.rest)
  BY <1>4, <1>5
<1>7. Refused(len.rest).ok = FALSE
  BY DEF Refused
<1> QED
  BY <1>6, <1>7 DEF input, e, n, PutLengthPrefixedSlice

---------------------------------------------------------------------------
(* Keys and entries.                                                       *)

\* An internal key is its user key and the bytes of its tag.
LEMMA KeyBytes ==
    ASSUME NEW user \in Seq(Nat), NEW seq \in Nat, NEW type \in Nat
    PROVE  LET k == InternalKey(user, seq, type) IN
           /\ k \in Seq(Nat) /\ Len(k) = Len(user) + Fixed64
           /\ ExtractUserKey(k) = user
           /\ Tag(k) = DecodeFixed(EncodeFixed(PackSequenceAndType(seq, type), Fixed64))
<1> DEFINE t == EncodeFixed(PackSequenceAndType(seq, type), Fixed64)
           k == user \o t
<1>0. Fixed64 \in Nat /\ Fixed64 <= MaxDigits /\ PackSequenceAndType(seq, type) \in Nat
  BY Widths DEF PackSequenceAndType
<1>1. t \in Seq(Nat) /\ Len(t) = Fixed64
  BY <1>0, FixedBytes
<1> HIDE DEF t
<1>2. /\ k \in Seq(Nat) /\ Len(k) = Len(user) + Len(t) /\ Len(user) \in Nat
      /\ SubSeq(k, 1, Len(user)) = user /\ SubSeq(k, Len(user) + 1, Len(k)) = t
  <2>1. k \in Seq(Nat) /\ Len(k) = Len(user) + Len(t) /\ Len(user) \in Nat
    BY <1>1, Joined
  <2>2. SubSeq(k, 1, Len(user)) = user /\ SubSeq(k, Len(user) + 1, Len(k)) = t
    BY <1>1, Apart
  <2> QED
    BY <2>1, <2>2
<1> HIDE DEF k
<1>3. Len(k) - Fixed64 = Len(user)
  BY <1>0, <1>1, <1>2
<1>4. ExtractUserKey(k) = user /\ Tag(k) = DecodeFixed(t)
  BY <1>2, <1>3 DEF ExtractUserKey, Tag
<1> QED
  BY <1>1, <1>2, <1>4 DEF k, t, InternalKey

\* The sequence number and the type are read back from a tag.
LEMMA KeyParts ==
    ASSUME NEW user \in Seq(Nat), NEW seq \in Nat, seq < ByteRadix^(Fixed64 - 1),
           NEW type \in {kTypeDeletion, kTypeValue}
    PROVE  /\ Sequence(InternalKey(user, seq, type)) = seq
           /\ Type(InternalKey(user, seq, type)) = type
<1> DEFINE x == PackSequenceAndType(seq, type)
           k == InternalKey(user, seq, type)
           p == ByteRadix^(Fixed64 - 1)
           t == ByteRadix^Fixed64
<1>0. type \in Nat /\ ByteRadix \in Nat \ {0} /\ type \in 0 .. ByteRadix - 1
      /\ Fixed64 \in 1 .. MaxDigits /\ Fixed64 \in Nat /\ Fixed64 <= MaxDigits
  BY Widths DEF kTypeDeletion, kTypeValue
<1>1. x = (ByteRadix * seq) + type /\ x \in Nat
  BY <1>0 DEF PackSequenceAndType
<1> HIDE DEF x
<1>2. t = ByteRadix * p /\ p \in Nat /\ t \in Nat
  <2>1. Fixed64 - 1 \in 0 .. MaxDigits /\ Fixed64 \in 0 .. MaxDigits
    BY <1>0, Widths
  <2> QED
    BY <1>0, <2>1, Powers
<1>3. seq < p
  OBVIOUS
<1> HIDE DEF p, t
<1>4. x < t
  <2>1. PICK d \in Nat : p = seq + 1 + d
    <3>1. p - seq - 1 \in Nat /\ p = seq + 1 + (p - seq - 1)
      BY <1>2, <1>3
    <3> QED
      BY <3>1
  <2>2. t = (ByteRadix * seq) + ByteRadix + (ByteRadix * d)
        /\ ByteRadix * d \in Nat /\ ByteRadix * seq \in Nat
    BY <1>0, <1>2, <2>1
  <2> QED
    BY <1>0, <1>1, <2>2
<1>5. DecodeFixed(EncodeFixed(x, Fixed64)) = x
  BY <1>0, <1>1, <1>4, FixedRead DEF t
<1>6. Tag(k) = x
  BY <1>0, <1>5, KeyBytes DEF x
<1>7. x \div ByteRadix = seq /\ x % ByteRadix = type
  <2>1. ByteRadix \in Nat \ {0} /\ seq \in Nat /\ type \in 0 .. ByteRadix - 1
    BY <1>0
  <2>2. x = (ByteRadix * seq) + type
    BY <1>0, <1>1
  <2> HIDE DEF x
  <2> QED
    BY <2>1, <2>2, DivModAre
<1> QED
  BY <1>6, <1>7 DEF Sequence, Type

\* The strings that clients use.
LEMMA Slices ==
    /\ \A u \in UserKeys : IsSlice(u) /\ Len(u) + Fixed64 < ByteRadix^Fixed32
    /\ \A v \in Values \cup {<< >>} : IsSlice(v)
<1>1. ASSUME NEW s \in UserKeys \cup Values
      PROVE  IsSlice(s) /\ Len(s) + Fixed64 < ByteRadix^Fixed32
  <2>1. s \in Seq(0 .. ByteRadix - 1)
    BY SlicesAssumption
  <2>2. s \in Seq(Nat) /\ Len(s) \in Nat
    <3>1. Len(s) \in Nat /\ s \in [1 .. Len(s) -> 0 .. ByteRadix - 1]
      BY <2>1, LenProperties
    <3>2. \A i \in 1 .. Len(s) : s[i] \in Nat
      BY <3>1, Widths
    <3> QED
      BY <2>1, <3>1, <3>2
  <2>3. Len(s) + Fixed64 < ByteRadix^Fixed32
    BY LengthsAssumption
  <2>4. ByteRadix^Fixed32 \in Nat /\ Fixed64 \in Nat
    <3>1. Fixed32 \in 0 .. MaxDigits /\ Fixed64 \in Nat
      BY Widths
    <3> QED
      BY <3>1, Powers
  <2>5. Len(s) < ByteRadix^Fixed32
    BY <2>2, <2>3, <2>4
  <2> QED
    BY <2>2, <2>3, <2>5 DEF IsSlice
<1>2. IsSlice(<< >>)
  <2>1. << >> \in Seq(Nat) /\ Len(<< >>) = 0
    BY EmptySeq
  <2>2. ByteRadix^Fixed32 \in Nat \ {0}
    <3>1. Fixed32 \in 0 .. MaxDigits
      BY Widths
    <3> QED
      BY <3>1, Powers
  <2>3. 0 < ByteRadix^Fixed32
    BY <2>2
  <2> QED
    BY <2>1, <2>3 DEF IsSlice
<1> QED
  BY <1>1, <1>2

\* The user key and the sequence number of an entry.
User(e) == ExtractUserKey(KeyOf(e))
Number_(e) == Sequence(KeyOf(e))

\* e is what Add writes for these.
IsEntry(e, seq, type, user, value) ==
    /\ e = Entry(seq, type, user, value)
    /\ seq \in Nat /\ seq < ByteRadix^(Fixed64 - 1)
    /\ type \in {kTypeDeletion, kTypeValue}
    /\ user \in UserKeys
    /\ value \in Values \cup {<< >>}

\* What was put into an entry is read back from it, and it has as many bytes as
\* Add allocated.
LEMMA EntryParts ==
    ASSUME NEW e, NEW seq, NEW type, NEW user, NEW value, IsEntry(e, seq, type, user, value)
    PROVE  /\ e \in Seq(Nat) /\ user \in Seq(Nat)
           /\ User(e) = user /\ Number_(e) = seq
           /\ Type(KeyOf(e)) = type /\ ValueOf(e) = value
           /\ Len(e) = EncodedLen(user, value)
<1> DEFINE k == InternalKey(user, seq, type)
           kp == PutLengthPrefixedSlice(k)
           vp == PutLengthPrefixedSlice(value)
<1>0. /\ e = kp \o vp
      /\ seq \in Nat /\ seq < ByteRadix^(Fixed64 - 1)
      /\ type \in {kTypeDeletion, kTypeValue} /\ type \in Nat
      /\ IsSlice(user) /\ user \in Seq(Nat) /\ Len(user) + Fixed64 < ByteRadix^Fixed32
      /\ IsSlice(value)
  BY Slices DEF IsEntry, Entry, IsSlice, kTypeDeletion, kTypeValue
<1>1. k \in Seq(Nat) /\ Len(k) = Len(user) + Fixed64 /\ ExtractUserKey(k) = user
  BY <1>0, KeyBytes
<1>2. Sequence(k) = seq /\ Type(k) = type
  BY <1>0, KeyParts
<1> HIDE DEF k
<1>3. IsSlice(k)
  BY <1>0, <1>1 DEF IsSlice
<1>4. /\ kp \in Seq(Nat) /\ Len(kp) = VarintLength(Len(k)) + Len(k)
      /\ vp \in Seq(Nat) /\ Len(vp) = VarintLength(Len(value)) + Len(value)
  BY <1>0, <1>3, SliceBytes
<1>n. /\ VarintLength(Len(k)) \in Nat /\ Len(k) \in Nat
      /\ VarintLength(Len(value)) \in Nat /\ Len(value) \in Nat
  BY <1>0, <1>3, SliceBytes
<1>5. GetLengthPrefixedSlice(kp \o vp) = [ok |-> TRUE, value |-> k, rest |-> vp]
  BY <1>3, <1>4, SliceRead
<1>6. GetLengthPrefixedSlice(vp) = [ok |-> TRUE, value |-> value, rest |-> << >>]
  <2>1. vp \o << >> = vp /\ << >> \in Seq(Nat)
    BY <1>4, ConcatEmptySeq, EmptySeq
  <2>2. GetLengthPrefixedSlice(vp \o << >>) = [ok |-> TRUE, value |-> value, rest |-> << >>]
    BY <1>0, <2>1, SliceRead
  <2> QED
    BY <2>1, <2>2
<1>7. e \in Seq(Nat) /\ Len(e) = Len(kp) + Len(vp)
  BY <1>0, <1>4, Joined
<1> HIDE DEF kp, vp
<1>8. GetLengthPrefixedSlice(e).value = k /\ GetLengthPrefixedSlice(e).rest = vp
  BY <1>0, <1>5
<1>9. KeyOf(e) = k /\ ValueOf(e) = value
  BY <1>6, <1>8 DEF KeyOf, ValueOf
<1>10. Len(e) = EncodedLen(user, value)
  <2> DEFINE size == Len(user) + Fixed64
             a == VarintLength(size)
             b == VarintLength(Len(value))
             c == Len(value)
  <2>1. Len(kp) = a + size /\ Len(vp) = b + c /\ a \in Nat /\ b \in Nat /\ c \in Nat /\ size \in Nat
    BY <1>1, <1>4, <1>n
  <2>2. EncodedLen(user, value) = a + size + b + c
    BY DEF EncodedLen
  <2> HIDE DEF a, b, c, size
  <2> QED
    BY <1>7, <2>1, <2>2
<1> QED
  BY <1>0, <1>1, <1>2, <1>7, <1>9, <1>10 DEF User, Number_

\* A lookup's key has the user key that is looked up.
LEMMA LookupParts ==
    ASSUME NEW user \in UserKeys, NEW seq \in Nat
    PROVE  user \in Seq(Nat) /\ User(LookupKey(user, seq)) = user
<1> DEFINE k == InternalKey(user, seq, kValueTypeForSeek)
           kp == PutLengthPrefixedSlice(k)
<1>0. /\ user \in Seq(Nat) /\ Len(user) + Fixed64 < ByteRadix^Fixed32
      /\ kValueTypeForSeek \in Nat
  BY Slices DEF IsSlice, kValueTypeForSeek, kTypeValue
<1>1. k \in Seq(Nat) /\ Len(k) = Len(user) + Fixed64 /\ ExtractUserKey(k) = user
  BY <1>0, KeyBytes
<1> HIDE DEF k
<1>2. IsSlice(k)
  BY <1>0, <1>1 DEF IsSlice
<1>3. kp \in Seq(Nat) /\ kp \o << >> = kp /\ << >> \in Seq(Nat)
  BY <1>2, SliceBytes, ConcatEmptySeq, EmptySeq
<1>4. GetLengthPrefixedSlice(kp \o << >>) = [ok |-> TRUE, value |-> k, rest |-> << >>]
  BY <1>2, <1>3, SliceRead
<1>5. KeyOf(kp) = k
  BY <1>3, <1>4 DEF KeyOf
<1> QED
  BY <1>0, <1>1, <1>5 DEF User, LookupKey, k

---------------------------------------------------------------------------
(* The order of strings.                                                   *)

\* a is before b at place n + 1.
FirstDiffers(a, b, n) ==
    /\ n \in Nat /\ n <= Len(a) /\ n < Len(b)
    /\ \A i \in 1 .. n : a[i] = b[i]
    /\ n = Len(a) \/ a[n + 1] < b[n + 1]

(* Precedes is being before at some place.                                 *)
LEMMA PrecedesIs ==
    ASSUME NEW a \in Seq(Nat), NEW b \in Seq(Nat)
    PROVE  Precedes(a, b) <=> \E n \in Nat : FirstDiffers(a, b, n)
<1>0. Len(a) \in Nat /\ Len(b) \in Nat
  BY LenProperties
<1>1. ASSUME NEW n \in Nat, n <= Len(a), n <= Len(b)
      PROVE  SubSeq(a, 1, n) = SubSeq(b, 1, n) <=> \A i \in 1 .. n : a[i] = b[i]
  <2>1. /\ SubSeq(a, 1, n) \in Seq(Nat) /\ Len(SubSeq(a, 1, n)) = n
        /\ \A i \in 1 .. n : SubSeq(a, 1, n)[i] = a[i]
    BY <1>1, Start
  <2>2. /\ SubSeq(b, 1, n) \in Seq(Nat) /\ Len(SubSeq(b, 1, n)) = n
        /\ \A i \in 1 .. n : SubSeq(b, 1, n)[i] = b[i]
    BY <1>1, Start
  <2>3. ASSUME \A i \in 1 .. n : a[i] = b[i] PROVE SubSeq(a, 1, n) = SubSeq(b, 1, n)
    <3>1. \A i \in 1 .. n : SubSeq(a, 1, n)[i] = SubSeq(b, 1, n)[i]
      BY <2>1, <2>2, <2>3
    <3> QED
      BY <2>1, <2>2, <3>1, SeqEqual
  <2>4. ASSUME SubSeq(a, 1, n) = SubSeq(b, 1, n) PROVE \A i \in 1 .. n : a[i] = b[i]
    BY <2>1, <2>2, <2>4
  <2> QED
    BY <2>3, <2>4
<1>2. ASSUME Precedes(a, b) PROVE \E n \in Nat : FirstDiffers(a, b, n)
  <2>1. PICK n \in 0 .. Len(a) : /\ n < Len(b)
                                 /\ SubSeq(a, 1, n) = SubSeq(b, 1, n)
                                 /\ n = Len(a) \/ a[n + 1] < b[n + 1]
    BY <1>2 DEF Precedes
  <2>2. n \in Nat /\ n <= Len(a) /\ n <= Len(b)
    BY <1>0, <2>1
  <2> QED
    BY <1>1, <2>1, <2>2 DEF FirstDiffers
<1>3. ASSUME NEW n \in Nat, FirstDiffers(a, b, n) PROVE Precedes(a, b)
  <2>1. n \in 0 .. Len(a) /\ n <= Len(b) /\ n <= Len(a)
    BY <1>0, <1>3 DEF FirstDiffers
  <2>2. SubSeq(a, 1, n) = SubSeq(b, 1, n)
    BY <1>1, <1>3, <2>1 DEF FirstDiffers
  <2> QED
    BY <1>3, <2>1, <2>2 DEF FirstDiffers, Precedes
<1> QED
  BY <1>2, <1>3

\* No string precedes itself.
LEMMA PrecedesIrreflexive ==
    ASSUME NEW a \in Seq(Nat)
    PROVE  ~Precedes(a, a)
<1> SUFFICES ASSUME NEW n \in Nat, FirstDiffers(a, a, n) PROVE FALSE
  BY PrecedesIs
<1>1. Len(a) \in Nat /\ \A i \in 1 .. Len(a) : a[i] \in Nat
  BY LenProperties, ElementOfSeq
<1>2. n + 1 \in 1 .. Len(a) /\ (n = Len(a) \/ a[n + 1] < a[n + 1]) /\ n < Len(a)
  BY <1>1 DEF FirstDiffers
<1>3. a[n + 1] \in Nat
  BY <1>1, <1>2
<1> QED
  BY <1>1, <1>2, <1>3

\* A string that precedes one precedes what that one precedes.
LEMMA PrecedesTransitive ==
    ASSUME NEW a \in Seq(Nat), NEW b \in Seq(Nat), NEW c \in Seq(Nat),
           Precedes(a, b), Precedes(b, c)
    PROVE  Precedes(a, c)
<1>0. /\ Len(a) \in Nat /\ \A i \in 1 .. Len(a) : a[i] \in Nat
      /\ Len(b) \in Nat /\ \A i \in 1 .. Len(b) : b[i] \in Nat
      /\ Len(c) \in Nat /\ \A i \in 1 .. Len(c) : c[i] \in Nat
  BY LenProperties, ElementOfSeq
<1>1. PICK m \in Nat : FirstDiffers(a, b, m)
  BY PrecedesIs
<1>2. PICK n \in Nat : FirstDiffers(b, c, n)
  BY PrecedesIs
<1>m. /\ m <= Len(a) /\ m < Len(b) /\ \A i \in 1 .. m : a[i] = b[i]
      /\ m = Len(a) \/ a[m + 1] < b[m + 1]
  BY <1>1 DEF FirstDiffers
<1>n. /\ n <= Len(b) /\ n < Len(c) /\ \A i \in 1 .. n : b[i] = c[i]
      /\ n = Len(b) \/ b[n + 1] < c[n + 1]
  BY <1>2 DEF FirstDiffers
<1>3. CASE m < n
  <2>1. m + 1 \in 1 .. n /\ \A i \in 1 .. m : i \in 1 .. n
    BY <1>3
  <2>2. m < Len(c) /\ \A i \in 1 .. m : a[i] = c[i]
    <3>1. m < Len(c)
      BY <1>0, <1>3, <1>n
    <3>2. \A i \in 1 .. m : a[i] = c[i]
      BY <1>m, <1>n, <2>1
    <3> QED
      BY <3>1, <3>2
  <2>3. b[m + 1] = c[m + 1]
    BY <1>n, <2>1
  <2>4. FirstDiffers(a, c, m)
    BY <1>m, <2>2, <2>3 DEF FirstDiffers
  <2> QED
    BY <2>4, PrecedesIs
<1>4. CASE n < m
  <2>1. n + 1 \in 1 .. m /\ \A i \in 1 .. n : i \in 1 .. m
    BY <1>4
  <2>2. n <= Len(a) /\ \A i \in 1 .. n : a[i] = c[i]
    <3>1. n <= Len(a)
      BY <1>0, <1>4, <1>m
    <3>2. \A i \in 1 .. n : a[i] = c[i]
      BY <1>m, <1>n, <2>1
    <3> QED
      BY <3>1, <3>2
  <2>3. a[n + 1] = b[n + 1] /\ n # Len(b)
    BY <1>0, <1>m, <1>4, <2>1
  <2>4. FirstDiffers(a, c, n)
    BY <1>n, <2>2, <2>3 DEF FirstDiffers
  <2> QED
    BY <2>4, PrecedesIs
<1>5. CASE m = n
  <2>1. \A i \in 1 .. n : a[i] = c[i]
    BY <1>5, <1>m, <1>n
  <2>2. n = Len(a) \/ a[n + 1] < c[n + 1]
    <3> SUFFICES ASSUME n # Len(a) PROVE a[n + 1] < c[n + 1]
      OBVIOUS
    <3>1. n + 1 \in 1 .. Len(a) /\ n + 1 \in 1 .. Len(b) /\ n + 1 \in 1 .. Len(c) /\ n # Len(b)
      <4>1. Len(a) \in Nat /\ Len(b) \in Nat /\ Len(c) \in Nat
        BY <1>0
      <4>2. n <= Len(a) /\ n < Len(b) /\ n < Len(c)
        BY <1>5, <1>m, <1>n
      <4> QED
        BY <4>1, <4>2
    <3>2. a[n + 1] < b[n + 1] /\ b[n + 1] < c[n + 1]
      BY <1>5, <1>m, <1>n, <3>1
    <3>3. a[n + 1] \in Nat /\ b[n + 1] \in Nat /\ c[n + 1] \in Nat
      BY <1>0, <3>1
    <3> QED
      BY <3>2, <3>3
  <2>3. FirstDiffers(a, c, n)
    BY <1>5, <1>m, <1>n, <2>1, <2>2 DEF FirstDiffers
  <2> QED
    BY <2>3, PrecedesIs
<1> QED
  BY <1>3, <1>4, <1>5

\* What Common counts: c places, behind which the strings differ or one ends.
LEMMA CommonIs ==
    ASSUME NEW a \in Seq(Nat), NEW b \in Seq(Nat)
    PROVE  \E c \in Nat :
             /\ c = Common(a, b) /\ c <= Len(a) /\ c <= Len(b)
             /\ \A i \in 1 .. c : a[i] = b[i]
             /\ c < Len(a) /\ c < Len(b) => a[c + 1] # b[c + 1]
<1>0. Len(a) \in Nat /\ Len(b) \in Nat
  BY LenProperties
<1> DEFINE D == {i \in 1 .. Len(a) : i <= Len(b) /\ \A j \in 1 .. i : a[j] = b[j]}
           c == Cardinality(D)
<1>1. \A i \in D : 1 .. i \subseteq D
  <2> SUFFICES ASSUME NEW i \in D, NEW k \in 1 .. i PROVE k \in D
    OBVIOUS
  <2>1. k \in 1 .. Len(a) /\ k <= Len(b) /\ \A j \in 1 .. k : j \in 1 .. i
    BY <1>0
  <2> QED
    BY <2>1
<1>2. c \in 0 .. Len(a) /\ D = 1 .. c
  <2>1. D \in SUBSET (1 .. Len(a))
    OBVIOUS
  <2> HIDE DEF D
  <2> QED
    BY <1>0, <1>1, <2>1, FirstIndices
<1>3. c = Common(a, b)
  BY DEF Common
<1> HIDE DEF c
<1>4. c \in Nat /\ c <= Len(a)
  BY <1>0, <1>2
<1>5. c <= Len(b) /\ \A i \in 1 .. c : a[i] = b[i]
  <2>1. CASE c = 0
    BY <1>0, <2>1
  <2>2. CASE c # 0
    <3>1. c \in 1 .. c
      BY <1>4, <2>2
    <3>2. c \in D
      BY <1>2, <3>1, Zenon
    <3> QED
      BY <3>2
  <2> QED
    BY <2>1, <2>2
<1>6. ASSUME c < Len(a), c < Len(b), a[c + 1] = b[c + 1] PROVE FALSE
  <2>1. c + 1 \in 1 .. Len(a) /\ c + 1 <= Len(b)
    BY <1>0, <1>4, <1>6
  <2>2. \A j \in 1 .. c + 1 : j \in 1 .. c \/ j = c + 1
    BY <1>4
  <2>3. \A j \in 1 .. c + 1 : a[j] = b[j]
    BY <1>5, <1>6, <2>2
  <2>4. c + 1 \in D
    BY <2>1, <2>3
  <2>5. c + 1 \in 1 .. c
    BY <1>2, <2>4, Zenon
  <2> QED
    BY <1>4, <2>5
<1> QED
  BY <1>3, <1>4, <1>5, <1>6

\* Of two strings, one precedes the other or they are equal.
LEMMA PrecedesTotal ==
    ASSUME NEW a \in Seq(Nat), NEW b \in Seq(Nat)
    PROVE  Precedes(a, b) \/ Precedes(b, a) \/ a = b
<1>0. /\ Len(a) \in Nat /\ \A i \in 1 .. Len(a) : a[i] \in Nat
      /\ Len(b) \in Nat /\ \A i \in 1 .. Len(b) : b[i] \in Nat
  BY LenProperties, ElementOfSeq
<1>1. PICK c \in Nat :
             /\ c <= Len(a) /\ c <= Len(b)
             /\ \A i \in 1 .. c : a[i] = b[i]
             /\ c < Len(a) /\ c < Len(b) => a[c + 1] # b[c + 1]
  BY CommonIs
<1>2. CASE c < Len(a) /\ c < Len(b)
  <2>1. a[c + 1] \in Nat /\ b[c + 1] \in Nat /\ a[c + 1] # b[c + 1]
    <3>1. c + 1 \in 1 .. Len(a) /\ c + 1 \in 1 .. Len(b)
      BY <1>0, <1>2
    <3> QED
      BY <1>0, <1>1, <1>2, <3>1
  <2>2. a[c + 1] < b[c + 1] \/ b[c + 1] < a[c + 1]
    BY <2>1
  <2>3. FirstDiffers(a, b, c) \/ FirstDiffers(b, a, c)
    BY <1>1, <1>2, <2>2 DEF FirstDiffers
  <2> QED
    BY <2>3, PrecedesIs
<1>3. CASE c = Len(a) /\ c < Len(b)
  <2>1. FirstDiffers(a, b, c)
    BY <1>1, <1>3 DEF FirstDiffers
  <2> QED
    BY <2>1, PrecedesIs
<1>4. CASE c = Len(b) /\ c < Len(a)
  <2>1. FirstDiffers(b, a, c)
    BY <1>1, <1>4 DEF FirstDiffers
  <2> QED
    BY <2>1, PrecedesIs
<1>5. CASE c = Len(b) /\ c = Len(a)
  <2>1. a = b
    BY <1>1, <1>5, SeqEqual
  <2> QED
    BY <2>1
<1> QED
  BY <1>0, <1>1, <1>2, <1>3, <1>4, <1>5

\* A comparison of slices is never "equal", and "before" exactly if the first
\* precedes the second.
LEMMA ComparesOrder ==
    ASSUME NEW a \in Seq(Nat), NEW b \in Seq(Nat)
    PROVE  /\ SliceCompare(a, b) # Equal
           /\ SliceCompare(a, b) = Before <=> Precedes(a, b)
<1>0. /\ Len(a) \in Nat /\ \A i \in 1 .. Len(a) : a[i] \in Nat
      /\ Len(b) \in Nat /\ \A i \in 1 .. Len(b) : b[i] \in Nat
  BY LenProperties, ElementOfSeq
<1>1. PICK c \in Nat :
             /\ c = Common(a, b) /\ c <= Len(a) /\ c <= Len(b)
             /\ \A i \in 1 .. c : a[i] = b[i]
             /\ c < Len(a) /\ c < Len(b) => a[c + 1] # b[c + 1]
  BY CommonIs
<1> DEFINE Less == IF c + 1 <= Len(a) /\ c + 1 <= Len(b) THEN a[c + 1] < b[c + 1]
                   ELSE Len(a) < Len(b)
<1>2. SliceCompare(a, b) = IF Less THEN Before ELSE After
  BY <1>1 DEF SliceCompare
<1>3. Before # Equal /\ After # Equal /\ Before # After
  BY DEF Before, Equal, After
<1>4. ASSUME Less PROVE FirstDiffers(a, b, c)
  <2>1. CASE c + 1 <= Len(a) /\ c + 1 <= Len(b)
    <3>1. c < Len(b) /\ a[c + 1] < b[c + 1]
      BY <1>0, <1>4, <2>1
    <3> QED
      BY <1>1, <3>1 DEF FirstDiffers
  <2>2. CASE ~(c + 1 <= Len(a) /\ c + 1 <= Len(b))
    <3>1. Len(a) < Len(b)
      BY <1>4, <2>2
    <3>2. c = Len(a) /\ c < Len(b)
      BY <1>0, <1>1, <2>2, <3>1
    <3> QED
      BY <1>1, <3>2 DEF FirstDiffers
  <2> QED
    BY <2>1, <2>2
<1>5. ASSUME NEW n \in Nat, FirstDiffers(a, b, n) PROVE Less
  <2>1. /\ n <= Len(a) /\ n < Len(b) /\ \A i \in 1 .. n : a[i] = b[i]
        /\ n = Len(a) \/ a[n + 1] < b[n + 1]
    BY <1>5 DEF FirstDiffers
  <2>2. CASE c < n
    <3>1. c + 1 \in 1 .. n /\ c < Len(a) /\ c < Len(b)
      BY <1>0, <2>1, <2>2
    <3> QED
      BY <1>1, <2>1, <3>1
  <2>3. CASE n < c
    <3>1. n + 1 \in 1 .. c /\ n # Len(a) /\ n + 1 \in 1 .. Len(a)
      BY <1>0, <1>1, <2>3
    <3>2. a[n + 1] = b[n + 1] /\ a[n + 1] < b[n + 1] /\ a[n + 1] \in Nat
      BY <1>0, <1>1, <2>1, <3>1
    <3> QED
      BY <3>2
  <2>4. CASE n = c
    BY <1>0, <2>1, <2>4
  <2> QED
    BY <2>2, <2>3, <2>4
<1> HIDE DEF Less
<1> QED
  BY <1>2, <1>3, <1>4, <1>5, PrecedesIs

---------------------------------------------------------------------------
(* The order of the table.                                                 *)

\* Comparing two entries compares their user keys, and only those.
LEMMA ComparesUsers ==
    ASSUME NEW x, NEW y, User(x) \in Seq(Nat), User(y) \in Seq(Nat)
    PROVE  KeyCompare(x, y) = Before <=> Precedes(User(x), User(y))
<1>1. SliceCompare(User(x), User(y)) # Equal
      /\ (SliceCompare(User(x), User(y)) = Before <=> Precedes(User(x), User(y)))
  BY ComparesOrder
<1>2. KeyCompare(x, y) = SliceCompare(User(x), User(y))
  BY <1>1 DEF KeyCompare, Compare, UserCompare, User
<1> QED
  BY <1>1, <1>2

\* n entries are before the key, and the next one is not.
Found(s, key, n) ==
    /\ n \in Nat /\ n <= Len(s)
    /\ \A j \in 1 .. n : KeyCompare(s[j], key) = Before
    /\ n < Len(s) => KeyCompare(s[n + 1], key) # Before

(* FindGreaterOrEqual stops behind them.                                   *)
LEMMA FindIs ==
    ASSUME NEW S, NEW s \in Seq(S), NEW key
    PROVE  \E n \in Nat : Found(s, key, n) /\ FindGreaterOrEqual(s, key) = n + 1
<1>0. Len(s) \in Nat
  BY LenProperties
<1> DEFINE D == {i \in 1 .. Len(s) : \A j \in 1 .. i : KeyCompare(s[j], key) = Before}
           n == Cardinality(D)
<1>1. \A i \in D : 1 .. i \subseteq D
  <2> SUFFICES ASSUME NEW i \in D, NEW k \in 1 .. i PROVE k \in D
    OBVIOUS
  <2>1. k \in 1 .. Len(s) /\ \A j \in 1 .. k : j \in 1 .. i
    BY <1>0
  <2> QED
    BY <2>1
<1>2. n \in 0 .. Len(s) /\ D = 1 .. n
  <2>1. D \in SUBSET (1 .. Len(s))
    OBVIOUS
  <2> HIDE DEF D
  <2> QED
    BY <1>0, <1>1, <2>1, FirstIndices
<1>3. FindGreaterOrEqual(s, key) = 1 + n
  BY DEF FindGreaterOrEqual
<1> HIDE DEF n
<1>4. n \in Nat /\ n <= Len(s)
  BY <1>0, <1>2
<1>5. \A i \in 1 .. n : KeyCompare(s[i], key) = Before
  <2> TAKE i \in 1 .. n
  <2>1. i \in D /\ i \in 1 .. i
    <3>1. i \in 1 .. i
      BY <1>4
    <3> QED
      BY <1>2, <3>1, Zenon
  <2> QED
    BY <2>1
<1>6. ASSUME n < Len(s), KeyCompare(s[n + 1], key) = Before PROVE FALSE
  <2>1. n + 1 \in 1 .. Len(s) /\ \A j \in 1 .. n + 1 : j \in 1 .. n \/ j = n + 1
    BY <1>0, <1>4, <1>6
  <2>2. n + 1 \in D
    BY <1>5, <1>6, <2>1
  <2>3. n + 1 \in 1 .. n
    BY <1>2, <2>2, Zenon
  <2> QED
    BY <1>4, <2>3
<1>7. Found(s, key, n) /\ FindGreaterOrEqual(s, key) = n + 1
  BY <1>3, <1>4, <1>5, <1>6 DEF Found
<1> QED
  BY <1>4, <1>7

\* t is s with e behind its first n elements.
Inserted(t, s, e, n) ==
    /\ n \in Nat /\ n <= Len(s) /\ Len(t) = Len(s) + 1
    /\ \A i \in 1 .. n : t[i] = s[i]
    /\ t[n + 1] = e
    /\ \A i \in 1 .. Len(s) - n : t[n + 1 + i] = s[n + i]

(* Insert puts the entry behind those that are before it.                  *)
LEMMA InsertIs ==
    ASSUME NEW S, NEW s \in Seq(S), NEW e \in S
    PROVE  \E n \in Nat : /\ Found(s, e, n) /\ Inserted(Insert(s, e), s, e, n)
                          /\ Insert(s, e) \in Seq(S)
<1>1. PICK n \in Nat : Found(s, e, n) /\ FindGreaterOrEqual(s, e) = n + 1
  BY FindIs
<1>0. Len(s) \in Nat /\ n <= Len(s)
  BY <1>1, LenProperties DEF Found
<1> DEFINE a == SubSeq(s, 1, n)
           b == SubSeq(s, n + 1, Len(s))
           c == a \o <<e>>
           t == c \o b
<1>2. Insert(s, e) = t
  <2>1. FindGreaterOrEqual(s, e) - 1 = n
    BY <1>1
  <2> QED
    BY <2>1 DEF Insert
<1>a. a \in Seq(S) /\ Len(a) = n /\ \A i \in 1 .. n : a[i] = s[i]
  BY <1>0, Start
<1>b. b \in Seq(S) /\ Len(b) = Len(s) - n /\ \A i \in 1 .. Len(s) - n : b[i] = s[n + i]
  BY <1>0, Part
<1>e. <<e>> \in Seq(S) /\ Len(<<e>>) = 1 /\ <<e>>[1] = e
  OBVIOUS
<1> HIDE DEF a, b
<1>c. /\ c \in Seq(S) /\ Len(c) = n + 1
      /\ \A i \in 1 .. n : c[i] = a[i]
      /\ c[n + 1] = e
  <2> DEFINE x == <<e>>
  <2>1. x \in Seq(S) /\ Len(x) = 1 /\ x[1] = e /\ 1 \in 1 .. Len(x)
    BY <1>e
  <2> HIDE DEF x
  <2>2. /\ a \o x \in Seq(S) /\ Len(a \o x) = n + 1
        /\ \A i \in 1 .. n : (a \o x)[i] = a[i]
        /\ \A i \in 1 .. Len(x) : (a \o x)[n + i] = x[i]
    <3>1. a \in Seq(S) /\ x \in Seq(S)
      BY <1>a, <2>1
    <3>2. /\ a \o x \in Seq(S) /\ Len(a \o x) = Len(a) + Len(x)
          /\ \A i \in 1 .. Len(a) : (a \o x)[i] = a[i]
          /\ \A i \in 1 .. Len(x) : (a \o x)[Len(a) + i] = x[i]
      BY <3>1, Joined
    <3>3. Len(a) = n /\ Len(x) = 1
      BY <1>a, <2>1
    <3> QED
      BY <3>2, <3>3
  <2> QED
    BY <2>1, <2>2 DEF x
<1> HIDE DEF c
<1>t. /\ t \in Seq(S) /\ Len(t) = Len(c) + Len(b)
      /\ \A i \in 1 .. Len(c) : t[i] = c[i]
      /\ \A i \in 1 .. Len(b) : t[Len(c) + i] = b[i]
  <2>1. b \in Seq(S) /\ c \in Seq(S)
    BY <1>b, <1>c
  <2> QED
    BY <2>1, Joined
<1> HIDE DEF t
<1>3. Len(t) = Len(s) + 1
  BY <1>0, <1>b, <1>c, <1>t
<1>4. \A i \in 1 .. n : t[i] = s[i]
  <2> TAKE i \in 1 .. n
  <2>1. i \in 1 .. Len(c)
    BY <1>c
  <2> QED
    BY <1>a, <1>c, <1>t, <2>1
<1>5. t[n + 1] = e
  <2>1. n + 1 \in 1 .. Len(c)
    BY <1>c
  <2> QED
    BY <1>c, <1>t, <2>1
<1>6. \A i \in 1 .. Len(s) - n : t[n + 1 + i] = s[n + i]
  BY <1>b, <1>c, <1>t
<1>7. Inserted(t, s, e, n)
  BY <1>0, <1>3, <1>4, <1>5, <1>6 DEF Inserted
<1> QED
  BY <1>1, <1>2, <1>7, <1>t

\* In the order that NewestFirst states, and in which place the entries of a
\* table are.
InOrder(x, y) ==
    Precedes(User(x), User(y)) \/ (User(x) = User(y) /\ Number_(x) > Number_(y))

\* The entries' keys can be read, and have numbers from 1 to n.
Numbered(s, n) ==
    /\ s \in Seq(Seq(Nat))
    /\ \A i \in 1 .. Len(s) : User(s[i]) \in Seq(Nat) /\ Number_(s[i]) \in 1 .. n

Ordered(s) == \A i, j \in 1 .. Len(s) : i < j => InOrder(s[i], s[j])

(* Where the elements of the new table are in the old one.                 *)
LEMMA InsertedFrom ==
    ASSUME NEW t, NEW s, NEW e, NEW n, Inserted(t, s, e, n), Len(s) \in Nat,
           NEW i \in 1 .. Len(t)
    PROVE  \/ i \in 1 .. Len(s) /\ i <= n /\ t[i] = s[i]
           \/ i = n + 1 /\ t[i] = e
           \/ i - 1 \in 1 .. Len(s) /\ i - 1 > n /\ t[i] = s[i - 1]
<1>0. n \in Nat /\ n <= Len(s) /\ Len(t) = Len(s) + 1
  BY DEF Inserted
<1>1. CASE i <= n
  <2>1. i \in 1 .. n /\ i \in 1 .. Len(s)
    BY <1>0, <1>1
  <2> QED
    BY <1>1, <2>1 DEF Inserted
<1>2. CASE i = n + 1
  BY <1>2 DEF Inserted
<1>3. CASE i > n + 1
  <2>1. PICK k \in 1 .. Len(s) - n : i = n + 1 + k
    <3>1. i - (n + 1) \in 1 .. Len(s) - n /\ i = n + 1 + (i - (n + 1))
      BY <1>0, <1>3
    <3> QED
      BY <3>1
  <2>2. t[i] = s[n + k]
    BY <2>1 DEF Inserted
  <2>3. n + k = i - 1 /\ n + k \in 1 .. Len(s) /\ n + k > n
    BY <1>0, <2>1
  <2> QED
    BY <2>2, <2>3
<1> QED
  BY <1>0, <1>1, <1>2, <1>3

\* An entry with a number above all the others leaves the table in order.
LEMMA InsertKeepsOrder ==
    ASSUME NEW s, NEW e \in Seq(Nat), NEW m \in Nat, Numbered(s, m), Ordered(s),
           User(e) \in Seq(Nat), Number_(e) = m + 1
    PROVE  Numbered(Insert(s, e), m + 1) /\ Ordered(Insert(s, e))
<1> DEFINE t == Insert(s, e)
<1>0. s \in Seq(Seq(Nat)) /\ Len(s) \in Nat
  BY LenProperties DEF Numbered
<1>1. PICK n \in Nat : Found(s, e, n) /\ Inserted(t, s, e, n) /\ t \in Seq(Seq(Nat))
  BY <1>0, InsertIs
<1> HIDE DEF t
<1>s. \A i \in 1 .. Len(s) : /\ User(s[i]) \in Seq(Nat)
                             /\ Number_(s[i]) \in 1 .. m /\ Number_(s[i]) < m + 1
  BY DEF Numbered
<1>f. \A i \in 1 .. Len(t) :
        \/ i \in 1 .. Len(s) /\ i <= n /\ t[i] = s[i]
        \/ i = n + 1 /\ t[i] = e
        \/ i - 1 \in 1 .. Len(s) /\ i - 1 > n /\ t[i] = s[i - 1]
  <2> TAKE i \in 1 .. Len(t)
  <2>1. Inserted(t, s, e, n) /\ Len(s) \in Nat
    BY <1>0, <1>1
  <2> QED
    BY <2>1, InsertedFrom
<1>2. Numbered(t, m + 1)
  <2>1. ASSUME NEW i \in 1 .. Len(t)
        PROVE  User(t[i]) \in Seq(Nat) /\ Number_(t[i]) \in 1 .. m + 1
    <3>1. \/ i \in 1 .. Len(s) /\ i <= n /\ t[i] = s[i]
          \/ i = n + 1 /\ t[i] = e
          \/ i - 1 \in 1 .. Len(s) /\ i - 1 > n /\ t[i] = s[i - 1]
      BY <1>f
    <3>2. CASE t[i] = e
      BY <3>2
    <3>3. ASSUME NEW j \in 1 .. Len(s), t[i] = s[j]
          PROVE  User(t[i]) \in Seq(Nat) /\ Number_(t[i]) \in 1 .. m + 1
      <4>1. Number_(s[j]) \in 1 .. m
        BY <1>s
      <4>2. Number_(s[j]) \in 1 .. m + 1
        BY <4>1
      <4> QED
        BY <1>s, <3>3, <4>2
    <3> QED
      BY <3>1, <3>2, <3>3
  <2> QED
    BY <1>1, <2>1 DEF Numbered
<1>3. \A j \in 1 .. n : j \in 1 .. Len(s) /\ Precedes(User(s[j]), User(e))
  <2> TAKE j \in 1 .. n
  <2>1. j \in 1 .. Len(s) /\ KeyCompare(s[j], e) = Before
    BY <1>0, <1>1 DEF Found
  <2> QED
    BY <1>s, <2>1, ComparesUsers
<1>4. ASSUME NEW j \in 1 .. Len(s), j > n PROVE InOrder(e, s[j])
  <2>0. n + 1 \in 1 .. Len(s) /\ n < Len(s)
    BY <1>0, <1>4
  <2>1. ~Precedes(User(s[n + 1]), User(e))
    <3>1. KeyCompare(s[n + 1], e) # Before
      BY <1>1, <2>0 DEF Found
    <3> QED
      BY <1>s, <2>0, <3>1, ComparesUsers
  <2>2. Precedes(User(e), User(s[n + 1])) \/ User(e) = User(s[n + 1])
    BY <1>s, <2>0, <2>1, PrecedesTotal
  <2>3. Precedes(User(s[n + 1]), User(s[j])) \/ User(s[n + 1]) = User(s[j])
    <3>1. CASE j = n + 1
      BY <3>1
    <3>2. CASE j # n + 1
      <4>1. n + 1 < j
        BY <1>4, <3>2
      <4> QED
        BY <2>0, <4>1 DEF Ordered, InOrder
    <3> QED
      BY <3>1, <3>2
  <2>4. Precedes(User(e), User(s[j])) \/ User(e) = User(s[j])
    BY <1>s, <2>0, <2>2, <2>3, PrecedesTransitive
  <2>5. Number_(e) > Number_(s[j])
    <3>1. Number_(s[j]) \in 1 .. m
      BY <1>s
    <3> QED
      BY <3>1
  <2> QED
    BY <2>4, <2>5 DEF InOrder
<1>5. ASSUME NEW i \in 1 .. Len(t), NEW j \in 1 .. Len(t), i < j
      PROVE  InOrder(t[i], t[j])
  <2>i. \/ i \in 1 .. Len(s) /\ i <= n /\ t[i] = s[i]
        \/ i = n + 1 /\ t[i] = e
        \/ i - 1 \in 1 .. Len(s) /\ i - 1 > n /\ t[i] = s[i - 1]
    BY <1>f
  <2>j. \/ j \in 1 .. Len(s) /\ j <= n /\ t[j] = s[j]
        \/ j = n + 1 /\ t[j] = e
        \/ j - 1 \in 1 .. Len(s) /\ j - 1 > n /\ t[j] = s[j - 1]
    BY <1>f
  <2>1. CASE i \in 1 .. Len(s) /\ i <= n /\ t[i] = s[i]
    <3>1. CASE j \in 1 .. Len(s) /\ j <= n /\ t[j] = s[j]
      BY <1>5, <2>1, <3>1 DEF Ordered
    <3>2. CASE j = n + 1 /\ t[j] = e
      <4>1. i \in 1 .. n
        BY <2>1
      <4> QED
        BY <1>3, <2>1, <3>2, <4>1 DEF InOrder
    <3>3. CASE j - 1 \in 1 .. Len(s) /\ j - 1 > n /\ t[j] = s[j - 1]
      <4>1. i < j - 1
        BY <2>1, <3>3
      <4> QED
        BY <2>1, <3>3, <4>1 DEF Ordered
    <3> QED
      BY <2>j, <3>1, <3>2, <3>3
  <2>2. CASE i = n + 1 /\ t[i] = e
    <3>1. j - 1 \in 1 .. Len(s) /\ j - 1 > n /\ t[j] = s[j - 1]
      BY <1>5, <2>2, <2>j
    <3> QED
      BY <1>4, <2>2, <3>1
  <2>3. CASE i - 1 \in 1 .. Len(s) /\ i - 1 > n /\ t[i] = s[i - 1]
    <3>1. j - 1 \in 1 .. Len(s) /\ t[j] = s[j - 1] /\ i - 1 < j - 1
      BY <1>5, <2>3, <2>j
    <3> QED
      BY <2>3, <3>1 DEF Ordered
  <2> QED
    BY <2>i, <2>1, <2>2, <2>3
<1>6. Ordered(t)
  BY <1>5 DEF Ordered
<1> QED
  BY <1>2, <1>6 DEF t

\* An entry that was in the table still is, and so is the new one.
LEMMA InsertKeepsEntries ==
    ASSUME NEW s \in Seq(Seq(Nat)), NEW e \in Seq(Nat)
    PROVE  /\ \E i \in 1 .. Len(Insert(s, e)) : Insert(s, e)[i] = e
           /\ \A j \in 1 .. Len(s) : \E i \in 1 .. Len(Insert(s, e)) : Insert(s, e)[i] = s[j]
<1> DEFINE t == Insert(s, e)
<1>0. Len(s) \in Nat
  BY LenProperties
<1>1. PICK n \in Nat : Inserted(t, s, e, n)
  BY InsertIs
<1> HIDE DEF t
<1>2. n <= Len(s) /\ Len(t) = Len(s) + 1
  BY <1>1 DEF Inserted
<1>3. n + 1 \in 1 .. Len(t) /\ t[n + 1] = e
  BY <1>0, <1>1, <1>2 DEF Inserted
<1>4. ASSUME NEW j \in 1 .. Len(s) PROVE \E i \in 1 .. Len(t) : t[i] = s[j]
  <2>1. CASE j <= n
    <3>1. j \in 1 .. n /\ j \in 1 .. Len(t)
      BY <1>0, <1>2, <2>1
    <3>2. t[j] = s[j]
      BY <1>1, <3>1 DEF Inserted
    <3> QED
      BY <3>1, <3>2
  <2>2. CASE ~(j <= n)
    <3>1. PICK k \in 1 .. Len(s) - n : j = n + k
      <4>1. j - n \in 1 .. Len(s) - n /\ j = n + (j - n)
        BY <1>0, <1>2, <2>2
      <4> QED
        BY <4>1
    <3>2. t[n + 1 + k] = s[j]
      BY <1>1, <3>1 DEF Inserted
    <3>3. n + 1 + k \in 1 .. Len(t)
      BY <1>0, <1>2, <3>1
    <3> QED
      BY <3>2, <3>3
  <2> QED
    BY <2>1, <2>2
<1> QED
  BY <1>3, <1>4 DEF t

\* A table in order answers a seek with the first of a user key's entries, which
\* is the newest.
LEMMA SeekIs ==
    ASSUME NEW m \in Nat, Numbered(table, m), Ordered(table), NEW k \in UserKeys, NEW s \in Nat
    PROVE  SeekReaches(k, s)
<1> DEFINE own == { i \in 1 .. Len(table) : UserAt(i) = k }
<1> SUFFICES ASSUME NEW h \in 1 .. Len(table), UserAt(h) = k
             PROVE  /\ Seek(k, s) \in own
                    /\ \A i \in own : SequenceAt(i) <= SequenceAt(Seek(k, s))
                    /\ \A i \in 1 .. Seek(k, s) - 1 : Precedes(UserAt(i), k)
  BY DEF SeekReaches
<1>0. table \in Seq(Seq(Nat)) /\ Len(table) \in Nat
  BY LenProperties DEF Numbered
<1> DEFINE key == LookupKey(k, s)
<1>1. k \in Seq(Nat) /\ User(key) = k
  BY <1>0, LookupParts
<1>2. PICK n \in Nat : Found(table, key, n) /\ FindGreaterOrEqual(table, key) = n + 1
  BY <1>0, FindIs
<1>3. Seek(k, s) = n + 1
  BY <1>2 DEF Seek
<1> HIDE DEF key
<1>4. \A i \in 1 .. Len(table) :
        /\ User(table[i]) \in Seq(Nat) /\ UserAt(i) = User(table[i])
        /\ KeyCompare(table[i], key) = Before <=> Precedes(User(table[i]), k)
  <2> TAKE i \in 1 .. Len(table)
  <2>1. User(table[i]) \in Seq(Nat) /\ UserAt(i) = User(table[i])
    BY DEF Numbered, UserAt, User
  <2> QED
    BY <1>1, <2>1, ComparesUsers
<1>5. h > n
  <2>1. ~Precedes(k, k)
    BY <1>1, PrecedesIrreflexive
  <2>2. KeyCompare(table[h], key) # Before
    BY <1>4, <2>1
  <2>3. ASSUME h <= n PROVE FALSE
    <3>1. h \in 1 .. n
      BY <2>3
    <3> QED
      BY <1>2, <2>2, <3>1 DEF Found
  <2> QED
    BY <2>3
<1>6. n + 1 \in 1 .. Len(table) /\ n + 1 <= Len(table) /\ n < Len(table)
  BY <1>0, <1>5
<1>7. ~Precedes(User(table[n + 1]), k)
  BY <1>2, <1>4, <1>6 DEF Found
<1>8. User(table[n + 1]) = k
  <2>1. CASE h = n + 1
    BY <1>4, <2>1
  <2>2. CASE h # n + 1
    <3>1. n + 1 < h
      BY <1>5, <2>2
    <3>2. InOrder(table[n + 1], table[h])
      BY <1>6, <3>1 DEF Ordered
    <3> QED
      BY <1>4, <1>7, <3>2 DEF InOrder
  <2> QED
    BY <2>1, <2>2
<1>9. ASSUME NEW i \in 1 .. n PROVE Precedes(UserAt(i), k)
  <2>1. i \in 1 .. Len(table) /\ KeyCompare(table[i], key) = Before
    BY <1>2, <1>6 DEF Found
  <2> QED
    BY <1>4, <2>1
<1>10. UserAt(n + 1) = k
  BY <1>4, <1>6, <1>8
<1>11. (n + 1) - 1 = n
  OBVIOUS
<1>12. ASSUME NEW i \in 1 .. Len(table), UserAt(i) = k PROVE SequenceAt(i) <= SequenceAt(n + 1)
  <2>1. /\ SequenceAt(i) \in Nat /\ SequenceAt(i) = Number_(table[i])
        /\ SequenceAt(n + 1) \in Nat /\ SequenceAt(n + 1) = Number_(table[n + 1])
    <3>1. \A j \in 1 .. Len(table) : SequenceAt(j) = Number_(table[j])
      BY DEF SequenceAt, Number_
    <3>2. \A j \in 1 .. Len(table) : Number_(table[j]) \in Nat
      BY DEF Numbered
    <3> QED
      BY <1>6, <3>1, <3>2
  <2>2. CASE i <= n
    <3>1. i \in 1 .. n
      BY <2>2
    <3>2. Precedes(k, k)
      BY <1>9, <1>12, <3>1
    <3> QED
      BY <1>1, <3>2, PrecedesIrreflexive
  <2>3. CASE i = n + 1
    BY <2>1, <2>3
  <2>4. CASE n + 1 < i
    <3>1. InOrder(table[n + 1], table[i])
      BY <1>6, <2>4 DEF Ordered
    <3>2. User(table[n + 1]) = k /\ User(table[i]) = k
      BY <1>4, <1>8, <1>12
    <3>3. ~Precedes(k, k)
      BY <1>1, PrecedesIrreflexive
    <3>4. Number_(table[n + 1]) > Number_(table[i])
      BY <3>1, <3>2, <3>3 DEF InOrder
    <3> QED
      BY <2>1, <3>4
  <2> QED
    BY <1>6, <2>2, <2>3, <2>4
<1> QED
  BY <1>3, <1>6, <1>9, <1>10, <1>11, <1>12

\* No two entries have one number.
Distinct(s) == \A i, j \in 1 .. Len(s) : Number_(s[i]) = Number_(s[j]) => i = j

(* A new number leaves them so.                                            *)
LEMMA InsertKeepsDistinct ==
    ASSUME NEW s, NEW e \in Seq(Nat), NEW m \in Nat, Numbered(s, m), Distinct(s),
           Number_(e) = m + 1
    PROVE  Distinct(Insert(s, e))
<1> DEFINE t == Insert(s, e)
<1>0. s \in Seq(Seq(Nat)) /\ Len(s) \in Nat
  BY LenProperties DEF Numbered
<1>1. PICK n \in Nat : Inserted(t, s, e, n)
  BY <1>0, InsertIs
<1> HIDE DEF t
<1>2. \A i \in 1 .. Len(s) : Number_(s[i]) # m + 1
  <2> TAKE i \in 1 .. Len(s)
  <2>1. Number_(s[i]) \in 1 .. m
    BY DEF Numbered
  <2> QED
    BY <2>1
<1>f. \A i \in 1 .. Len(t) :
        \/ i \in 1 .. Len(s) /\ i <= n /\ t[i] = s[i]
        \/ i = n + 1 /\ t[i] = e
        \/ i - 1 \in 1 .. Len(s) /\ i - 1 > n /\ t[i] = s[i - 1]
  <2> TAKE i \in 1 .. Len(t)
  <2> QED
    BY <1>0, <1>1, InsertedFrom
<1>3. ASSUME NEW i \in 1 .. Len(t), NEW j \in 1 .. Len(t), Number_(t[i]) = Number_(t[j])
      PROVE  i = j
  <2>1. CASE i = n + 1 /\ t[i] = e
    <3>1. \A k \in 1 .. Len(s) : t[j] # s[k]
      BY <1>2, <1>3, <2>1
    <3> QED
      BY <1>f, <2>1, <3>1
  <2>2. CASE i \in 1 .. Len(s) /\ i <= n /\ t[i] = s[i]
    <3>1. t[j] # e
      BY <1>2, <1>3, <2>2
    <3>2. CASE j \in 1 .. Len(s) /\ j <= n /\ t[j] = s[j]
      BY <1>3, <2>2, <3>2 DEF Distinct
    <3>3. CASE j - 1 \in 1 .. Len(s) /\ j - 1 > n /\ t[j] = s[j - 1]
      <4>1. i = j - 1
        BY <1>3, <2>2, <3>3 DEF Distinct
      <4> QED
        BY <2>2, <3>3, <4>1
    <3> QED
      BY <1>f, <3>1, <3>2, <3>3
  <2>3. CASE i - 1 \in 1 .. Len(s) /\ i - 1 > n /\ t[i] = s[i - 1]
    <3>1. t[j] # e
      BY <1>2, <1>3, <2>3
    <3>2. CASE j \in 1 .. Len(s) /\ j <= n /\ t[j] = s[j]
      <4>1. i - 1 = j
        BY <1>3, <2>3, <3>2 DEF Distinct
      <4> QED
        BY <2>3, <3>2, <4>1
    <3>3. CASE j - 1 \in 1 .. Len(s) /\ j - 1 > n /\ t[j] = s[j - 1]
      <4>1. i - 1 = j - 1
        BY <1>3, <2>3, <3>3 DEF Distinct
      <4> QED
        BY <4>1
    <3> QED
      BY <1>f, <3>1, <3>2, <3>3
  <2> QED
    BY <1>f, <2>1, <2>2, <2>3
<1> QED
  BY <1>3 DEF Distinct, t

---------------------------------------------------------------------------
(* The records of a batch.                                                 *)

\* What the client asks a batch for.
Update ==
    {u \in [type : {kTypeDeletion, kTypeValue}, user : UserKeys, value : Values \cup {<< >>}] :
       u.type = kTypeDeletion => u.value = << >>}

\* What Put and Delete write for it.
RecordValue(u) == IF u.type = kTypeValue THEN PutLengthPrefixedSlice(u.value) ELSE << >>
Record(u) == (<<u.type>> \o PutLengthPrefixedSlice(u.user)) \o RecordValue(u)

(* An update's parts.                                                      *)
LEMMA UpdateParts ==
    ASSUME NEW u \in Update
    PROVE  /\ u.type \in {kTypeDeletion, kTypeValue} /\ u.type \in Nat
           /\ u.user \in UserKeys /\ u.value \in Values \cup {<< >>}
           /\ IsSlice(u.user) /\ IsSlice(u.value)
           /\ u.type = kTypeDeletion => u.value = << >>
<1>1. /\ u.type \in {kTypeDeletion, kTypeValue}
      /\ u.user \in UserKeys /\ u.value \in Values \cup {<< >>}
      /\ u.type = kTypeDeletion => u.value = << >>
  BY DEF Update
<1>2. u.type \in Nat
  BY <1>1 DEF kTypeDeletion, kTypeValue
<1> QED
  BY <1>1, <1>2, Slices

\* The first of a byte and a string, and the rest.
LEMMA ByteFirst ==
    ASSUME NEW x \in Nat, NEW s \in Seq(Nat)
    PROVE  /\ <<x>> \o s \in Seq(Nat) /\ <<x>> \o s # << >>
           /\ Len(<<x>> \o s) = 1 + Len(s)
           /\ Head(<<x>> \o s) = x /\ Tail(<<x>> \o s) = s
<1> DEFINE o == <<x>>
           t == o \o s
<1>1. o \in Seq(Nat) /\ Len(o) = 1 /\ o[1] = x
  OBVIOUS
<1> HIDE DEF o
<1>2. /\ t \in Seq(Nat) /\ Len(t) = 1 + Len(s) /\ Len(s) \in Nat
      /\ \A i \in 1 .. Len(o) : t[i] = o[i]
      /\ \A i \in 1 .. Len(s) : t[Len(o) + i] = s[i]
  <2>1. o \in Seq(Nat)
    BY <1>1
  <2>2. /\ t \in Seq(Nat) /\ Len(t) = Len(o) + Len(s) /\ Len(s) \in Nat
        /\ \A i \in 1 .. Len(o) : t[i] = o[i]
        /\ \A i \in 1 .. Len(s) : t[Len(o) + i] = s[i]
    BY <2>1, Joined
  <2> QED
    BY <1>1, <2>2
<1> HIDE DEF t
<1>3. t # << >>
  BY <1>2
<1>4. t[1] = x /\ \A i \in 1 .. Len(s) : t[1 + i] = s[i]
  <2>1. 1 \in 1 .. Len(o)
    BY <1>1
  <2> QED
    BY <1>1, <1>2, <2>1
<1>5. Head(t) = x
  BY <1>2, <1>3, <1>4
<1>6. /\ Tail(t) \in Seq(Nat) /\ Len(Tail(t)) = Len(t) - 1
      /\ \A i \in 1 .. Len(Tail(t)) : Tail(t)[i] = t[i + 1]
  BY <1>2, <1>3, HeadTailProperties
<1> DEFINE v == Tail(t)
<1>7. v \in Seq(Nat) /\ Len(v) = Len(s) /\ \A i \in 1 .. Len(v) : v[i] = t[i + 1]
  BY <1>2, <1>6
<1> HIDE DEF v
<1>8. \A i \in 1 .. Len(v) : v[i] = s[i]
  <2> TAKE i \in 1 .. Len(v)
  <2>1. i \in 1 .. Len(s) /\ i + 1 = 1 + i
    BY <1>7
  <2> QED
    BY <1>4, <1>7, <2>1
<1>9. v = s
  BY <1>7, <1>8, SeqEqual
<1> QED
  BY <1>2, <1>3, <1>5, <1>9 DEF t, o, v

\* A record is a tag byte, a slice and, in a Put, another one.
LEMMA RecordBytes ==
    ASSUME NEW u \in Update
    PROVE  LET body == PutLengthPrefixedSlice(u.user) \o RecordValue(u) IN
           /\ PutLengthPrefixedSlice(u.user) \in Seq(Nat)
           /\ RecordValue(u) \in Seq(Nat)
           /\ body \in Seq(Nat)
           /\ Record(u) = <<u.type>> \o body
           /\ Record(u) \in Seq(Nat) /\ Len(Record(u)) = 1 + Len(body)
           /\ Len(Record(u)) \in Nat /\ Len(Record(u)) >= 1
<1> DEFINE k == PutLengthPrefixedSlice(u.user)
           v == RecordValue(u)
           body == k \o v
           o == <<u.type>>
<1>0. u.type \in Nat /\ IsSlice(u.user) /\ IsSlice(u.value)
  BY UpdateParts
<1>1. k \in Seq(Nat)
  BY <1>0, SliceBytes
<1>2. v \in Seq(Nat)
  <2>1. PutLengthPrefixedSlice(u.value) \in Seq(Nat) /\ << >> \in Seq(Nat)
    BY <1>0, SliceBytes, EmptySeq
  <2> QED
    BY <2>1 DEF RecordValue
<1> HIDE DEF k, v
<1>3. body \in Seq(Nat) /\ Len(body) \in Nat
  BY <1>1, <1>2, Joined, LenProperties
<1>4. (o \o k) \o v = o \o body
  <2>1. o \in Seq(Nat)
    BY <1>0
  <2> QED
    BY <1>1, <1>2, <2>1, ConcatAssociative
<1>5. Record(u) = o \o body
  BY <1>4 DEF Record, k, v
<1> HIDE DEF body
<1>6. o \o body \in Seq(Nat) /\ Len(o \o body) = 1 + Len(body)
  BY <1>0, <1>3, ByteFirst
<1>7. 1 + Len(body) \in Nat /\ 1 + Len(body) >= 1
  BY <1>3
<1> QED
  BY <1>1, <1>2, <1>3, <1>5, <1>6, <1>7 DEF body, k, v

\* A record and what is behind it.
LEMMA RecordThen ==
    ASSUME NEW u \in Update, NEW rest \in Seq(Nat)
    PROVE  Record(u) \o rest =
             <<u.type>> \o (PutLengthPrefixedSlice(u.user) \o (RecordValue(u) \o rest))
<1> DEFINE k == PutLengthPrefixedSlice(u.user)
           v == RecordValue(u)
           o == <<u.type>>
           after == v \o rest
<1>1. k \in Seq(Nat) /\ v \in Seq(Nat)
  BY RecordBytes
<1>2. o \in Seq(Nat)
  BY UpdateParts
<1> HIDE DEF k, v, o
<1>3. o \o k \in Seq(Nat) /\ after \in Seq(Nat)
  BY <1>1, <1>2, Joined
<1>4. ((o \o k) \o v) \o rest = (o \o k) \o after
  <2> DEFINE b == o \o k
  <2>1. b \in Seq(Nat) /\ v \in Seq(Nat) /\ rest \in Seq(Nat)
    BY <1>1, <1>3
  <2> HIDE DEF b
  <2>2. (b \o v) \o rest = b \o (v \o rest)
    BY <2>1, Joints
  <2> QED
    BY <2>2 DEF b
<1>5. (o \o k) \o after = o \o (k \o after)
  <2> HIDE DEF after
  <2> QED
    BY <1>1, <1>2, <1>3, Joints
<1> QED
  BY <1>4, <1>5 DEF Record, k, v, o

\* The parser takes a record apart into what was put in it.
LEMMA RecordRead ==
    ASSUME NEW u \in Update, NEW rest \in Seq(Nat), inserter.input = Record(u) \o rest
    PROVE  /\ inserter.input # << >> /\ Head(inserter.input) = u.type
           /\ Parsed(u.type)
           /\ NextKey.value = u.user
           /\ u.type = kTypeValue => NextValue.value = u.value /\ NextValue.rest = rest
           /\ u.type # kTypeValue => NextKey.rest = rest
<1> DEFINE k == PutLengthPrefixedSlice(u.user)
           v == RecordValue(u)
           after == v \o rest
           behind == k \o after
           o == <<u.type>>
<1>0. u.type \in {kTypeDeletion, kTypeValue} /\ u.type \in Nat /\ IsSlice(u.user) /\ IsSlice(u.value)
  BY UpdateParts
<1>1. k \in Seq(Nat) /\ v \in Seq(Nat)
  BY RecordBytes
<1>2. after \in Seq(Nat)
  BY <1>1, Joined
<1>v. v = IF u.type = kTypeValue THEN PutLengthPrefixedSlice(u.value) ELSE << >>
  BY DEF RecordValue
<1> HIDE DEF k, v
<1>4. behind \in Seq(Nat)
  BY <1>1, <1>2, Joined
<1>5. inserter.input = o \o behind
  BY RecordThen DEF k, v
<1> HIDE DEF behind
<1>6. inserter.input # << >> /\ Head(inserter.input) = u.type /\ Tail(inserter.input) = behind
  BY <1>0, <1>4, <1>5, ByteFirst
<1>7. NextKey = [ok |-> TRUE, value |-> u.user, rest |-> after]
  <2> HIDE DEF after
  <2>1. GetLengthPrefixedSlice(k \o after) = [ok |-> TRUE, value |-> u.user, rest |-> after]
    BY <1>0, <1>2, SliceRead DEF k
  <2> QED
    BY <1>6, <2>1 DEF NextKey, behind
<1>8. NextKey.ok = TRUE /\ NextKey.value = u.user /\ NextKey.rest = after
  BY <1>7
<1>9. ASSUME u.type = kTypeValue
      PROVE  NextValue = [ok |-> TRUE, value |-> u.value, rest |-> rest]
  <2>1. GetLengthPrefixedSlice(PutLengthPrefixedSlice(u.value) \o rest)
          = [ok |-> TRUE, value |-> u.value, rest |-> rest]
    BY <1>0, SliceRead
  <2> QED
    BY <1>8, <1>9, <1>v, <2>1 DEF NextValue
<1>10. ASSUME u.type # kTypeValue PROVE NextKey.rest = rest
  <2>1. << >> \o rest = rest
    BY ConcatEmptySeq
  <2> QED
    BY <1>8, <1>10, <1>v, <2>1
<1>11. ASSUME u.type = kTypeValue
       PROVE  NextValue.ok = TRUE /\ NextValue.value = u.value /\ NextValue.rest = rest
  BY <1>9, <1>11
<1>12. Parsed(u.type)
  <2>1. CASE u.type = kTypeValue
    BY <1>8, <1>11, <2>1 DEF Parsed
  <2>2. CASE u.type = kTypeDeletion
    BY <1>8, <2>2 DEF Parsed, kTypeDeletion, kTypeValue
  <2> QED
    BY <1>0, <2>1, <2>2
<1> QED
  BY <1>6, <1>8, <1>10, <1>11, <1>12

\* The parser refuses a record that is cut off, at whatever byte.
LEMMA RecordCut ==
    ASSUME NEW u \in Update, NEW c \in Nat, c >= 1, c < Len(Record(u)),
           inserter.input = SubSeq(Record(u), 1, c)
    PROVE  inserter.input # << >> /\ ~Parsed(Head(inserter.input))
<1> DEFINE k == PutLengthPrefixedSlice(u.user)
           v == RecordValue(u)
           body == k \o v
           o == <<u.type>>
           d == c - 1
           behind == SubSeq(body, 1, d)
<1>0. u.type \in {kTypeDeletion, kTypeValue} /\ u.type \in Nat /\ IsSlice(u.user) /\ IsSlice(u.value)
  BY UpdateParts
<1>1. k \in Seq(Nat) /\ v \in Seq(Nat) /\ body \in Seq(Nat) /\ Record(u) = o \o body
      /\ Len(Record(u)) = 1 + Len(body)
  BY RecordBytes
<1>v. v = IF u.type = kTypeValue THEN PutLengthPrefixedSlice(u.value) ELSE << >>
  BY DEF RecordValue
<1>2. d \in Nat /\ d < Len(body) /\ Len(body) \in Nat
  <2>1. Len(body) \in Nat
    BY <1>1, LenProperties
  <2> QED
    BY <1>1, <2>1
<1>3. inserter.input = o \o behind
  <2>1. o \in Seq(Nat) /\ Len(o) = 1
    BY <1>0
  <2> HIDE DEF o, body
  <2>2. c >= Len(o) /\ c <= Len(o) + Len(body)
    BY <1>2, <2>1
  <2>3. SubSeq(o \o body, 1, c) = o \o SubSeq(body, 1, c - Len(o))
    BY <1>1, <2>1, <2>2, StartOfJoined
  <2> QED
    BY <1>1, <2>1, <2>3
<1>4. behind \in Seq(Nat)
  <2> HIDE DEF body, d
  <2>1. d <= Len(body)
    BY <1>2
  <2> QED
    BY <1>1, <1>2, <2>1, Start
<1> HIDE DEF behind
<1>5. inserter.input # << >> /\ Head(inserter.input) = u.type /\ Tail(inserter.input) = behind
  <2>1. u.type \in Nat
    BY <1>0
  <2>2. /\ <<u.type>> \o behind # << >> /\ Head(<<u.type>> \o behind) = u.type
        /\ Tail(<<u.type>> \o behind) = behind
    BY <1>4, <2>1, ByteFirst
  <2> QED
    BY <1>3, <2>2
<1> HIDE DEF k, v, d
<1>6. Len(k) \in Nat /\ Len(v) \in Nat /\ Len(body) = Len(k) + Len(v)
  BY <1>1, Joined
<1>7. CASE d < Len(k)
  <2>1. behind = SubSeq(k, 1, d)
    <3>1. d <= Len(k)
      BY <1>2, <1>6, <1>7
    <3> QED
      BY <1>1, <1>2, <3>1, StartOfJoined DEF behind
  <2>2. GetLengthPrefixedSlice(behind).ok = FALSE
    BY <1>0, <1>2, <1>7, <2>1, SliceCut DEF k
  <2>3. NextKey.ok = FALSE
    BY <1>5, <2>2 DEF NextKey
  <2>4. ~Parsed(u.type)
    BY <1>0, <2>3 DEF Parsed, kTypeDeletion, kTypeValue
  <2> QED
    BY <1>5, <2>4
<1>8. CASE ~(d < Len(k))
  <2> DEFINE e == d - Len(k)
             after == SubSeq(v, 1, e)
  <2>1. e \in Nat /\ e < Len(v) /\ d >= Len(k) /\ d <= Len(k) + Len(v)
    BY <1>2, <1>6, <1>8
  <2>2. behind = k \o after
    BY <1>1, <1>2, <2>1, StartOfJoined DEF behind
  <2>3. u.type = kTypeValue
    <3>1. v # << >>
      BY <2>1
    <3> QED
      BY <1>v, <3>1
  <2>4. v = PutLengthPrefixedSlice(u.value)
    BY <1>v, <2>3
  <2>5. after \in Seq(Nat)
    <3> HIDE DEF e
    <3>1. e <= Len(v)
      BY <1>6, <2>1
    <3> QED
      BY <1>1, <2>1, <3>1, Start
  <2>6. GetLengthPrefixedSlice(after).ok = FALSE
    <3> HIDE DEF e
    <3> QED
      BY <1>0, <2>1, <2>4, SliceCut
  <2> HIDE DEF after
  <2>7. GetLengthPrefixedSlice(k \o after) = [ok |-> TRUE, value |-> u.user, rest |-> after]
    BY <1>0, <2>5, SliceRead DEF k
  <2>8. NextKey.rest = after
    <3>1. NextKey = GetLengthPrefixedSlice(k \o after)
      BY <1>5, <2>2, Zenon DEF NextKey
    <3> QED
      BY <2>7, <3>1
  <2>9. NextValue.ok = FALSE
    BY <2>6, <2>8 DEF NextValue
  <2>10. ~Parsed(u.type)
    BY <2>3, <2>9 DEF Parsed, kTypeDeletion, kTypeValue
  <2> QED
    BY <1>5, <2>10
<1> QED
  BY <1>7, <1>8

---------------------------------------------------------------------------
(* The header of a batch.                                                  *)

\* r is the bytes h of a sequence number, k of a count and d of the records.
Parts(r, h, k, d) ==
    /\ h \in Seq(Nat) /\ k \in Seq(Nat) /\ d \in Seq(Nat)
    /\ Len(h) = Fixed64 /\ Len(k) = Fixed32
    /\ r = (h \o k) \o d

(* The model's reads of a header find them.                                *)
LEMMA PartsRead ==
    ASSUME NEW r, NEW h, NEW k, NEW d, Parts(r, h, k, d)
    PROVE  /\ r \in Seq(Nat) /\ Len(r) \in Nat
           /\ Len(d) \in Nat /\ Len(r) = kHeader + Len(d) /\ kHeader \in Nat
           /\ SubSeq(r, 1, Fixed64) = h
           /\ SubSeq(r, Fixed64 + 1, kHeader) = k
           /\ SubSeq(r, Fixed64 + 1, Len(r)) = k \o d
           /\ SubSeq(r, kHeader + 1, Len(r)) = d
<1>0. /\ h \in Seq(Nat) /\ k \in Seq(Nat) /\ d \in Seq(Nat)
      /\ Len(h) = Fixed64 /\ Len(k) = Fixed32
      /\ Fixed64 \in Nat /\ Fixed32 \in Nat /\ kHeader = Fixed64 + Fixed32 /\ kHeader \in Nat
  BY Widths DEF Parts, kHeader
<1> DEFINE a == h \o k
           t == k \o d
<1>a. a \in Seq(Nat) /\ Len(a) = kHeader
  <2>1. a \in Seq(Nat) /\ Len(a) = Len(h) + Len(k)
    BY <1>0, Joined
  <2> QED
    BY <1>0, <2>1
<1>t. t \in Seq(Nat)
  BY <1>0, Joined
<1>1. r = a \o d /\ r = h \o t
  <2>1. (h \o k) \o d = h \o (k \o d)
    BY <1>0, Joints
  <2> QED
    BY <2>1 DEF Parts
<1>2. SubSeq(a, 1, Fixed64) = h /\ SubSeq(a, Fixed64 + 1, kHeader) = k
  <2>1. SubSeq(a, 1, Len(h)) = h /\ SubSeq(a, Len(h) + 1, Len(a)) = k
    BY <1>0, Apart
  <2> QED
    BY <1>0, <1>a, <2>1
<1> HIDE DEF a, t
<1>3. SubSeq(r, kHeader + 1, Len(r)) = d
  <2>1. SubSeq(a \o d, Len(a) + 1, Len(a \o d)) = d
    BY <1>0, <1>a, Apart
  <2> QED
    BY <1>1, <1>a, <2>1
<1>4. SubSeq(r, 1, Fixed64) = h /\ SubSeq(r, Fixed64 + 1, Len(r)) = t
  <2>1. SubSeq(h \o t, 1, Len(h)) = h /\ SubSeq(h \o t, Len(h) + 1, Len(h \o t)) = t
    BY <1>0, <1>t, Apart
  <2> QED
    BY <1>0, <1>1, <2>1
<1>5. r \in Seq(Nat) /\ Len(r) = kHeader + Len(d) /\ Len(d) \in Nat
  <2>1. a \o d \in Seq(Nat) /\ Len(a \o d) = Len(a) + Len(d) /\ Len(d) \in Nat
    BY <1>0, <1>a, Joined
  <2> QED
    BY <1>1, <1>a, <2>1
<1>6. SubSeq(r, Fixed64 + 1, kHeader) = k
  <2> DEFINE x == SubSeq(r, Fixed64 + 1, kHeader)
  <2>1. Fixed64 <= kHeader /\ kHeader <= Len(r) /\ kHeader - Fixed64 = Fixed32
    BY <1>0, <1>5
  <2>2. /\ x \in Seq(Nat) /\ Len(x) = kHeader - Fixed64
        /\ \A i \in 1 .. kHeader - Fixed64 : x[i] = r[Fixed64 + i]
    <3>1. r \in Seq(Nat) /\ Fixed64 \in Nat /\ kHeader \in Nat
      BY <1>0, <1>5
    <3> QED
      BY <2>1, <3>1, Part
  <2> HIDE DEF x
  <2>3. \A i \in 1 .. Len(a) : r[i] = a[i]
    <3>1. a \in Seq(Nat) /\ d \in Seq(Nat)
      BY <1>0, <1>a
    <3>2. \A i \in 1 .. Len(a) : (a \o d)[i] = a[i]
      BY <3>1, Joined
    <3> QED
      BY <1>1, <3>2
  <2>4. \A i \in 1 .. Fixed32 : a[Fixed64 + i] = k[i]
    <3>1. \A i \in 1 .. Len(k) : (h \o k)[Len(h) + i] = k[i]
      BY <1>0, Joined
    <3> QED
      BY <1>0, <3>1 DEF a
  <2>5. \A i \in 1 .. Len(x) : x[i] = k[i]
    <3> TAKE i \in 1 .. Len(x)
    <3>1. i \in 1 .. Fixed32 /\ Fixed64 + i \in 1 .. Len(a) /\ i \in 1 .. kHeader - Fixed64
      BY <1>0, <1>a, <2>1, <2>2
    <3> QED
      BY <2>2, <2>3, <2>4, <3>1
  <2>6. Len(x) = Len(k)
    BY <1>0, <2>1, <2>2
  <2>7. x = k
    BY <1>0, <2>2, <2>5, <2>6, SeqEqual
  <2> QED
    BY <2>7 DEF x
<1>7. Len(r) \in Nat
  BY <1>0, <1>5
<1> QED
  BY <1>0, <1>3, <1>4, <1>5, <1>6, <1>7 DEF t

\* r is a batch with the count n and the records d.
Batch(r, n, d) == \E h, k : Parts(r, h, k, d) /\ DecodeFixed(k) = n

(* Count and Data return them.                                             *)
LEMMA BatchRead ==
    ASSUME NEW r, NEW n, NEW d, Batch(r, n, d)
    PROVE  /\ Count(r) = n /\ Data(r) = d
           /\ d \in Seq(Nat) /\ Len(d) \in Nat /\ r \in Seq(Nat)
           /\ kHeader \in Nat /\ Len(r) = kHeader + Len(d)
<1>1. PICK h, k : Parts(r, h, k, d) /\ DecodeFixed(k) = n
  BY DEF Batch
<1>2. /\ SubSeq(r, Fixed64 + 1, kHeader) = k /\ SubSeq(r, kHeader + 1, Len(r)) = d
      /\ r \in Seq(Nat) /\ Len(d) \in Nat /\ Len(r) = kHeader + Len(d) /\ kHeader \in Nat
  BY <1>1, PartsRead
<1>3. d \in Seq(Nat)
  BY <1>1 DEF Parts
<1> QED
  BY <1>1, <1>2, <1>3 DEF Count, Data

\* SetCount sets the count and nothing else.
LEMMA SetCountIs ==
    ASSUME NEW r, NEW n, NEW d, Batch(r, n, d), NEW m \in Nat, m < ByteRadix^Fixed32
    PROVE  Batch(SetCount(r, m), m, d)
<1>1. PICK h, k : Parts(r, h, k, d)
  BY DEF Batch
<1> DEFINE e == EncodeFixed(m, Fixed32)
<1>0. Fixed32 \in Nat /\ Fixed32 <= MaxDigits
  BY Widths
<1>2. SubSeq(r, 1, Fixed64) = h /\ SubSeq(r, kHeader + 1, Len(r)) = d
  BY <1>1, PartsRead
<1>3. SetCount(r, m) = (h \o e) \o d
  BY <1>2 DEF SetCount
<1>4. e \in Seq(Nat) /\ Len(e) = Fixed32 /\ DecodeFixed(e) = m
  BY <1>0, FixedBytes, FixedRead
<1> HIDE DEF e
<1>5. Parts(SetCount(r, m), h, e, d)
  BY <1>1, <1>3, <1>4 DEF Parts
<1> QED
  BY <1>4, <1>5 DEF Batch

\* SetSequence sets the sequence number and nothing else.
LEMMA SetSequenceIs ==
    ASSUME NEW r, NEW n, NEW d, Batch(r, n, d), NEW q \in Nat, q < ByteRadix^Fixed64
    PROVE  Batch(SetSequence(r, q), n, d) /\ Sequence_(SetSequence(r, q)) = q
<1>1. PICK h, k : Parts(r, h, k, d) /\ DecodeFixed(k) = n
  BY DEF Batch
<1> DEFINE e == EncodeFixed(q, Fixed64)
<1>0. Fixed64 \in Nat /\ Fixed64 <= MaxDigits
  BY Widths
<1>2. SubSeq(r, Fixed64 + 1, Len(r)) = k \o d
  BY <1>1, PartsRead
<1>4. e \in Seq(Nat) /\ Len(e) = Fixed64 /\ DecodeFixed(e) = q
  BY <1>0, FixedBytes, FixedRead
<1>3. SetSequence(r, q) = (e \o k) \o d
  <2>1. SetSequence(r, q) = e \o (k \o d)
    BY <1>2 DEF SetSequence
  <2>2. k \in Seq(Nat) /\ d \in Seq(Nat)
    BY <1>1 DEF Parts
  <2> HIDE DEF e
  <2>3. (e \o k) \o d = e \o (k \o d)
    BY <1>4, <2>2, Joints
  <2> QED
    BY <2>1, <2>3
<1> HIDE DEF e
<1>5. Parts(SetSequence(r, q), e, k, d)
  BY <1>1, <1>3, <1>4 DEF Parts
<1>6. SubSeq(SetSequence(r, q), 1, Fixed64) = e
  BY <1>5, PartsRead
<1> QED
  BY <1>1, <1>4, <1>5, <1>6 DEF Batch, Sequence_

\* What is put behind a batch is put behind its records.
LEMMA BatchThen ==
    ASSUME NEW r, NEW n, NEW d, Batch(r, n, d), NEW x \in Seq(Nat)
    PROVE  Batch(r \o x, n, d \o x)
<1>1. PICK h, k : Parts(r, h, k, d) /\ DecodeFixed(k) = n
  BY DEF Batch
<1>2. h \in Seq(Nat) /\ k \in Seq(Nat) /\ d \in Seq(Nat) /\ r = (h \o k) \o d
  BY <1>1 DEF Parts
<1> DEFINE a == h \o k
           y == d \o x
<1>3. a \in Seq(Nat) /\ y \in Seq(Nat)
  BY <1>2, Joined
<1> HIDE DEF a
<1>4. (a \o d) \o x = a \o y
  <2>1. a \in Seq(Nat) /\ d \in Seq(Nat) /\ x \in Seq(Nat)
    BY <1>2, <1>3
  <2> QED
    BY <2>1, Joints
<1>5. r \o x = a \o y
  BY <1>2, <1>4 DEF a
<1> HIDE DEF y
<1>6. Parts(r \o x, h, k, y)
  BY <1>1, <1>3, <1>5 DEF Parts, a
<1> QED
  BY <1>1, <1>6 DEF Batch, y

\* A batch that is cut off behind its header has less of its records.
LEMMA BatchCut ==
    ASSUME NEW r, NEW n, NEW d, Batch(r, n, d), NEW c \in kHeader .. Len(r)
    PROVE  /\ c - kHeader \in 0 .. Len(d)
           /\ Batch(SubSeq(r, 1, c), n, SubSeq(d, 1, c - kHeader))
<1>1. PICK h, k : Parts(r, h, k, d) /\ DecodeFixed(k) = n
  BY DEF Batch
<1>2. h \in Seq(Nat) /\ k \in Seq(Nat) /\ d \in Seq(Nat) /\ r = (h \o k) \o d
      /\ Len(h) = Fixed64 /\ Len(k) = Fixed32
  BY <1>1 DEF Parts
<1>0. Fixed64 \in Nat /\ Fixed32 \in Nat /\ kHeader = Fixed64 + Fixed32 /\ kHeader \in Nat
  BY Widths DEF kHeader
<1>r. Len(r) = kHeader + Len(d) /\ Len(d) \in Nat
  BY <1>1, PartsRead
<1> DEFINE a == h \o k
           y == SubSeq(d, 1, c - kHeader)
<1>3. a \in Seq(Nat) /\ Len(a) = kHeader
  <2>1. a \in Seq(Nat) /\ Len(a) = Len(h) + Len(k)
    BY <1>2, Joined
  <2> QED
    BY <1>0, <1>2, <2>1
<1> HIDE DEF a
<1>4. c \in Nat /\ c >= Len(a) /\ c <= Len(a) + Len(d) /\ c - kHeader \in Nat /\ c - kHeader <= Len(d)
  BY <1>0, <1>3, <1>r
<1>5. SubSeq(a \o d, 1, c) = a \o SubSeq(d, 1, c - Len(a))
  BY <1>2, <1>3, <1>4, StartOfJoined
<1>6. SubSeq(r, 1, c) = a \o y
  BY <1>2, <1>3, <1>5 DEF a
<1>7. y \in Seq(Nat)
  <2> DEFINE z == c - kHeader
  <2>1. z \in Nat /\ z <= Len(d)
    BY <1>4
  <2> HIDE DEF z
  <2>2. SubSeq(d, 1, z) \in Seq(Nat)
    BY <1>2, <2>1, Start
  <2> QED
    BY <2>2 DEF z
<1> HIDE DEF y
<1>8. Parts(SubSeq(r, 1, c), h, k, y)
  BY <1>1, <1>6, <1>7 DEF Parts, a
<1>9. Batch(SubSeq(r, 1, c), n, y)
  BY <1>1, <1>8 DEF Batch
<1> QED
  BY <1>4, <1>9, <1>r DEF y

\* An empty batch.
LEMMA EmptyBatch == Batch(EmptyRep, 0, << >>)
<1> DEFINE h == [i \in 1 .. Fixed64 |-> 0]
           k == [i \in 1 .. Fixed32 |-> 0]
           a == h \o k
<1>0. /\ Fixed64 \in Nat /\ Fixed32 \in Nat /\ kHeader = Fixed64 + Fixed32 /\ kHeader \in Nat
      /\ Fixed32 <= MaxDigits /\ ByteRadix \in Nat \ {0}
  BY Widths DEF kHeader
<1>1. /\ h \in Seq(Nat) /\ Len(h) = Fixed64 /\ \A i \in 1 .. Fixed64 : h[i] = 0
      /\ k \in Seq(Nat) /\ Len(k) = Fixed32 /\ \A i \in 1 .. Fixed32 : k[i] = 0
  BY <1>0
<1>e. /\ EmptyRep \in Seq(Nat) /\ Len(EmptyRep) = kHeader
      /\ \A i \in 1 .. kHeader : EmptyRep[i] = 0
  BY <1>0 DEF EmptyRep
<1>2. DecodeFixed(k) = 0
  <2> DEFINE e == EncodeFixed(0, Fixed32)
  <2>1. /\ e \in Seq(Nat) /\ Len(e) = Fixed32
        /\ \A i \in 1 .. Fixed32 : e[i] = (0 \div ByteRadix^(i - 1)) % ByteRadix
    BY <1>0, FixedBytes
  <2>2. DecodeFixed(e) = 0
    <3>1. Fixed32 \in 0 .. MaxDigits
      BY <1>0, Widths
    <3>2. ByteRadix^Fixed32 \in Nat \ {0}
      BY <3>1, Powers
    <3>3. 0 < ByteRadix^Fixed32
      BY <3>2
    <3> QED
      BY <1>0, <3>3, FixedRead
  <2> HIDE DEF e
  <2>3. ASSUME NEW i \in 1 .. Fixed32 PROVE e[i] = 0
    <3> DEFINE p == ByteRadix^(i - 1)
    <3>1. i - 1 \in 0 .. MaxDigits
      BY <1>0, Widths
    <3>2. p \in Nat \ {0} /\ 0 \in 0 .. p - 1 /\ 0 \in 0 .. ByteRadix - 1
      BY <1>0, <3>1, Powers
    <3>3. e[i] = (0 \div p) % ByteRadix
      BY <2>1
    <3> HIDE DEF p
    <3>4. 0 \div p = 0
      BY <3>2, SmallDivMod
    <3>5. 0 % ByteRadix = 0
      BY <1>0, <3>2, SmallDivMod
    <3> QED
      BY <3>3, <3>4, <3>5
  <2> HIDE DEF k
  <2>4. e = k
    BY <1>1, <2>1, <2>3, SeqEqual
  <2> QED
    BY <2>2, <2>4
<1> HIDE DEF h, k
<1>3. /\ a \in Seq(Nat) /\ Len(a) = Len(h) + Len(k)
      /\ \A i \in 1 .. Len(h) : a[i] = h[i]
      /\ \A i \in 1 .. Len(k) : a[Len(h) + i] = k[i]
  <2>1. h \in Seq(Nat) /\ k \in Seq(Nat)
    BY <1>1
  <2> QED
    BY <2>1, Joined
<1> HIDE DEF a
<1>4. \A i \in 1 .. Len(a) : a[i] = 0
  <2> TAKE i \in 1 .. Len(a)
  <2>1. CASE i <= Fixed64
    <3>1. i \in 1 .. Fixed64
      BY <2>1, <1>0
    <3> QED
      BY <1>1, <1>3, <3>1
  <2>2. CASE ~(i <= Fixed64)
    <3>1. PICK j \in 1 .. Fixed32 : i = Fixed64 + j
      <4>1. i - Fixed64 \in 1 .. Fixed32 /\ i = Fixed64 + (i - Fixed64)
        BY <1>0, <1>1, <1>3, <2>2
      <4> QED
        BY <4>1
    <3> QED
      BY <1>1, <1>3, <3>1
  <2> QED
    BY <2>1, <2>2
<1>5. a = EmptyRep
  <2>1. Len(a) = Len(EmptyRep)
    BY <1>0, <1>1, <1>3, <1>e
  <2>2. \A i \in 1 .. Len(a) : a[i] = EmptyRep[i]
    BY <1>4, <1>e, <2>1
  <2> QED
    BY <1>3, <1>e, <2>1, <2>2, SeqEqual
<1>6. a \o << >> = a /\ << >> \in Seq(Nat)
  BY <1>3, ConcatEmptySeq, EmptySeq
<1>7. Parts(EmptyRep, h, k, << >>)
  BY <1>1, <1>5, <1>6 DEF Parts, a
<1> QED
  BY <1>2, <1>7 DEF Batch

---------------------------------------------------------------------------
(* The records behind the header.                                          *)

\* f[i] is the bytes of the updates behind the first i.
Laid(us, f) ==
    /\ f \in [0 .. Len(us) -> Seq(Nat)]
    /\ f[Len(us)] = << >>
    /\ \A i \in 1 .. Len(us) : f[i - 1] = Record(us[i]) \o f[i]

(* No updates: no bytes.                                                   *)
LEMMA LaidNone == \E f : Laid(<< >>, f) /\ f[0] = << >>
<1> DEFINE f == [i \in 0 .. 0 |-> << >>]
<1>1. Len(<< >>) = 0 /\ << >> \in Seq(Nat)
  BY EmptySeq
<1>2. f \in [0 .. 0 -> Seq(Nat)] /\ f[0] = << >>
  BY <1>1
<1> HIDE DEF f
<1>3. \A i \in 1 .. 0 : f[i - 1] = Record(<< >>[i]) \o f[i]
  OBVIOUS
<1>4. Laid(<< >>, f)
  BY <1>1, <1>2, <1>3 DEF Laid
<1> QED
  BY <1>2, <1>4

(* One update: its record.                                                 *)
LEMMA LaidOne ==
    ASSUME NEW u \in Update
    PROVE  \E f : Laid(<<u>>, f) /\ f[0] = Record(u)
<1> DEFINE f == [i \in 0 .. 1 |-> IF i = 0 THEN Record(u) ELSE << >>]
           us == <<u>>
<1>1. Len(us) = 1 /\ us[1] = u
  OBVIOUS
<1>2. Record(u) \in Seq(Nat) /\ << >> \in Seq(Nat)
  BY RecordBytes, EmptySeq
<1>3. f \in [0 .. 1 -> Seq(Nat)] /\ f[0] = Record(u) /\ f[1] = << >>
  BY <1>2
<1> HIDE DEF f, us
<1>4. Record(u) \o << >> = Record(u)
  BY <1>2, ConcatEmptySeq
<1>5. ASSUME NEW i \in 1 .. Len(us) PROVE f[i - 1] = Record(us[i]) \o f[i]
  <2>1. i = 1 /\ i - 1 = 0
    BY <1>1
  <2> QED
    BY <1>1, <1>3, <1>4, <2>1
<1>6. Laid(us, f)
  BY <1>1, <1>3, <1>5 DEF Laid
<1> QED
  BY <1>3, <1>6 DEF us

\* us can be laid out as the bytes x.
LaidOut(us, x) == \E h : Laid(us, h) /\ h[0] = x

(* Updates behind updates.                                                 *)
LEMMA LaidBoth ==
    ASSUME NEW us \in Seq(Update), NEW f, Laid(us, f), NEW vs \in Seq(Update), NEW g, Laid(vs, g)
    PROVE  LaidOut(us \o vs, f[0] \o g[0])
<1> DEFINE m == Len(us)
           n == Len(vs)
           ws == us \o vs
           h == [i \in 0 .. m + n |-> IF i <= m THEN f[i] \o g[0] ELSE g[i - m]]
<1>1. /\ m \in Nat /\ n \in Nat /\ Len(ws) = m + n
      /\ \A i \in 1 .. m : ws[i] = us[i]
      /\ \A i \in 1 .. n : ws[m + i] = vs[i]
  BY Joined
<1>2. /\ f \in [0 .. m -> Seq(Nat)] /\ f[m] = << >>
      /\ \A i \in 1 .. m : f[i - 1] = Record(us[i]) \o f[i]
  BY DEF Laid
<1>3. /\ g \in [0 .. n -> Seq(Nat)] /\ g[n] = << >>
      /\ \A i \in 1 .. n : g[i - 1] = Record(vs[i]) \o g[i]
  BY DEF Laid
<1>r. /\ \A i \in 1 .. m : Record(us[i]) \in Seq(Nat)
  BY RecordBytes, ElementOfSeq
<1> HIDE DEF ws, m, n
<1>4. g[0] \in Seq(Nat) /\ << >> \o g[0] = g[0]
  <2>1. 0 \in 0 .. n
    BY <1>1
  <2>2. g[0] \in Seq(Nat)
    BY <1>3, <2>1
  <2> QED
    BY <2>2, ConcatEmptySeq
<1>5. /\ \A i \in 0 .. m : h[i] = f[i] \o g[0]
      /\ \A i \in 0 .. n : h[m + i] = g[i]
  <2>1. ASSUME NEW i \in 0 .. m PROVE h[i] = f[i] \o g[0]
    <3>1. i \in 0 .. m + n /\ i <= m
      BY <1>1
    <3> QED
      BY <3>1
  <2>2. ASSUME NEW i \in 0 .. n PROVE h[m + i] = g[i]
    <3>1. CASE i = 0
      <4>1. m + i = m /\ m \in 0 .. m
        BY <1>1, <3>1
      <4>2. h[m] = << >> \o g[0]
        BY <1>2, <2>1, <4>1
      <4> QED
        BY <1>4, <3>1, <4>1, <4>2
    <3>2. CASE i # 0
      <4>1. m + i \in 0 .. m + n /\ ~(m + i <= m) /\ (m + i) - m = i
        BY <1>1, <3>2
      <4> QED
        BY <4>1
    <3> QED
      BY <3>1, <3>2
  <2> QED
    BY <2>1, <2>2
<1>6. h \in [0 .. Len(ws) -> Seq(Nat)]
  <2>1. ASSUME NEW i \in 0 .. m + n PROVE h[i] \in Seq(Nat)
    <3>1. CASE i <= m
      <4>1. i \in 0 .. m /\ f[i] \in Seq(Nat)
        BY <1>2, <3>1
      <4>2. f[i] \o g[0] \in Seq(Nat)
        BY <1>4, <4>1, Joined
      <4> QED
        BY <1>5, <4>1, <4>2
    <3>2. CASE ~(i <= m)
      <4>1. PICK j \in 0 .. n : i = m + j
        <5>1. i - m \in 0 .. n /\ i = m + (i - m)
          BY <1>1, <3>2
        <5> QED
          BY <5>1
      <4> QED
        BY <1>3, <1>5, <4>1
    <3> QED
      BY <3>1, <3>2
  <2>2. h = [i \in 0 .. m + n |-> h[i]]
    OBVIOUS
  <2> HIDE DEF h
  <2>3. h \in [0 .. m + n -> Seq(Nat)]
    BY <2>1, <2>2
  <2> QED
    BY <1>1, <2>3
<1> HIDE DEF h
<1>7. h[Len(ws)] = << >>
  <2>1. n \in 0 .. n
    BY <1>1
  <2> QED
    BY <1>1, <1>3, <1>5, <2>1
<1>8. ASSUME NEW i \in 1 .. Len(ws) PROVE h[i - 1] = Record(ws[i]) \o h[i]
  <2>1. CASE i <= m
    <3>1. i \in 1 .. m /\ i \in 0 .. m /\ i - 1 \in 0 .. m
      BY <1>1, <2>1
    <3> DEFINE a == Record(us[i])
               b == f[i]
               c == g[0]
    <3>2. a \in Seq(Nat) /\ b \in Seq(Nat) /\ c \in Seq(Nat)
      BY <1>2, <1>4, <1>r, <3>1
    <3>3. f[i - 1] = a \o b /\ h[i - 1] = f[i - 1] \o c /\ h[i] = b \o c /\ ws[i] = us[i]
      BY <1>1, <1>2, <1>5, <3>1
    <3> HIDE DEF a, b, c
    <3>4. (a \o b) \o c = a \o (b \o c)
      BY <3>2, Joints
    <3>5. h[i - 1] = a \o h[i] /\ ws[i] = us[i]
      BY <3>3, <3>4
    <3> QED
      BY <3>5 DEF a
  <2>2. CASE ~(i <= m)
    <3>1. PICK j \in 1 .. n : i = m + j
      <4>1. i - m \in 1 .. n /\ i = m + (i - m)
        BY <1>1, <2>2
      <4> QED
        BY <4>1
    <3>2. j - 1 \in 0 .. n /\ j \in 0 .. n /\ i - 1 = m + (j - 1)
      BY <1>1, <3>1
    <3>3. h[i - 1] = g[j - 1] /\ h[i] = g[j] /\ ws[i] = vs[j]
      BY <1>1, <1>5, <3>1, <3>2
    <3> QED
      BY <1>3, <3>1, <3>3
  <2> QED
    BY <2>1, <2>2
<1>9. Laid(ws, h)
  BY <1>6, <1>7, <1>8 DEF Laid
<1>10. h[0] = f[0] \o g[0]
  <2>1. 0 \in 0 .. m
    BY <1>1
  <2> QED
    BY <1>5, <2>1
<1> QED
  BY <1>9, <1>10 DEF ws, LaidOut

\* d is the start of x, or all of it.
IsPart(d, x, whole) ==
    \E c \in 0 .. Len(x) : d = SubSeq(x, 1, c) /\ (whole <=> c = Len(x))

\* r is the batch of the updates us, or what was left of it; if it is whole,
\* they are what the client asked for.
BatchIs(r, us, f, whole, asked) ==
    /\ us \in Seq(Update) /\ Len(us) <= MaxRecords
    /\ Laid(us, f)
    /\ \E d : IsPart(d, f[0], whole) /\ Batch(r, Len(us), d)
    /\ whole => us = asked

(* A whole one.                                                            *)
LEMMA WholePart ==
    ASSUME NEW x \in Seq(Nat)
    PROVE  IsPart(x, x, TRUE) /\ \A d : IsPart(d, x, TRUE) => d = x
<1>1. SubSeq(x, 1, Len(x)) = x /\ Len(x) \in Nat
  BY SubSeqFull, LenProperties
<1>2. Len(x) \in 0 .. Len(x)
  BY <1>1
<1> QED
  BY <1>1, <1>2 DEF IsPart

\* The bytes of all updates.
LEMMA LaidBytes ==
    ASSUME NEW us \in Seq(Update), NEW f, Laid(us, f), NEW i \in 0 .. Len(us)
    PROVE  f[i] \in Seq(Nat) /\ Len(f[i]) \in Nat /\ f[0] \in Seq(Nat) /\ Len(f[0]) \in Nat
<1>1. Len(us) \in Nat
  BY LenProperties
<1>2. 0 \in 0 .. Len(us)
  BY <1>1
<1>3. f[i] \in Seq(Nat) /\ f[0] \in Seq(Nat)
  BY <1>2 DEF Laid
<1> QED
  BY <1>3, LenProperties

\* An empty batch is the batch of no updates.
LEMMA EmptyIs == \E us, f : BatchIs(EmptyRep, us, f, TRUE, << >>)
<1>1. PICK f : Laid(<< >>, f) /\ f[0] = << >>
  BY LaidNone
<1>2. << >> \in Seq(Nat) /\ << >> \in Seq(Update) /\ Len(<< >>) = 0
  BY EmptySeq
<1>3. 0 <= MaxRecords
  BY WidthsSuffice
<1>4. IsPart(<< >>, << >>, TRUE)
  BY <1>2, WholePart
<1>5. BatchIs(EmptyRep, << >>, f, TRUE, << >>)
  BY <1>1, <1>2, <1>3, <1>4, EmptyBatch DEF BatchIs
<1> QED
  BY <1>5

\* A whole batch holds the bytes of its updates, and counts them.
LEMMA WholeIs ==
    ASSUME NEW r, NEW us, NEW f, NEW asked, BatchIs(r, us, f, TRUE, asked)
    PROVE  /\ us = asked /\ us \in Seq(Update) /\ Laid(us, f) /\ Len(us) \in Nat
           /\ f[0] \in Seq(Nat)
           /\ Batch(r, Len(us), f[0]) /\ Count(r) = Len(us) /\ Data(r) = f[0]
<1>1. us = asked /\ us \in Seq(Update) /\ Laid(us, f)
  BY DEF BatchIs
<1>2. Len(us) \in Nat
  BY <1>1, LenProperties
<1>3. 0 \in 0 .. Len(us)
  BY <1>2
<1>4. f[0] \in Seq(Nat)
  BY <1>1, <1>3, LaidBytes
<1>5. Batch(r, Len(us), f[0])
  BY <1>4, WholePart DEF BatchIs
<1> QED
  BY <1>1, <1>2, <1>4, <1>5, BatchRead

\* Put, Delete and Append: a whole batch with more updates behind its own.
LEMMA GrowIs ==
    ASSUME NEW r, NEW us, NEW f, NEW asked, BatchIs(r, us, f, TRUE, asked),
           NEW vs \in Seq(Update), NEW g, Laid(vs, g), Len(asked) + Len(vs) <= MaxRecords
    PROVE  \E ws, h : BatchIs(SetCount(r, Count(r) + Len(vs)) \o g[0], ws, h, TRUE, asked \o vs)
<1>1. /\ us = asked /\ us \in Seq(Update) /\ Laid(us, f) /\ Len(us) \in Nat
      /\ f[0] \in Seq(Nat) /\ Batch(r, Len(us), f[0]) /\ Count(r) = Len(us)
  BY WholeIs
<1>2. Len(vs) \in Nat
  BY LenProperties
<1> DEFINE m == Len(us) + Len(vs)
           q == SetCount(r, m)
           ws == us \o vs
<1>3. m \in Nat /\ m <= MaxRecords /\ m < ByteRadix^Fixed32
  <2>1. Fixed32 \in 0 .. MaxDigits
    BY Widths
  <2>2. ByteRadix^Fixed32 \in Nat
    BY <2>1, Powers
  <2>3. m \in Nat /\ m <= MaxRecords
    BY <1>1, <1>2
  <2>4. MaxRecords \in Nat /\ MaxRecords < ByteRadix^Fixed32
    BY WidthsSuffice
  <2> QED
    BY <2>2, <2>3, <2>4
<1>4. ws \in Seq(Update) /\ Len(ws) = m
  BY <1>1, Joined
<1> HIDE DEF m
<1>5. Batch(q, m, f[0])
  BY <1>1, <1>3, SetCountIs
<1>6. g[0] \in Seq(Nat)
  <2>1. 0 \in 0 .. Len(vs)
    BY <1>2
  <2> QED
    BY <2>1, LaidBytes
<1>7. Batch(q \o g[0], m, f[0] \o g[0])
  BY <1>5, <1>6, BatchThen
<1> HIDE DEF q
<1>8. PICK h : Laid(ws, h) /\ h[0] = f[0] \o g[0]
  <2>1. us \in Seq(Update) /\ Laid(us, f) /\ vs \in Seq(Update) /\ Laid(vs, g)
    BY <1>1
  <2>2. LaidOut(us \o vs, f[0] \o g[0])
    BY <2>1, LaidBoth
  <2> QED
    BY <2>2 DEF LaidOut
<1>9. f[0] \o g[0] \in Seq(Nat)
  BY <1>1, <1>6, Joined
<1> DEFINE x == f[0] \o g[0]
<1>10. x \in Seq(Nat) /\ h[0] = x /\ Batch(q \o g[0], m, x)
  BY <1>7, <1>8, <1>9
<1> HIDE DEF x, q, ws
<1>11. IsPart(x, h[0], TRUE)
  BY <1>10, WholePart
<1>12. BatchIs(q \o g[0], ws, h, TRUE, ws)
  BY <1>3, <1>4, <1>8, <1>10, <1>11 DEF BatchIs
<1>13. Count(r) + Len(vs) = m /\ ws = asked \o vs
  BY <1>1 DEF m, ws
<1> QED
  BY <1>12, <1>13 DEF q

\* SetContents with less: a batch that is not whole.
LEMMA CutIs ==
    ASSUME NEW r, NEW us, NEW f, NEW asked, BatchIs(r, us, f, TRUE, asked),
           NEW c \in kHeader .. Len(r) - 1, NEW any
    PROVE  BatchIs(SubSeq(r, 1, c), us, f, FALSE, any)
<1>1. /\ us \in Seq(Update) /\ Laid(us, f) /\ Len(us) \in Nat
      /\ f[0] \in Seq(Nat) /\ Batch(r, Len(us), f[0])
  BY WholeIs
<1> DEFINE x == f[0]
           z == c - kHeader
           d == SubSeq(x, 1, z)
<1>2. kHeader \in Nat /\ Len(x) \in Nat /\ Len(r) = kHeader + Len(x)
  BY <1>1, BatchRead
<1>3. c \in kHeader .. Len(r) /\ z \in 0 .. Len(x) /\ z # Len(x)
  BY <1>2
<1>4. Batch(SubSeq(r, 1, c), Len(us), d)
  BY <1>1, <1>3, BatchCut
<1> HIDE DEF z
<1>5. IsPart(d, x, FALSE)
  BY <1>3 DEF IsPart
<1> HIDE DEF d
<1>6. Len(us) <= MaxRecords
  BY DEF BatchIs
<1> QED
  BY <1>1, <1>4, <1>5, <1>6 DEF BatchIs

\* A batch, whole or not, is given a number and is otherwise the same.
LEMMA NumberedIs ==
    ASSUME NEW r, NEW us, NEW f, NEW whole, NEW asked, BatchIs(r, us, f, whole, asked),
           NEW q \in Nat, q < ByteRadix^Fixed64
    PROVE  /\ BatchIs(SetSequence(r, q), us, f, whole, asked)
           /\ Sequence_(SetSequence(r, q)) = q
           /\ Count(r) = Len(us) /\ Len(us) \in Nat
           /\ Count(SetSequence(r, q)) = Len(us)
           /\ IsPart(Data(SetSequence(r, q)), f[0], whole)
<1>1. PICK d : IsPart(d, f[0], whole) /\ Batch(r, Len(us), d)
  BY DEF BatchIs
<1> DEFINE s == SetSequence(r, q)
<1>2. Batch(s, Len(us), d) /\ Sequence_(s) = q
  BY <1>1, SetSequenceIs
<1> HIDE DEF s
<1>3. Data(s) = d /\ Count(s) = Len(us)
  BY <1>2, BatchRead
<1>4. Count(r) = Len(us)
  BY <1>1, BatchRead
<1>5. Len(us) \in Nat
  BY LenProperties DEF BatchIs
<1>6. BatchIs(s, us, f, whole, asked)
  BY <1>1, <1>2 DEF BatchIs
<1> QED
  BY <1>1, <1>2, <1>3, <1>4, <1>5, <1>6 DEF s

\* What Iterate meets when it has handed on the first n updates of a batch.
LEMMA IterateMeets ==
    ASSUME NEW us \in Seq(Update), NEW f, Laid(us, f), NEW n \in Nat, n <= Len(us),
           NEW whole \in BOOLEAN, IsPart(inserter.input, f[n], whole)
    PROVE  /\ inserter.input = << >> => (whole <=> n = Len(us))
           /\ inserter.input # << >> /\ Parsed(Head(inserter.input)) =>
                /\ n < Len(us) /\ Head(inserter.input) = us[n + 1].type
                /\ NextKey.value = us[n + 1].user
                /\ us[n + 1].type = kTypeValue =>
                     NextValue.value = us[n + 1].value /\ IsPart(NextValue.rest, f[n + 1], whole)
                /\ us[n + 1].type # kTypeValue => IsPart(NextKey.rest, f[n + 1], whole)
           /\ inserter.input # << >> /\ ~Parsed(Head(inserter.input)) => ~whole
<1>0. Len(us) \in Nat
  BY LenProperties
<1>1. PICK c \in 0 .. Len(f[n]) : /\ inserter.input = SubSeq(f[n], 1, c)
                                  /\ whole <=> c = Len(f[n])
  BY DEF IsPart
<1>2. CASE n = Len(us)
  <2>1. f[n] = << >> /\ Len(<< >>) = 0
    BY <1>2, EmptySeq DEF Laid
  <2>2. c = 0 /\ whole
    BY <1>1, <2>1
  <2>3. inserter.input = << >>
    <3>1. SubSeq(<< >>, 1, 0) = << >>
      BY SubSeqEmpty
    <3> QED
      BY <1>1, <2>1, <2>2, <3>1
  <2> QED
    BY <1>2, <2>2, <2>3
<1>3. CASE n # Len(us)
  <2> DEFINE u == us[n + 1]
             g == f[n + 1]
             a == Record(u)
  <2>0. n + 1 \in 1 .. Len(us) /\ (n + 1) - 1 = n /\ n + 1 \in 0 .. Len(us) /\ n < Len(us)
    BY <1>0, <1>3
  <2>1. u \in Update
    BY <2>0, ElementOfSeq
  <2>2. g \in Seq(Nat) /\ Len(g) \in Nat
    BY <2>0, LaidBytes
  <2>3. f[n] = a \o g
    BY <2>0 DEF Laid
  <2> HIDE DEF u, g
  <2>4. a \in Seq(Nat) /\ Len(a) \in Nat /\ Len(a) >= 1
    BY <2>1, RecordBytes
  <2>5. inserter.input = SubSeq(a \o g, 1, c) /\ (whole <=> c = Len(a \o g))
    BY <1>1, <2>3
  <2>6. Len(a \o g) = Len(a) + Len(g)
    <3> HIDE DEF a
    <3> QED
      BY <2>2, <2>4, Joined
  <2>7. c \in Nat /\ c <= Len(a) + Len(g) /\ (whole <=> c = Len(a) + Len(g))
    BY <1>1, <2>2, <2>3, <2>4, <2>5, <2>6
  <2>8. CASE c = 0
    <3>1. SubSeq(a \o g, 1, 0) = << >>
      BY SubSeqEmpty
    <3>2. inserter.input = << >>
      BY <2>5, <2>8, <3>1
    <3>3. ~whole
      BY <2>2, <2>4, <2>7, <2>8
    <3> QED
      BY <1>3, <3>2, <3>3
  <2>9. CASE c >= 1 /\ c < Len(a)
    <3>1. SubSeq(a \o g, 1, c) = SubSeq(a, 1, c)
      <4> HIDE DEF a
      <4>1. c <= Len(a)
        BY <2>4, <2>7, <2>9
      <4> QED
        BY <2>2, <2>4, <2>7, <4>1, StartOfJoined
    <3>2. inserter.input = SubSeq(a, 1, c)
      BY <2>5, <3>1
    <3>3. inserter.input # << >> /\ ~Parsed(Head(inserter.input))
      BY <2>1, <2>7, <2>9, <3>2, RecordCut
    <3>4. ~whole
      BY <2>2, <2>4, <2>7, <2>9
    <3> QED
      BY <3>3, <3>4
  <2>10. CASE c >= Len(a)
    <3> DEFINE z == c - Len(a)
               rest == SubSeq(g, 1, z)
    <3>1. SubSeq(a \o g, 1, c) = a \o rest
      <4> HIDE DEF a
      <4> QED
        BY <2>2, <2>4, <2>7, <2>10, StartOfJoined
    <3>2. z \in Nat /\ z <= Len(g) /\ z \in 0 .. Len(g) /\ (whole <=> z = Len(g))
      BY <2>2, <2>4, <2>7, <2>10
    <3> HIDE DEF z
    <3>3. rest \in Seq(Nat)
      BY <2>2, <3>2, Start
    <3>4. IsPart(rest, g, whole)
      BY <3>2 DEF IsPart
    <3> HIDE DEF rest
    <3>5. inserter.input = Record(u) \o rest
      BY <2>5, <3>1
    <3>6. /\ inserter.input # << >> /\ Head(inserter.input) = u.type
          /\ Parsed(u.type)
          /\ NextKey.value = u.user
          /\ u.type = kTypeValue => NextValue.value = u.value /\ NextValue.rest = rest
          /\ u.type # kTypeValue => NextKey.rest = rest
      BY <2>1, <3>3, <3>5, RecordRead
    <3> QED
      BY <2>0, <3>4, <3>6 DEF u, g
  <2> QED
    BY <2>4, <2>7, <2>8, <2>9, <2>10
<1> QED
  BY <1>2, <1>3

---------------------------------------------------------------------------
(* The inductive invariant.                                                *)
(*                                                                         *)
(* The properties are not inductive.  What InsertInto finds depends on     *)
(* every byte of the batch, so each batch is the bytes of some updates, or *)
(* the start of them; while InsertInto runs, its input is what is left of  *)
(* them behind the updates that are already in the table, and the          *)
(* inserter's number is above all that are there.                          *)

BatchTypeOK ==
    /\ rep \in [Batches -> Seq(Nat)]
    /\ updates \in [Batches -> Seq(Update)]
    /\ cut \in SUBSET Batches
    /\ last_sequence \in Nat /\ last_sequence <= MaxSequence
    /\ inserter \in [active : BOOLEAN, batch : Batches \cup {"none"}, sequence : Nat,
                     input : Seq(Nat), found : Nat]
    /\ status \in {"none", "ok", "corruption"}

\* Every batch is what it should be.
RepsInv ==
    \A b \in Batches : \E us, f : BatchIs(rep[b], us, f, b \notin cut, updates[b])

\* The table holds the nth of the updates us, which got the last numbers.
Applied(t, us, n, last) ==
    \E i \in 1 .. Len(t) :
        IsEntry(t[i], last - Len(us) + n, us[n].type, us[n].user, us[n].value)

\* InsertInto runs, on the updates us.
RunningOn(us, f) ==
    /\ BatchIs(rep[inserter.batch], us, f, inserter.batch \notin cut, updates[inserter.batch])
    /\ inserter.found <= Len(us) /\ Len(us) <= last_sequence
    /\ inserter.sequence = last_sequence - Len(us) + inserter.found + 1
    /\ IsPart(inserter.input, f[inserter.found], inserter.batch \notin cut)
    /\ Numbered(table, last_sequence - Len(us) + inserter.found)
    /\ \A n \in 1 .. inserter.found : Applied(table, us, n, last_sequence)

Running ==
    /\ status = "none" /\ inserter.batch \in Batches
    /\ \E us, f : RunningOn(us, f)

\* InsertInto has returned, or was not called.
Returned ==
    /\ Numbered(table, last_sequence)
    /\ status = "ok" =>
         /\ inserter.batch \in Batches /\ inserter.batch \notin cut
         /\ \A n \in 1 .. Len(updates[inserter.batch]) :
              Applied(table, updates[inserter.batch], n, last_sequence)
    /\ status = "corruption" => inserter.batch \in cut

BatchInv ==
    /\ BatchTypeOK
    /\ RepsInv
    /\ Ordered(table) /\ Distinct(table)
    /\ inserter.active => Running
    /\ ~inserter.active => Returned

\* Numbers up to n are numbers up to more.
LEMMA NumberedUpTo ==
    ASSUME NEW s, NEW n \in Int, NEW m \in Int, n <= m, Numbered(s, n)
    PROVE  Numbered(s, m)
<1>1. ASSUME NEW i \in 1 .. Len(s) PROVE Number_(s[i]) \in 1 .. m
  <2>1. Number_(s[i]) \in 1 .. n
    BY DEF Numbered
  <2> QED
    BY <2>1
<1> QED
  BY <1>1 DEF Numbered

\* A whole batch, said in two ways.
LEMMA WholeSaid ==
    ASSUME NEW r, NEW us, NEW f, NEW asked, NEW P \in BOOLEAN, NEW Q \in BOOLEAN, P <=> Q,
           BatchIs(r, us, f, P, asked)
    PROVE  BatchIs(r, us, f, Q, asked)
<1>1. P = Q
  OBVIOUS
<1> QED
  BY <1>1

\* Every state of a run of the client's and the inserter's steps begins so.
LEMMA BatchInit == Init => BatchInv
<1> SUFFICES ASSUME Init PROVE BatchInv
  OBVIOUS
<1>1. /\ table = << >> /\ rep = [b \in Batches |-> EmptyRep]
      /\ updates = [b \in Batches |-> << >>] /\ cut = {} /\ last_sequence = 0
      /\ inserter = Idle /\ status = "none"
  BY DEF Init
<1>2. EmptyRep \in Seq(Nat)
  BY EmptyBatch, BatchRead
<1>3. << >> \in Seq(Update) /\ << >> \in Seq(Nat) /\ << >> \in Seq(Seq(Nat)) /\ Len(<< >>) = 0
  BY EmptySeq
<1>4. BatchTypeOK
  <2>1. rep \in [Batches -> Seq(Nat)] /\ updates \in [Batches -> Seq(Update)]
    BY <1>1, <1>2, <1>3
  <2>2. last_sequence \in Nat /\ last_sequence <= MaxSequence
    BY <1>1, WidthsSuffice
  <2>3. inserter \in [active : BOOLEAN, batch : Batches \cup {"none"}, sequence : Nat,
                      input : Seq(Nat), found : Nat]
    BY <1>1, <1>3 DEF Idle
  <2> QED
    BY <1>1, <2>1, <2>2, <2>3 DEF BatchTypeOK
<1>5. RepsInv
  <2> SUFFICES ASSUME NEW b \in Batches
               PROVE  \E us, f : BatchIs(rep[b], us, f, b \notin cut, updates[b])
    BY DEF RepsInv
  <2>1. PICK us, f : BatchIs(EmptyRep, us, f, TRUE, << >>)
    BY EmptyIs
  <2>2. rep[b] = EmptyRep /\ updates[b] = << >> /\ (TRUE <=> b \notin cut)
    BY <1>1
  <2>3. BatchIs(rep[b], us, f, TRUE, updates[b])
    BY <2>1, <2>2
  <2>4. BatchIs(rep[b], us, f, b \notin cut, updates[b])
    BY <2>2, <2>3, WholeSaid
  <2> QED
    BY <2>4
<1>6. Ordered(table) /\ Distinct(table) /\ Numbered(table, last_sequence)
  BY <1>1, <1>3 DEF Ordered, Distinct, Numbered
<1>7. ~inserter.active
  BY <1>1 DEF Idle
<1>8. Returned
  BY <1>1, <1>6 DEF Returned
<1> QED
  BY <1>4, <1>5, <1>6, <1>7, <1>8 DEF BatchInv

\* A step that changes one batch.
LEMMA OneRep ==
    ASSUME BatchTypeOK, RepsInv, NEW b \in Batches, NEW R, NEW A,
           rep' = [rep EXCEPT ![b] = R], updates' = [updates EXCEPT ![b] = A],
           R \in Seq(Nat), A \in Seq(Update),
           cut' \in SUBSET Batches, \A c \in Batches \ {b} : c \in cut' <=> c \in cut,
           NEW P \in BOOLEAN, P <=> b \notin cut',
           \E us, f : BatchIs(R, us, f, P, A)
    PROVE  /\ rep' \in [Batches -> Seq(Nat)] /\ updates' \in [Batches -> Seq(Update)]
           /\ RepsInv'
<1>1. rep \in [Batches -> Seq(Nat)] /\ updates \in [Batches -> Seq(Update)]
  BY DEF BatchTypeOK
<1>2. rep' \in [Batches -> Seq(Nat)] /\ updates' \in [Batches -> Seq(Update)]
  BY <1>1
<1>3. ASSUME NEW c \in Batches
      PROVE  \E us, f : BatchIs(rep'[c], us, f, c \notin cut', updates'[c])
  <2>1. CASE c = b
    <3>1. rep'[c] = R /\ updates'[c] = A
      BY <1>1, <2>1
    <3>2. PICK us, f : BatchIs(R, us, f, P, A)
      OBVIOUS
    <3>3. BatchIs(R, us, f, b \notin cut', A)
      BY <3>2, WholeSaid
    <3> QED
      BY <2>1, <3>1, <3>3
  <2>2. CASE c # b
    <3>1. rep'[c] = rep[c] /\ updates'[c] = updates[c]
      BY <1>1, <2>2
    <3>2. PICK us, f : BatchIs(rep[c], us, f, c \notin cut, updates[c])
      BY DEF RepsInv
    <3>3. c \notin cut <=> c \notin cut'
      BY <2>2
    <3>4. BatchIs(rep[c], us, f, c \notin cut', updates[c])
      BY <3>2, <3>3, WholeSaid
    <3> QED
      BY <3>1, <3>4
  <2> QED
    BY <2>1, <2>2
<1> QED
  BY <1>2, <1>3 DEF RepsInv

\* The client's own steps leave the table and what it holds alone.
LEMMA ClientKeeps ==
    ASSUME BatchInv, Client, RepsInv', cut' \in SUBSET Batches,
           rep' \in [Batches -> Seq(Nat)], updates' \in [Batches -> Seq(Update)]
    PROVE  BatchInv'
<1>1. /\ ~inserter.active /\ inserter' = Idle /\ status' = "none"
      /\ table' = table /\ last_sequence' = last_sequence
  BY DEF Client
<1>2. ~inserter'.active
  BY <1>1 DEF Idle
<1>3. BatchTypeOK'
  <2>1. inserter' \in [active : BOOLEAN, batch : Batches \cup {"none"}, sequence : Nat,
                       input : Seq(Nat), found : Nat]
    BY <1>1, EmptySeq DEF Idle
  <2>2. last_sequence \in Nat /\ last_sequence <= MaxSequence
    BY DEF BatchInv, BatchTypeOK
  <2> QED
    BY <1>1, <2>1, <2>2 DEF BatchTypeOK
<1>4. Numbered(table, last_sequence) /\ Ordered(table) /\ Distinct(table)
  BY <1>1 DEF BatchInv, Returned
<1>5. Returned'
  BY <1>1, <1>4 DEF Returned
<1> QED
  BY <1>1, <1>2, <1>3, <1>4, <1>5 DEF BatchInv

\* The client asks a whole batch for more.
LEMMA BuildingKeeps ==
    ASSUME BatchInv, NEW b \in Batches, NEW more \in Seq(Update), NEW g, Laid(more, g),
           Building(b, more),
           rep' = [rep EXCEPT ![b] = SetCount(rep[b], Count(rep[b]) + Len(more)) \o g[0]]
    PROVE  BatchInv'
<1> DEFINE R == SetCount(rep[b], Count(rep[b]) + Len(more)) \o g[0]
           A == updates[b] \o more
<1>1. /\ Client /\ b \notin cut /\ Len(updates[b]) + Len(more) <= MaxRecords
      /\ updates' = [updates EXCEPT ![b] = A] /\ cut' = cut
  BY DEF Building
<1>t. BatchTypeOK /\ RepsInv
  BY DEF BatchInv
<1>2. PICK us, f : BatchIs(rep[b], us, f, TRUE, updates[b])
  <2>1. PICK us, f : BatchIs(rep[b], us, f, b \notin cut, updates[b])
    BY <1>t DEF RepsInv
  <2>2. BatchIs(rep[b], us, f, TRUE, updates[b])
    BY <1>1, <2>1, WholeSaid
  <2> QED
    BY <2>2
<1>3. PICK ws, h : BatchIs(R, ws, h, TRUE, A)
  BY <1>1, <1>2, GrowIs
<1>4. R \in Seq(Nat)
  <2> HIDE DEF R, A
  <2>1. \E d : Batch(R, Len(ws), d)
    BY <1>3 DEF BatchIs
  <2> QED
    BY <2>1, BatchRead
<1>5. A \in Seq(Update)
  <2>1. updates[b] \in Seq(Update)
    BY <1>t DEF BatchTypeOK
  <2> QED
    BY <2>1, Joined
<1>6. cut' \in SUBSET Batches /\ (TRUE <=> b \notin cut') /\ \A c \in Batches \ {b} : c \in cut' <=> c \in cut
  BY <1>1, <1>t DEF BatchTypeOK
<1>r. rep' = [rep EXCEPT ![b] = R]
  OBVIOUS
<1> HIDE DEF R, A
<1>7. \E vs, k : BatchIs(R, vs, k, TRUE, A)
  BY <1>3
<1>8. /\ rep' \in [Batches -> Seq(Nat)] /\ updates' \in [Batches -> Seq(Update)]
      /\ RepsInv'
  BY <1>1, <1>4, <1>5, <1>6, <1>7, <1>r, <1>t, OneRep
<1> QED
  BY <1>1, <1>6, <1>8, ClientKeeps

\* What Put and Delete append is a record.
LEMMA RecordBehind ==
    ASSUME NEW u \in Update, NEW x \in Seq(Nat)
    PROVE  /\ u.type = kTypeValue =>
                x \o <<u.type>> \o PutLengthPrefixedSlice(u.user)
                  \o PutLengthPrefixedSlice(u.value) = x \o Record(u)
           /\ u.type # kTypeValue =>
                x \o <<u.type>> \o PutLengthPrefixedSlice(u.user) = x \o Record(u)
<1> DEFINE o == <<u.type>>
           k == PutLengthPrefixedSlice(u.user)
           v == RecordValue(u)
           a == o \o k
<1>1. k \in Seq(Nat) /\ v \in Seq(Nat)
  BY RecordBytes
<1>2. o \in Seq(Nat)
  BY UpdateParts
<1>3. Record(u) = a \o v
  BY DEF Record
<1>4. v = IF u.type = kTypeValue THEN PutLengthPrefixedSlice(u.value) ELSE << >>
  BY DEF RecordValue
<1> HIDE DEF o, k, v
<1>5. a \in Seq(Nat)
  BY <1>1, <1>2, Joined
<1>6. (x \o o) \o k = x \o a
  BY <1>1, <1>2, Joints
<1> HIDE DEF a
<1>7. (x \o a) \o v = x \o (a \o v)
  BY <1>1, <1>5, Joints
<1>8. a \o << >> = a
  BY <1>5, ConcatEmptySeq
<1>9. CASE u.type = kTypeValue
  <2>1. ((x \o o) \o k) \o v = x \o Record(u)
    BY <1>3, <1>6, <1>7
  <2> QED
    BY <1>4, <1>9, <2>1 DEF o, k
<1>10. CASE u.type # kTypeValue
  <2>1. (x \o o) \o k = x \o Record(u)
    BY <1>3, <1>4, <1>6, <1>8, <1>10
  <2> QED
    BY <1>10, <2>1 DEF o, k
<1> QED
  BY <1>9, <1>10

\* Put and Delete.
LEMMA UpdateKeeps ==
    ASSUME BatchInv, NEW b \in Batches, NEW u \in Update, Building(b, <<u>>),
           rep' = [rep EXCEPT ![b] = SetCount(rep[b], Count(rep[b]) + 1) \o Record(u)]
    PROVE  BatchInv'
<1>1. PICK g : Laid(<<u>>, g) /\ g[0] = Record(u)
  BY LaidOne
<1>2. <<u>> \in Seq(Update) /\ Len(<<u>>) = 1
  OBVIOUS
<1>3. rep' = [rep EXCEPT ![b] = SetCount(rep[b], Count(rep[b]) + Len(<<u>>)) \o g[0]]
  BY <1>1, <1>2
<1> DEFINE more == <<u>>
<1>4. more \in Seq(Update) /\ Laid(more, g) /\ Building(b, more)
      /\ rep' = [rep EXCEPT ![b] = SetCount(rep[b], Count(rep[b]) + Len(more)) \o g[0]]
  BY <1>1, <1>2, <1>3
<1> HIDE DEF more
<1> QED
  BY <1>4, BuildingKeeps

\* The batch that Put and Delete change is one, with the new count.
LEMMA CountedIs ==
    ASSUME BatchInv, NEW b \in Batches, b \notin cut, NEW n \in Nat,
           Len(updates[b]) + n <= MaxRecords
    PROVE  SetCount(rep[b], Count(rep[b]) + n) \in Seq(Nat)
<1>1. PICK us, f : BatchIs(rep[b], us, f, TRUE, updates[b])
  <2>1. PICK us, f : BatchIs(rep[b], us, f, b \notin cut, updates[b])
    BY DEF BatchInv, RepsInv
  <2>2. BatchIs(rep[b], us, f, TRUE, updates[b])
    BY <2>1, WholeSaid
  <2> QED
    BY <2>2
<1>2. /\ us = updates[b] /\ Len(us) \in Nat
      /\ Batch(rep[b], Len(us), f[0]) /\ Count(rep[b]) = Len(us)
  BY <1>1, WholeIs
<1> DEFINE m == Len(us) + n
<1>3. m \in Nat /\ m < ByteRadix^Fixed32
  <2>1. Fixed32 \in 0 .. MaxDigits
    BY Widths
  <2>2. ByteRadix^Fixed32 \in Nat
    BY <2>1, Powers
  <2>3. m \in Nat /\ m <= MaxRecords
    BY <1>2
  <2> QED
    BY <2>2, <2>3, WidthsSuffice
<1> HIDE DEF m
<1>4. Batch(SetCount(rep[b], m), m, f[0])
  BY <1>2, <1>3, SetCountIs
<1>5. SetCount(rep[b], m) \in Seq(Nat)
  BY <1>4, BatchRead
<1> QED
  BY <1>2, <1>5 DEF m

\* Put on a whole batch.
LEMMA PutKeeps ==
    ASSUME BatchInv, NEW b \in Batches, NEW user \in UserKeys, NEW value \in Values,
           Put(b, user, value)
    PROVE  BatchInv'
<1> DEFINE u == [type |-> kTypeValue, user |-> user, value |-> value]
           x == SetCount(rep[b], Count(rep[b]) + 1)
<1>1. u \in Update /\ u.type = kTypeValue /\ u.user = user /\ u.value = value
  BY DEF Update, kTypeValue, kTypeDeletion
<1>2. Building(b, <<u>>)
  BY DEF Put
<1>3. x \in Seq(Nat)
  <2>1. Len(<<u>>) = 1
    OBVIOUS
  <2>2. b \notin cut /\ Len(updates[b]) + 1 <= MaxRecords
    BY <1>2, <2>1 DEF Building
  <2> QED
    BY <2>2, CountedIs
<1>4. rep' = [rep EXCEPT ![b] = x \o <<kTypeValue>> \o PutLengthPrefixedSlice(user)
                                  \o PutLengthPrefixedSlice(value)]
  BY DEF Put
<1> HIDE DEF u, x
<1>5. x \o <<u.type>> \o PutLengthPrefixedSlice(u.user)
                  \o PutLengthPrefixedSlice(u.value) = x \o Record(u)
  BY <1>1, <1>3, RecordBehind
<1>6. rep' = [rep EXCEPT ![b] = x \o Record(u)]
  BY <1>1, <1>4, <1>5
<1> QED
  BY <1>1, <1>2, <1>6, UpdateKeeps DEF x

\* Delete on a whole batch.
LEMMA DeleteKeeps ==
    ASSUME BatchInv, NEW b \in Batches, NEW user \in Deleted, Delete(b, user)
    PROVE  BatchInv'
<1> DEFINE u == [type |-> kTypeDeletion, user |-> user, value |-> << >>]
           x == SetCount(rep[b], Count(rep[b]) + 1)
<1>1. u \in Update /\ u.type = kTypeDeletion /\ u.user = user /\ u.type # kTypeValue
  BY DeletedAssumption DEF Update, kTypeValue, kTypeDeletion
<1>2. Building(b, <<u>>)
  BY DEF Delete
<1>3. x \in Seq(Nat)
  <2>1. Len(<<u>>) = 1
    OBVIOUS
  <2>2. b \notin cut /\ Len(updates[b]) + 1 <= MaxRecords
    BY <1>2, <2>1 DEF Building
  <2> QED
    BY <2>2, CountedIs
<1>4. rep' = [rep EXCEPT ![b] = x \o <<kTypeDeletion>> \o PutLengthPrefixedSlice(user)]
  BY DEF Delete
<1> HIDE DEF u, x
<1>5. x \o <<u.type>> \o PutLengthPrefixedSlice(u.user) = x \o Record(u)
  BY <1>1, <1>3, RecordBehind
<1>6. rep' = [rep EXCEPT ![b] = x \o Record(u)]
  BY <1>1, <1>4, <1>5
<1> QED
  BY <1>1, <1>2, <1>6, UpdateKeeps DEF x

\* Clear on any batch: what is left is whole, and empty.
LEMMA ClearKeeps ==
    ASSUME BatchInv, NEW b \in Batches, Clear(b)
    PROVE  BatchInv'
<1>1. /\ Client /\ rep' = [rep EXCEPT ![b] = EmptyRep]
      /\ updates' = [updates EXCEPT ![b] = << >>] /\ cut' = cut \ {b}
  BY DEF Clear
<1>t. BatchTypeOK /\ RepsInv
  BY DEF BatchInv
<1>2. EmptyRep \in Seq(Nat) /\ << >> \in Seq(Update)
  BY EmptyBatch, BatchRead, EmptySeq
<1>3. /\ cut' \in SUBSET Batches /\ (TRUE <=> b \notin cut')
      /\ \A c \in Batches \ {b} : c \in cut' <=> c \in cut
  BY <1>1, <1>t DEF BatchTypeOK
<1>4. /\ rep' \in [Batches -> Seq(Nat)] /\ updates' \in [Batches -> Seq(Update)]
      /\ RepsInv'
  BY <1>1, <1>2, <1>3, <1>t, EmptyIs, OneRep
<1> QED
  BY <1>1, <1>3, <1>4, ClientKeeps

\* Append of a batch, itself included, behind a whole one.
LEMMA AppendKeeps ==
    ASSUME BatchInv, NEW dst \in Batches, NEW src \in Batches, AppendBatch(dst, src)
    PROVE  BatchInv'
<1>1. /\ src \notin cut /\ Building(dst, updates[src])
      /\ rep' = [rep EXCEPT ![dst] = SetCount(rep[dst], Count(rep[dst]) + Count(rep[src]))
                                       \o Data(rep[src])]
  BY DEF AppendBatch
<1>2. PICK us, f : BatchIs(rep[src], us, f, TRUE, updates[src])
  <2>1. PICK us, f : BatchIs(rep[src], us, f, src \notin cut, updates[src])
    BY DEF BatchInv, RepsInv
  <2>2. BatchIs(rep[src], us, f, TRUE, updates[src])
    BY <1>1, <2>1, WholeSaid
  <2> QED
    BY <2>2
<1>3. /\ us = updates[src] /\ us \in Seq(Update) /\ Laid(us, f)
      /\ Count(rep[src]) = Len(us) /\ Data(rep[src]) = f[0]
  BY <1>2, WholeIs
<1>4. /\ Building(dst, us)
      /\ rep' = [rep EXCEPT ![dst] = SetCount(rep[dst], Count(rep[dst]) + Len(us)) \o f[0]]
  BY <1>1, <1>3
<1> QED
  BY <1>3, <1>4, BuildingKeeps

\* SetContents with less than the batch held.
LEMMA CutKeeps ==
    ASSUME BatchInv, NEW b \in Batches, CutOff(b)
    PROVE  BatchInv'
<1>1. /\ Client /\ b \notin cut /\ cut' = cut \cup {b}
      /\ updates' = [updates EXCEPT ![b] = << >>]
  BY DEF CutOff
<1>t. BatchTypeOK /\ RepsInv
  BY DEF BatchInv
<1>2. PICK c \in kHeader .. Len(rep[b]) - 1 : rep' = [rep EXCEPT ![b] = SubSeq(rep[b], 1, c)]
  BY DEF CutOff
<1>3. PICK us, f : BatchIs(rep[b], us, f, TRUE, updates[b])
  <2>1. PICK us, f : BatchIs(rep[b], us, f, b \notin cut, updates[b])
    BY <1>t DEF RepsInv
  <2>2. BatchIs(rep[b], us, f, TRUE, updates[b])
    BY <1>1, <2>1, WholeSaid
  <2> QED
    BY <2>2
<1> DEFINE R == SubSeq(rep[b], 1, c)
<1>4. BatchIs(R, us, f, FALSE, << >>)
  BY <1>2, <1>3, CutIs
<1>r. rep' = [rep EXCEPT ![b] = R]
  BY <1>2
<1> HIDE DEF R
<1>5. R \in Seq(Nat) /\ << >> \in Seq(Update)
  <2>1. \E d : Batch(R, Len(us), d)
    BY <1>4 DEF BatchIs
  <2> QED
    BY <2>1, BatchRead, EmptySeq
<1>6. /\ cut' \in SUBSET Batches /\ (FALSE <=> b \notin cut')
      /\ \A e \in Batches \ {b} : e \in cut' <=> e \in cut
  BY <1>1, <1>t DEF BatchTypeOK
<1>7. \E vs, k : BatchIs(R, vs, k, FALSE, << >>)
  BY <1>4
<1>8. /\ rep' \in [Batches -> Seq(Nat)] /\ updates' \in [Batches -> Seq(Update)]
      /\ RepsInv'
  BY <1>1, <1>5, <1>6, <1>7, <1>r, <1>t, OneRep
<1> QED
  BY <1>1, <1>6, <1>8, ClientKeeps

---------------------------------------------------------------------------
(* InsertInto and the steps of Iterate.                                    *)

\* The client numbers a batch, whole or not, and calls InsertInto.
LEMMA InsertIntoKeeps ==
    ASSUME BatchInv, NEW b \in Batches, InsertInto(b)
    PROVE  BatchInv'
<1> DEFINE q == last_sequence + 1
           R == SetSequence(rep[b], q)
<1>1. /\ ~inserter.active /\ Count(rep[b]) > 0
      /\ last_sequence + Count(rep[b]) <= MaxSequence
      /\ rep' = [rep EXCEPT ![b] = R]
      /\ inserter' = [active |-> TRUE, batch |-> b, sequence |-> Sequence_(rep'[b]),
                      input |-> Data(rep'[b]), found |-> 0]
      /\ last_sequence' = last_sequence + Count(rep[b])
      /\ status' = "none" /\ table' = table /\ updates' = updates /\ cut' = cut
  BY DEF InsertInto
<1>t. /\ BatchTypeOK /\ RepsInv
      /\ last_sequence \in Nat /\ rep \in [Batches -> Seq(Nat)]
      /\ updates \in [Batches -> Seq(Update)]
  BY DEF BatchInv, BatchTypeOK
<1> DEFINE W == b \notin cut
<1>2. PICK us, f : BatchIs(rep[b], us, f, W, updates[b])
  BY <1>t DEF RepsInv
<1>w. W \in BOOLEAN /\ (W <=> b \notin cut)
  OBVIOUS
<1> HIDE DEF W
<1>c. Count(rep[b]) = Len(us) /\ Len(us) \in Nat
  <2>1. PICK d : Batch(rep[b], Len(us), d)
    BY <1>2 DEF BatchIs
  <2> QED
    BY <1>2, <2>1, BatchRead, LenProperties DEF BatchIs
<1>3. q \in Nat /\ q < ByteRadix^Fixed64
  <2> DEFINE p == ByteRadix^(Fixed64 - 1)
             t == ByteRadix^Fixed64
  <2>1. Fixed64 \in 1 .. MaxDigits /\ Fixed64 - 1 \in 0 .. MaxDigits /\ Fixed64 \in 0 .. MaxDigits
    BY Widths
  <2>2. p \in Nat /\ t \in Nat /\ p < t
    BY <2>1, Powers
  <2>3. MaxSequence \in Nat /\ MaxSequence < p
    BY WidthsSuffice
  <2> HIDE DEF p, t
  <2>4. q <= MaxSequence
    BY <1>1, <1>c, <1>t, <2>3
  <2>5. q < t
    BY <1>t, <2>2, <2>3, <2>4
  <2> QED
    BY <1>t, <2>5 DEF t
<1> HIDE DEF q
<1>4. /\ BatchIs(R, us, f, W, updates[b])
      /\ Sequence_(R) = q
      /\ IsPart(Data(R), f[0], W)
  BY <1>2, <1>3, NumberedIs
<1> HIDE DEF R
<1>5. R \in Seq(Nat) /\ Data(R) \in Seq(Nat)
  <2>1. \E d : Batch(R, Len(us), d)
    BY <1>4 DEF BatchIs
  <2> QED
    BY <2>1, BatchRead
<1>6. rep'[b] = R
  BY <1>1, <1>t
<1>7. /\ inserter'.active /\ inserter'.batch = b /\ inserter'.sequence = q
      /\ inserter'.input = Data(R) /\ inserter'.found = 0
      /\ inserter' \in [active : BOOLEAN, batch : Batches \cup {"none"}, sequence : Nat,
                        input : Seq(Nat), found : Nat]
  BY <1>1, <1>3, <1>4, <1>5, <1>6
<1>8. /\ rep' \in [Batches -> Seq(Nat)] /\ updates' \in [Batches -> Seq(Update)]
      /\ RepsInv'
  <2>1. updates' = [updates EXCEPT ![b] = updates[b]] /\ updates[b] \in Seq(Update)
    BY <1>1, <1>t
  <2>2. /\ cut' \in SUBSET Batches /\ (W <=> b \notin cut')
        /\ \A c \in Batches \ {b} : c \in cut' <=> c \in cut
    BY <1>1, <1>t, <1>w DEF BatchTypeOK
  <2>3. \E vs, k : BatchIs(R, vs, k, W, updates[b])
    BY <1>4
  <2> DEFINE A == updates[b]
  <2>4. /\ updates' = [updates EXCEPT ![b] = A] /\ A \in Seq(Update)
        /\ \E vs, k : BatchIs(R, vs, k, W, A)
        /\ rep' = [rep EXCEPT ![b] = R] /\ R \in Seq(Nat)
        /\ BatchTypeOK /\ RepsInv /\ W \in BOOLEAN
    BY <1>1, <1>5, <1>t, <1>w, <2>1, <2>3
  <2> HIDE DEF A
  <2> QED
    BY <2>2, <2>4, OneRep
<1>9. last_sequence' \in Nat /\ last_sequence' <= MaxSequence /\ last_sequence' = last_sequence + Len(us)
  BY <1>1, <1>c, <1>t
<1>10. BatchTypeOK'
  <2>1. cut' \in SUBSET Batches
    BY <1>1, <1>t DEF BatchTypeOK
  <2> QED
    BY <1>1, <1>7, <1>8, <1>9, <2>1 DEF BatchTypeOK
<1>11. Numbered(table, last_sequence) /\ Ordered(table) /\ Distinct(table)
  BY <1>1 DEF BatchInv, Returned
<1>12. RunningOn(us, f)'
  <2>1. BatchIs(R, us, f, b \notin cut, updates[b])
    BY <1>4, <1>w, WholeSaid
  <2>2. IsPart(Data(R), f[0], b \notin cut)
    <3>1. W = (b \notin cut)
      BY <1>w
    <3> QED
      BY <1>4, <3>1
  <2>3. /\ 0 <= Len(us) /\ Len(us) <= last_sequence'
        /\ q = last_sequence' - Len(us) + 0 + 1
        /\ last_sequence' - Len(us) + 0 = last_sequence
    BY <1>9, <1>c, <1>t DEF q
  <2>4. BatchIs(rep'[inserter'.batch], us, f, inserter'.batch \notin cut', updates'[inserter'.batch])
    BY <1>1, <1>6, <1>7, <2>1
  <2>5. IsPart(inserter'.input, f[inserter'.found], inserter'.batch \notin cut')
    BY <1>1, <1>7, <2>2
  <2>6. /\ inserter'.found <= Len(us) /\ Len(us) <= last_sequence'
        /\ inserter'.sequence = last_sequence' - Len(us) + inserter'.found + 1
    BY <1>7, <2>3
  <2>7. Numbered(table', last_sequence' - Len(us) + inserter'.found)
    BY <1>1, <1>7, <1>11, <2>3
  <2>8. \A n \in 1 .. inserter'.found : Applied(table', us, n, last_sequence')
    BY <1>7
  <2> QED
    BY <2>4, <2>5, <2>6, <2>7, <2>8 DEF RunningOn
<1>13. Running'
  <2>1. \E vs, k : RunningOn(vs, k)'
    BY <1>12
  <2> QED
    BY <1>1, <1>7, <2>1 DEF Running
<1> QED
  BY <1>1, <1>7, <1>8, <1>10, <1>11, <1>13 DEF BatchInv

\* While InsertInto runs: what it works on, with the parts named.
LEMMA RunningParts ==
    ASSUME BatchInv, inserter.active
    PROVE  \E us, f :
             /\ RunningOn(us, f) /\ us \in Seq(Update) /\ Laid(us, f) /\ Len(us) \in Nat
             /\ inserter.found \in Nat /\ inserter.found <= Len(us)
             /\ last_sequence \in Nat /\ Len(us) <= last_sequence
             /\ last_sequence <= MaxSequence
             /\ inserter.batch \in Batches /\ status = "none"
             /\ Count(rep[inserter.batch]) = Len(us)
             /\ inserter.batch \notin cut => us = updates[inserter.batch]
<1>1. Running /\ BatchTypeOK
  BY DEF BatchInv
<1>2. PICK us, f : RunningOn(us, f)
  BY <1>1 DEF Running
<1>3. BatchIs(rep[inserter.batch], us, f, inserter.batch \notin cut, updates[inserter.batch])
  BY <1>2 DEF RunningOn
<1>4. us \in Seq(Update) /\ Laid(us, f) /\ (inserter.batch \notin cut => us = updates[inserter.batch])
      /\ \E d : Batch(rep[inserter.batch], Len(us), d)
  BY <1>3 DEF BatchIs
<1>5. Count(rep[inserter.batch]) = Len(us)
  BY <1>4, BatchRead
<1>6. Len(us) \in Nat
  BY <1>4, LenProperties
<1>7. /\ inserter.found \in Nat /\ last_sequence \in Nat /\ last_sequence <= MaxSequence
      /\ inserter.batch \in Batches /\ status = "none"
  BY <1>1 DEF BatchTypeOK, Running
<1>8. inserter.found <= Len(us) /\ Len(us) <= last_sequence
  BY <1>2 DEF RunningOn
<1> QED
  BY <1>2, <1>4, <1>5, <1>6, <1>7, <1>8

\* Iterate hands on a record, and the inserter adds it.
LEMMA RecordKeeps ==
    ASSUME BatchInv, IterateRecord
    PROVE  BatchInv'
<1> DEFINE tag == Head(inserter.input)
           put == tag = kTypeValue
           n == inserter.found
           seq == inserter.sequence
           value == IF put THEN NextValue.value ELSE << >>
           rest == IF put THEN NextValue.rest ELSE NextKey.rest
           e == Entry(seq, tag, NextKey.value, value)
<1>1. /\ inserter.active /\ inserter.input # << >> /\ Parsed(tag)
      /\ table' = Insert(table, e)
      /\ inserter' = [inserter EXCEPT !.found = n + 1, !.sequence = seq + 1, !.input = rest]
      /\ rep' = rep /\ updates' = updates /\ cut' = cut
      /\ last_sequence' = last_sequence /\ status' = status
  BY DEF IterateRecord, Add
<1>2. PICK us, f :
             /\ RunningOn(us, f) /\ us \in Seq(Update) /\ Laid(us, f) /\ Len(us) \in Nat
             /\ n \in Nat /\ n <= Len(us)
             /\ last_sequence \in Nat /\ Len(us) <= last_sequence
             /\ last_sequence <= MaxSequence
             /\ inserter.batch \in Batches /\ status = "none"
  BY <1>1, RunningParts
<1> DEFINE W == inserter.batch \notin cut
           u == us[n + 1]
           g == f[n + 1]
<1>3. IsPart(inserter.input, f[n], W) /\ W \in BOOLEAN
  BY <1>2 DEF RunningOn
<1>w. W <=> inserter.batch \notin cut
  OBVIOUS
<1> HIDE DEF W
<1>4. /\ n < Len(us) /\ tag = u.type /\ NextKey.value = u.user
      /\ u.type = kTypeValue => NextValue.value = u.value /\ IsPart(NextValue.rest, g, W)
      /\ u.type # kTypeValue => IsPart(NextKey.rest, g, W)
  BY <1>1, <1>2, <1>3, IterateMeets
<1>5. u \in Update
  <2>1. n + 1 \in 1 .. Len(us)
    BY <1>2, <1>4
  <2> QED
    BY <1>2, <2>1, ElementOfSeq
<1>6. /\ u.type \in {kTypeDeletion, kTypeValue} /\ u.user \in UserKeys
      /\ u.value \in Values \cup {<< >>} /\ (u.type = kTypeDeletion => u.value = << >>)
  BY <1>5, UpdateParts
<1>g. g \in Seq(Nat)
  <2>1. n + 1 \in 0 .. Len(us)
    BY <1>2, <1>4
  <2> QED
    BY <1>2, <2>1, LaidBytes
<1>7. value = u.value /\ IsPart(rest, g, W)
  BY <1>4, <1>6
<1> DEFINE m == last_sequence - Len(us) + n
<1>8. m \in Nat /\ seq = m + 1 /\ m + 1 <= last_sequence /\ last_sequence - Len(us) + (n + 1) = m + 1
  <2>1. seq = last_sequence - Len(us) + n + 1
    BY <1>2 DEF RunningOn
  <2>2. n \in Nat /\ n < Len(us)
    BY <1>2, <1>4
  <2>3. Len(us) \in Nat /\ last_sequence \in Nat /\ Len(us) <= last_sequence
    BY <1>2, LenProperties DEF RunningOn, BatchInv, BatchTypeOK
  <2> QED
    BY <2>1, <2>2, <2>3
<1>9. Numbered(table, m)
  BY <1>2 DEF RunningOn
<1>10. e = Entry(m + 1, u.type, u.user, u.value)
  BY <1>4, <1>7, <1>8
<1>n. n \in Nat
  BY <1>2
<1> HIDE DEF value, rest, e, g
<1>11. IsEntry(e, m + 1, u.type, u.user, u.value)
  <2> DEFINE p == ByteRadix^(Fixed64 - 1)
  <2>1. Fixed64 - 1 \in 0 .. MaxDigits
    BY Widths
  <2>2. p \in Nat
    BY <2>1, Powers
  <2>3. MaxSequence \in Nat /\ MaxSequence < p
    BY WidthsSuffice
  <2> HIDE DEF p, m
  <2>4. m + 1 \in Nat /\ m + 1 < p
    BY <1>2, <1>8, <2>2, <2>3
  <2> QED
    BY <1>6, <1>10, <2>4 DEF IsEntry, p
<1> HIDE DEF m, u
<1>12. e \in Seq(Nat) /\ User(e) \in Seq(Nat) /\ Number_(e) = m + 1
  BY <1>11, EntryParts
<1>13. Ordered(table) /\ Distinct(table)
  BY DEF BatchInv
<1>14. Numbered(table', m + 1) /\ Ordered(table') /\ Distinct(table')
  <2>1. Numbered(Insert(table, e), m + 1) /\ Ordered(Insert(table, e))
    BY <1>8, <1>9, <1>12, <1>13, InsertKeepsOrder
  <2>2. Distinct(Insert(table, e))
    BY <1>8, <1>9, <1>12, <1>13, InsertKeepsDistinct
  <2> QED
    BY <1>1, <2>1, <2>2
<1>15. /\ \E i \in 1 .. Len(table') : table'[i] = e
       /\ \A j \in 1 .. Len(table) : \E i \in 1 .. Len(table') : table'[i] = table[j]
  <2>1. table \in Seq(Seq(Nat))
    BY <1>9 DEF Numbered
  <2> DEFINE t == Insert(table, e)
  <2>2. e \in Seq(Nat)
    BY <1>12
  <2>3. /\ \E i \in 1 .. Len(t) : t[i] = e
        /\ \A j \in 1 .. Len(table) : \E i \in 1 .. Len(t) : t[i] = table[j]
    BY <2>1, <2>2, InsertKeepsEntries
  <2>4. table' = t
    BY <1>1
  <2> HIDE DEF t
  <2> QED
    BY <2>3, <2>4
<1>t. BatchTypeOK /\ RepsInv
  BY DEF BatchInv
<1>i. /\ inserter \in [active : BOOLEAN, batch : Batches \cup {"none"}, sequence : Nat,
                       input : Seq(Nat), found : Nat]
  BY <1>t DEF BatchTypeOK
<1>16. /\ inserter'.active /\ inserter'.batch = inserter.batch
       /\ inserter'.found = n + 1 /\ inserter'.sequence = seq + 1 /\ inserter'.input = rest
  BY <1>1, <1>i
<1>17. BatchTypeOK'
  <2>1. rest \in Seq(Nat)
    <3>1. PICK c \in 0 .. Len(g) : rest = SubSeq(g, 1, c)
      BY <1>7 DEF IsPart
    <3>2. c \in Nat /\ c <= Len(g)
      BY <1>g, LenProperties
    <3> QED
      BY <1>g, <3>1, <3>2, Start
  <2>2. seq + 1 \in Nat /\ n + 1 \in Nat
    BY <1>8, <1>n
  <2>3. inserter' \in [active : BOOLEAN, batch : Batches \cup {"none"}, sequence : Nat,
                       input : Seq(Nat), found : Nat]
    BY <1>1, <1>i, <2>1, <2>2
  <2> QED
    BY <1>1, <1>t, <2>3 DEF BatchTypeOK
<1>18. RunningOn(us, f)'
  <2>1. BatchIs(rep[inserter.batch], us, f, inserter.batch \notin cut, updates[inserter.batch])
        /\ \A k \in 1 .. n : Applied(table, us, k, last_sequence)
    BY <1>2 DEF RunningOn
  <2>2. IsPart(rest, f[n + 1], inserter.batch \notin cut)
    <3>1. W = (inserter.batch \notin cut)
      BY <1>3, <1>w
    <3> QED
      BY <1>7, <3>1 DEF g
  <2>3. n + 1 <= Len(us) /\ seq + 1 = last_sequence - Len(us) + (n + 1) + 1
        /\ last_sequence - Len(us) + (n + 1) = m + 1
    BY <1>2, <1>4, <1>8
  <2>4. ASSUME NEW k \in 1 .. n + 1 PROVE Applied(table', us, k, last_sequence)
    <3>1. CASE k = n + 1
      <4>1. PICK i \in 1 .. Len(table') : table'[i] = e
        BY <1>15
      <4>2. IsEntry(table'[i], last_sequence - Len(us) + k, us[k].type, us[k].user, us[k].value)
        BY <1>11, <2>3, <3>1, <4>1 DEF u
      <4> QED
        BY <4>2 DEF Applied
    <3>2. CASE k # n + 1
      <4>1. k \in 1 .. n
        BY <1>n, <3>2
      <4>2. PICK j \in 1 .. Len(table) :
              IsEntry(table[j], last_sequence - Len(us) + k, us[k].type, us[k].user, us[k].value)
        BY <2>1, <4>1 DEF Applied
      <4>3. PICK i \in 1 .. Len(table') : table'[i] = table[j]
        BY <1>15
      <4>4. IsEntry(table'[i], last_sequence - Len(us) + k, us[k].type, us[k].user, us[k].value)
        BY <4>2, <4>3
      <4> QED
        BY <4>4 DEF Applied
    <3> QED
      BY <3>1, <3>2
  <2>5. BatchIs(rep'[inserter'.batch], us, f, inserter'.batch \notin cut', updates'[inserter'.batch])
    BY <1>1, <1>16, <2>1
  <2>6. IsPart(inserter'.input, f[inserter'.found], inserter'.batch \notin cut')
    BY <1>1, <1>16, <2>2
  <2>7. /\ inserter'.found <= Len(us) /\ Len(us) <= last_sequence'
        /\ inserter'.sequence = last_sequence' - Len(us) + inserter'.found + 1
    BY <1>1, <1>2, <1>16, <2>3
  <2>8. Numbered(table', last_sequence' - Len(us) + inserter'.found)
    BY <1>1, <1>14, <1>16, <2>3
  <2>9. \A k \in 1 .. inserter'.found : Applied(table', us, k, last_sequence')
    BY <1>1, <1>16, <2>4
  <2> QED
    BY <2>5, <2>6, <2>7, <2>8, <2>9 DEF RunningOn
<1>19. Running'
  <2>1. \E vs, k : RunningOn(vs, k)'
    BY <1>18
  <2> QED
    BY <1>1, <1>2, <1>16, <2>1 DEF Running
<1>20. RepsInv'
  BY <1>1, <1>t DEF RepsInv
<1> QED
  BY <1>14, <1>16, <1>17, <1>19, <1>20 DEF BatchInv

\* InsertInto returns, with what it has to say of the batch.
LEMMA ReturnKeeps ==
    ASSUME BatchInv, inserter.active, inserter' = [inserter EXCEPT !.active = FALSE],
           UNCHANGED <<table, rep, updates, cut, last_sequence>>,
           status' \in {"ok", "corruption"},
           status' = "ok" => /\ inserter.batch \notin cut
                             /\ inserter.found = Count(rep[inserter.batch]),
           status' = "corruption" => inserter.batch \in cut
    PROVE  BatchInv'
<1>1. PICK us, f :
             /\ RunningOn(us, f) /\ us \in Seq(Update) /\ Laid(us, f) /\ Len(us) \in Nat
             /\ inserter.found \in Nat /\ inserter.found <= Len(us)
             /\ last_sequence \in Nat /\ Len(us) <= last_sequence
             /\ inserter.batch \in Batches
             /\ Count(rep[inserter.batch]) = Len(us)
             /\ inserter.batch \notin cut => us = updates[inserter.batch]
  BY RunningParts
<1>t. BatchTypeOK /\ RepsInv /\ Ordered(table) /\ Distinct(table)
  BY DEF BatchInv
<1>i. inserter \in [active : BOOLEAN, batch : Batches \cup {"none"}, sequence : Nat,
                    input : Seq(Nat), found : Nat]
  BY <1>t DEF BatchTypeOK
<1>2. /\ ~inserter'.active /\ inserter'.batch = inserter.batch
      /\ inserter' \in [active : BOOLEAN, batch : Batches \cup {"none"}, sequence : Nat,
                        input : Seq(Nat), found : Nat]
  BY <1>i
<1>3. BatchTypeOK'
  BY <1>2, <1>t DEF BatchTypeOK
<1>4. RepsInv' /\ Ordered(table') /\ Distinct(table')
  BY <1>t DEF RepsInv
<1>5. Numbered(table, last_sequence)
  <2> DEFINE m == last_sequence - Len(us) + inserter.found
  <2>1. Numbered(table, m)
    BY <1>1 DEF RunningOn
  <2>2. m \in Int /\ last_sequence \in Int /\ m <= last_sequence
    BY <1>1
  <2> HIDE DEF m
  <2> QED
    BY <2>1, <2>2, NumberedUpTo
<1>6. ASSUME status' = "ok"
      PROVE  \A n \in 1 .. Len(updates[inserter.batch]) :
               Applied(table, updates[inserter.batch], n, last_sequence)
  <2>1. us = updates[inserter.batch] /\ inserter.found = Len(us)
    BY <1>1, <1>6
  <2>2. \A n \in 1 .. inserter.found : Applied(table, us, n, last_sequence)
    BY <1>1 DEF RunningOn
  <2> QED
    BY <2>1, <2>2
<1>7. Returned'
  BY <1>1, <1>2, <1>5, <1>6 DEF Returned
<1> QED
  BY <1>2, <1>3, <1>4, <1>7 DEF BatchInv

\* Iterate returns Corruption: what it had read is applied, and stays.
LEMMA CorruptKeeps ==
    ASSUME BatchInv, IterateCorrupt
    PROVE  BatchInv'
<1>1. /\ inserter.active /\ inserter.input # << >> /\ ~Parsed(Head(inserter.input))
      /\ status' = "corruption" /\ inserter' = [inserter EXCEPT !.active = FALSE]
      /\ UNCHANGED <<table, rep, updates, cut, last_sequence>>
  BY DEF IterateCorrupt
<1>2. PICK us, f :
             /\ RunningOn(us, f) /\ us \in Seq(Update) /\ Laid(us, f)
             /\ inserter.found \in Nat /\ inserter.found <= Len(us)
             /\ inserter.batch \in Batches
  BY <1>1, RunningParts
<1> DEFINE W == inserter.batch \notin cut
<1>3. IsPart(inserter.input, f[inserter.found], W) /\ W \in BOOLEAN
  BY <1>2 DEF RunningOn
<1>w. W <=> inserter.batch \notin cut
  OBVIOUS
<1> HIDE DEF W
<1>4. ~W
  BY <1>1, <1>2, <1>3, IterateMeets
<1>5. inserter.batch \in cut
  BY <1>4, <1>w
<1>6. status' # "ok" /\ status' \in {"ok", "corruption"}
  BY <1>1
<1> QED
  BY <1>1, <1>5, <1>6, ReturnKeeps

\* Iterate runs out of bytes and compares what it found with the count.
LEMMA EndKeeps ==
    ASSUME BatchInv, IterateEnd
    PROVE  BatchInv'
<1>1. /\ inserter.active /\ inserter.input = << >>
      /\ status' = IF inserter.found = Count(rep[inserter.batch]) THEN "ok" ELSE "corruption"
      /\ inserter' = [inserter EXCEPT !.active = FALSE]
      /\ UNCHANGED <<table, rep, updates, cut, last_sequence>>
  BY DEF IterateEnd
<1>2. PICK us, f :
             /\ RunningOn(us, f) /\ us \in Seq(Update) /\ Laid(us, f)
             /\ inserter.found \in Nat /\ inserter.found <= Len(us)
             /\ inserter.batch \in Batches
             /\ Count(rep[inserter.batch]) = Len(us)
  BY <1>1, RunningParts
<1> DEFINE W == inserter.batch \notin cut
<1>3. IsPart(inserter.input, f[inserter.found], W) /\ W \in BOOLEAN
  BY <1>2 DEF RunningOn
<1>w. W <=> inserter.batch \notin cut
  OBVIOUS
<1> HIDE DEF W
<1>4. W <=> inserter.found = Len(us)
  BY <1>1, <1>2, <1>3, IterateMeets
<1>5. /\ status' \in {"ok", "corruption"}
      /\ status' = "ok" => inserter.batch \notin cut /\ inserter.found = Count(rep[inserter.batch])
      /\ status' = "corruption" => inserter.batch \in cut
  BY <1>1, <1>2, <1>4, <1>w
<1> QED
  BY <1>1, <1>5, ReturnKeeps

---------------------------------------------------------------------------
(* The theorems.                                                           *)

\* Every step keeps the invariant.
LEMMA BatchNext == BatchInv /\ [Next]_vars => BatchInv'
<1> SUFFICES ASSUME BatchInv, [Next]_vars PROVE BatchInv'
  OBVIOUS
<1>1. ASSUME NEW b \in Batches, Build(b) PROVE BatchInv'
  <2>1. ASSUME NEW k \in UserKeys, NEW v \in Values, Put(b, k, v) PROVE BatchInv'
    BY <2>1, PutKeeps
  <2>2. ASSUME NEW k \in Deleted, Delete(b, k) PROVE BatchInv'
    BY <2>2, DeleteKeeps
  <2>3. CASE Clear(b)
    BY <2>3, ClearKeeps
  <2>4. ASSUME NEW src \in Batches, AppendBatch(b, src) PROVE BatchInv'
    BY <2>4, AppendKeeps
  <2>5. CASE CutOff(b)
    BY <2>5, CutKeeps
  <2>6. CASE InsertInto(b)
    BY <2>6, InsertIntoKeeps
  <2> QED
    BY <1>1, <2>1, <2>2, <2>3, <2>4, <2>5, <2>6 DEF Build
<1>2. CASE IterateRecord
  BY <1>2, RecordKeeps
<1>3. CASE IterateCorrupt
  BY <1>3, CorruptKeeps
<1>4. CASE IterateEnd
  BY <1>4, EndKeeps
<1>5. CASE UNCHANGED vars
  BY <1>5 DEF vars, BatchInv, BatchTypeOK, RepsInv, Running, RunningOn, Returned
<1> QED
  BY <1>1, <1>2, <1>3, <1>4, <1>5 DEF Next, Iterate

\* The client's batches, the inserter and the table are what BatchInv says, in
\* every state.
THEOREM BatchesInvariant == Spec => []BatchInv
  BY BatchInit, BatchNext, PTL DEF Spec

\* The numbers of the table, whether InsertInto runs or not.
LEMMA AllNumbered ==
    ASSUME BatchInv PROVE last_sequence \in Nat /\ Numbered(table, last_sequence)
<1>0. last_sequence \in Nat
  BY DEF BatchInv, BatchTypeOK
<1>1. CASE inserter.active
  <2>1. PICK us, f :
             /\ RunningOn(us, f) /\ Len(us) \in Nat
             /\ inserter.found \in Nat /\ inserter.found <= Len(us)
    BY <1>1, RunningParts
  <2> DEFINE m == last_sequence - Len(us) + inserter.found
  <2>2. Numbered(table, m)
    BY <2>1 DEF RunningOn
  <2>3. m \in Int /\ last_sequence \in Int /\ m <= last_sequence
    BY <1>0, <2>1
  <2> HIDE DEF m
  <2> QED
    BY <1>0, <2>2, <2>3, NumberedUpTo
<1>2. CASE ~inserter.active
  BY <1>0, <1>2 DEF BatchInv, Returned
<1> QED
  BY <1>1, <1>2

\* Entries are in the order of their user keys, the newest first, after any
\* inserts and while one runs: MemTable::Add over SkipList::Insert.
THEOREM TableNewestFirst == Spec => []NewestFirst
<1>1. BatchInv => NewestFirst
  BY DEF BatchInv, Ordered, InOrder, NewestFirst, UserAt, SequenceAt, User, Number_
<1> QED
  BY <1>1, BatchesInvariant, PTL

\* A seek of a user key, at any sequence number that covers all of the key's
\* entries, stops at the newest of them: what a reader with a current sequence
\* number rests on, in MemTableIterator::Seek and in Get.
THEOREM SeeksReachAnywhere == Spec => [](\A k \in UserKeys, s \in Nat : SeekReaches(k, s))
<1>1. ASSUME BatchInv PROVE \A k \in UserKeys, s \in Nat : SeekReaches(k, s)
  <2>1. Ordered(table)
    BY <1>1 DEF BatchInv
  <2> QED
    BY <1>1, <2>1, AllNumbered, SeekIs
<1> QED
  BY <1>1, BatchesInvariant, PTL

\* So does one at each of the sequence numbers that the table has been at, and
\* at the largest.
THEOREM SeeksReachKeys == Spec => []SeekReachesKey
<1>1. ASSUME BatchInv PROVE SeekReachesKey
  <2>1. Ordered(table) /\ last_sequence \in Nat /\ Numbered(table, last_sequence)
    BY <1>1, AllNumbered DEF BatchInv
  <2>2. \A i \in 1 .. Len(table) : SequenceAt(i) \in Nat
    BY <2>1 DEF Numbered, SequenceAt, Number_
  <2>3. kMaxSequenceNumber \in Nat
    <3> DEFINE r == ByteRadix^(Fixed64 - 1)
    <3>1. r \in Nat
      <4>1. Fixed64 - 1 \in 0 .. MaxDigits
        BY Widths
      <4> QED
        BY <4>1, Powers
    <3>2. MaxSequence \in Nat /\ MaxSequence < r
      BY WidthsSuffice
    <3> HIDE DEF r
    <3>3. r - 1 \in Nat
      BY <3>1, <3>2
    <3> QED
      BY <3>3 DEF kMaxSequenceNumber, r
  <2>4. Snapshots \subseteq Nat
    BY <2>2, <2>3 DEF Snapshots
  <2>5. \A k \in UserKeys, s \in Nat : SeekReaches(k, s)
    BY <2>1, SeekIs
  <2> QED
    BY <2>4, <2>5 DEF SeekReachesKey
<1> QED
  BY <1>1, BatchesInvariant, PTL

\* No two entries of the table share a sequence number, and all were given
\* out by the client, over any batches appended, cut off and inserted again.
THEOREM SequencesAreUnique == Spec => []SequencesUnique
<1>1. ASSUME BatchInv PROVE SequencesUnique
  <2>1. Distinct(table) /\ Numbered(table, last_sequence)
    BY <1>1, AllNumbered DEF BatchInv
  <2> QED
    BY <2>1 DEF Distinct, Numbered, SequencesUnique, SequenceAt, Number_
<1> QED
  BY <1>1, BatchesInvariant, PTL

\* InsertInto reports an error for the batches that were cut off, at whatever
\* byte, and for no others: WriteBatch::Iterate.
THEOREM CorruptionIsFound == Spec => []CorruptionFound
<1>1. BatchInv => CorruptionFound
  BY DEF BatchInv, Running, Returned, CorruptionFound
<1> QED
  BY <1>1, BatchesInvariant, PTL

\* A batch that InsertInto took without an error is in the table completely,
\* in order, with the types, keys and values the client asked for.
THEOREM BatchesAppliedWhole == Spec => []AppliedWhole
<1>1. ASSUME BatchInv PROVE AppliedWhole
  <2> SUFFICES ASSUME status = "ok", NEW n \in 1 .. Len(updates[inserter.batch])
               PROVE  \E i \in 1 .. Len(table) :
                        /\ SequenceAt(i) = last_sequence - Len(updates[inserter.batch]) + n
                        /\ Type(KeyOf(table[i])) = updates[inserter.batch][n].type
                        /\ UserAt(i) = updates[inserter.batch][n].user
                        /\ ValueOf(table[i]) = updates[inserter.batch][n].value
                        /\ Len(table[i]) = EncodedLen(updates[inserter.batch][n].user,
                                                      updates[inserter.batch][n].value)
    BY DEF AppliedWhole
  <2>1. Applied(table, updates[inserter.batch], n, last_sequence)
    BY <1>1 DEF BatchInv, Running, Returned
  <2> DEFINE us == updates[inserter.batch]
             seq == last_sequence - Len(us) + n
  <2>2. PICK i \in 1 .. Len(table) :
          IsEntry(table[i], seq, us[n].type, us[n].user, us[n].value)
    BY <2>1 DEF Applied
  <2> HIDE DEF seq
  <2>3. /\ User(table[i]) = us[n].user /\ Number_(table[i]) = seq
        /\ Type(KeyOf(table[i])) = us[n].type /\ ValueOf(table[i]) = us[n].value
        /\ Len(table[i]) = EncodedLen(us[n].user, us[n].value)
    BY <2>2, EntryParts
  <2> QED
    BY <2>3 DEF seq, User, Number_, UserAt, SequenceAt
<1> QED
  BY <1>1, BatchesInvariant, PTL

=============================================================================
