------------------------------ MODULE Coding ------------------------------
(***************************************************************************)
(* src/src/util/coding.cpp and coding.h: numbers and slices as bytes.      *)
(*                                                                         *)
(* A byte is a number below ByteRadix.  A varint's byte carries a digit    *)
(* below Radix, and Radix is added to it when more bytes follow.  A parse  *)
(* returns [ok, value, rest]: rest is what is left of the input.           *)
(***************************************************************************)
EXTENDS Naturals, Sequences, FiniteSets

CONSTANTS
    Radix,      \* 2^7
    MaxVarint,  \* bytes of the longest varint32: 5
    Fixed32,    \* bytes of a fixed-width 32-bit number: 4
    Fixed64     \* bytes of a fixed-width 64-bit number: 8

ASSUME RadixAssumption == Radix \in Nat /\ Radix >= 2
ASSUME WidthsAssumption ==
    /\ MaxVarint \in Nat /\ Fixed32 \in Nat \ {0} /\ Fixed64 \in Nat
    /\ Fixed32 < Fixed64
    /\ (2 * Radix)^Fixed32 <= Radix^MaxVarint
\* What the provers are not told of powers.
ASSUME PowersAssumption ==
    \A r \in {Radix, 2 * Radix} :
        /\ r^0 = 1
        /\ \A n \in 0 .. Fixed64 + MaxVarint : r^n \in Nat /\ r^(n + 1) = r * r^n

ByteRadix == 2 * Radix

\* The number with these digits in the given radix, the lowest first.
Number(digits, radix) ==
    LET sum[i \in 0 .. Len(digits)] ==
          IF i = 0 THEN 0 ELSE sum[i - 1] + digits[i] * radix^(i - 1)
    IN  sum[Len(digits)]

\* EncodeFixed32 and EncodeFixed64: the low bytes of v.
EncodeFixed(v, width) == [i \in 1 .. width |-> (v \div ByteRadix^(i - 1)) % ByteRadix]

DecodeFixed(bytes) == Number(bytes, ByteRadix)

VarintLength(v) == 1 + Cardinality({i \in 1 .. MaxVarint : v >= Radix^i})

EncodeVarint32(v) ==
    LET n == 1 + Cardinality({i \in 1 .. MaxVarint - 1 : v >= Radix^i})
    IN  [i \in 1 .. n |-> IF i < n THEN Radix + ((v \div Radix^(i - 1)) % Radix)
                          ELSE v \div Radix^(i - 1)]

Refused(rest) == [ok |-> FALSE, value |-> 0, rest |-> rest]

\* A varint ends with its first byte below Radix, among the first MaxVarint.
GetVarint32(input) ==
    LET n == 1 + Cardinality({ i \in 1 .. Len(input) :
                                 \A j \in 1 .. i : input[j] >= Radix })
        digits == [i \in 1 .. n |-> input[i] % Radix]
    IN  IF n > Len(input) \/ n > MaxVarint THEN Refused(input)
        ELSE [ok |-> TRUE, value |-> Number(digits, Radix) % ByteRadix^Fixed32,
              rest |-> SubSeq(input, n + 1, Len(input))]

PutLengthPrefixedSlice(slice) == EncodeVarint32(Len(slice)) \o slice

GetLengthPrefixedSlice(input) ==
    LET len == GetVarint32(input) IN
    IF len.ok /\ Len(len.rest) >= len.value
    THEN [ok |-> TRUE, value |-> SubSeq(len.rest, 1, len.value),
          rest |-> SubSeq(len.rest, len.value + 1, Len(len.rest))]
    ELSE Refused(len.rest)

=============================================================================
