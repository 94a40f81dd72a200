---------------------------- MODULE LogFormat ----------------------------
(***************************************************************************)
(* src/src/log/log_format.h: the constants of the log's layout.  A byte is *)
(* a number.  A header is HeaderSize bytes: the checksum, which the writer *)
(* always leaves 0, the length of the fragment and its type.  The two      *)
(* bytes of the length are one byte here, so a header has at least two.    *)
(***************************************************************************)
EXTENDS Naturals, Sequences

CONSTANTS
    BlockSize,   \* kBlockSize
    HeaderSize   \* kHeaderSize

ASSUME SizesAssumption ==
    /\ HeaderSize \in Nat
    /\ BlockSize \in Nat
    /\ 2 <= HeaderSize
    /\ HeaderSize < BlockSize

kZeroType == 0
kFullType == 1
kFirstType == 2
kMiddleType == 3
kLastType == 4
kMaxRecordType == kLastType

\* n zero bytes: a block's trailer.
Zeros(n) == [i \in 1 .. n |-> 0]

\* s without its first n bytes.
From(s, n) == SubSeq(s, n + 1, Len(s))

\* The header of a fragment, and its two fields read back from the bytes s.
Header(type, length) == Zeros(HeaderSize - 2) \o <<length, type>>
LengthOf(s) == s[HeaderSize - 1]
TypeOf(s) == s[HeaderSize]

=============================================================================
