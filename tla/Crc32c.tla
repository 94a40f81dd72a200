------------------------------ MODULE Crc32c ------------------------------
(***************************************************************************)
(* src/src/util/crc32c.cpp and crc32c.h: a checksum that is computed       *)
(* sixteen bytes at a time where the data allow it, and over a stream of   *)
(* pieces.  This is the code of the repository.  Where CMake finds         *)
(* Google's crc32c library, CanAccelerateCrc32C is true and Extend returns *)
(* what the library computes (lines 267 to 270); that is left out.         *)
(*                                                                         *)
(* A 32-bit word is the set of its bits, so exclusive or is the symmetric  *)
(* difference.  The five tables are given by what they contain: each of    *)
(* the 256 entries of each equals its definition here.                     *)
(***************************************************************************)
EXTENDS Naturals, Sequences
FX == INSTANCE FiniteSetsExt

Xor(a, b) == FX!SymDiff(a, b)

Bits32 == 0 .. 31
Bits8 == 0 .. 7

ShiftRight(w, k) == { i - k : i \in { j \in w : j >= k } }
ShiftLeft(w, k) == { i \in { j + k : j \in w } : i <= 31 }

\* The byte of w with the number k, 0 for the lowest.
ByteOfWord(w, k) == ShiftRight(w, 8 * k) \cap Bits8

\* The number as a byte.
Byte(n) == { b \in Bits8 : (n \div 2^b) % 2 = 1 }

\* w after n bits of zeros: the remainder of a division by the polynomial.
Polynomial == {3, 4, 5, 6, 8, 9, 11, 12, 13, 17, 18, 20, 21, 22, 23, 25, 31}

Divide(w) == IF 0 \in w THEN Xor(ShiftRight(w, 1), Polynomial) ELSE ShiftRight(w, 1)

Advance(w, n) ==
    LET after[i \in 0 .. n] == IF i = 0 THEN w ELSE Divide(after[i - 1])
    IN  IF w = {} THEN {} ELSE after[n]

\* Each byte, eight bits on.
kByteExtensionTable == [ b \in SUBSET Bits8 |-> Advance(b, 8) ]

STEP1(l, byte) ==
    Xor(kByteExtensionTable[Xor(l \cap Bits8, byte)], ShiftRight(l, 8))

\* w after sixteen bytes of zeros; and that for each byte of a word.
NextSwath(w) == LET after[i \in 0 .. 16] == IF i = 0 THEN w ELSE STEP1(after[i - 1], {})
                IN  after[16]

kStrideExtensionTable3 == [ b \in SUBSET Bits8 |-> NextSwath(b) ]
kStrideExtensionTable2 == [ b \in SUBSET Bits8 |-> NextSwath(ShiftLeft(b, 8)) ]
kStrideExtensionTable1 == [ b \in SUBSET Bits8 |-> NextSwath(ShiftLeft(b, 16)) ]
kStrideExtensionTable0 == [ b \in SUBSET Bits8 |-> NextSwath(ShiftLeft(b, 24)) ]

kCrc32Xor == Bits32

\* The four bytes of a piece after the first i, the lowest first.
ReadUint32LE(bytes, i) == UNION { ShiftLeft(Byte(bytes[i + k]), 8 * (k - 1)) : k \in 1 .. 4 }

STEP4(w, word) ==
    Xor(word, Xor(Xor(kStrideExtensionTable3[ByteOfWord(w, 0)], kStrideExtensionTable2[ByteOfWord(w, 1)]),
                  Xor(kStrideExtensionTable1[ByteOfWord(w, 2)], kStrideExtensionTable0[ByteOfWord(w, 3)])))

\* Four bytes that were already loaded into a word.
STEP4W(l, w) == STEP1(STEP1(STEP1(STEP1(Xor(w, l), {}), {}), {}), {})

RoundUp(p) == ((p + 3) \div 4) * 4

\* Addition of words, and the number with the opposite sign.
Plus(a, b) ==
    LET carry[i \in Bits32] ==
            i > 0 /\ \/ i - 1 \in a \cap b
                     \/ (i - 1 \in a \cup b) /\ carry[i - 1]
    IN  { i \in Bits32 : ((i \in a) # (i \in b)) # carry[i] }

Minus(a) == Plus(Bits32 \ a, {0})

Rotate(w, k) == ShiftRight(w, k) \cup ShiftLeft(w, 32 - k)

kMaskDelta == {3, 4, 6, 7, 9, 11, 13, 14, 15, 17, 23, 25, 29, 31}

Mask(crc) == Plus(Rotate(crc, 15), kMaskDelta)

Unmask(masked_crc) == Rotate(Plus(masked_crc, Minus(kMaskDelta)), 17)

---------------------------------------------------------------------------
(* Extend, for one piece of a stream after the other.  A step is a turn of *)
(* one of its loops.                                                       *)

CONSTANTS
    Pieces,    \* the strings that Extend is called with
    MaxPieces  \* bound

ASSUME PiecesAssumption == Pieces \subseteq Seq(0 .. 255)

VARIABLES
    crc,            \* the checksum of the pieces so far
    data, address,  \* the piece, and where it lies
    p, l, crcs,     \* Extend's variables: bytes taken, l, and crc0 to crc3
    at,             \* where Extend is
    remainder,      \* of all the bytes taken, as one number divided bit by bit
    pieces

crcVars == <<crc, data, address, p, l, crcs, at, remainder, pieces>>

CrcInit ==
    /\ crc = {} /\ data = << >> /\ address = 0
    /\ p = 0 /\ l = {} /\ crcs = << >> /\ at = "idle"
    /\ remainder = kCrc32Xor /\ pieces = 0

Left == Len(data) - p

\* The remainder after these bytes too.
Divided(w, bytes) ==
    LET after[i \in 0 .. Len(bytes)] ==
            IF i = 0 THEN w ELSE Advance(Xor(after[i - 1], Byte(bytes[i])), 8)
    IN  after[Len(bytes)]

Consume(n) ==
    /\ p' = p + n
    /\ remainder' = Divided(remainder, SubSeq(data, p + 1, p + n))
    /\ UNCHANGED <<crc, data, address, pieces>>

\* Extend is called with a piece at an address.
Call(d, a) ==
    /\ at = "idle"
    /\ pieces < MaxPieces
    /\ pieces' = pieces + 1
    /\ data' = d /\ address' = a
    /\ p' = 0 /\ l' = Xor(crc, kCrc32Xor) /\ at' = "lead"
    /\ UNCHANGED <<crc, crcs, remainder>>

\* Bytes before the first aligned address, if that is not behind the end.
InLead == RoundUp(address) <= address + Len(data) /\ address + p # RoundUp(address)

TakeByte ==
    /\ \/ at = "lead" /\ InLead
       \/ at = "tail" /\ Left > 0
    /\ l' = STEP1(l, Byte(data[p + 1]))
    /\ Consume(1)
    /\ UNCHANGED <<crcs, at>>

\* Fewer than sixteen bytes: all of them one by one.
Short ==
    /\ at = "lead" /\ ~InLead
    /\ Left < 16
    /\ at' = "tail"
    /\ UNCHANGED <<crc, data, address, p, l, crcs, remainder, pieces>>

\* The first sixteen begin the four strides.
Load ==
    /\ at = "lead" /\ ~InLead
    /\ Left >= 16
    /\ crcs' = << Xor(ReadUint32LE(data, p), l), ReadUint32LE(data, p + 4),
                  ReadUint32LE(data, p + 8), ReadUint32LE(data, p + 12) >>
    /\ at' = "strides"
    /\ Consume(16)
    /\ UNCHANGED l

STEP16 ==
    /\ at = "strides"
    /\ Left >= 16
    /\ crcs' = [ s \in 1 .. 4 |-> STEP4(crcs[s], ReadUint32LE(data, p + 4 * (s - 1))) ]
    /\ Consume(16)
    /\ UNCHANGED <<l, at>>

\* Fault: a stride that has taken a word keeps its place.
TakeWordInPlace ==
    /\ at = "strides"
    /\ Left \in 4 .. 15
    /\ crcs' = [crcs EXCEPT ![1] = STEP4(@, ReadUint32LE(data, p))]
    /\ Consume(4)
    /\ UNCHANGED <<l, at>>

\* A word more: the first stride takes it and becomes the last.
TakeWord ==
    /\ at = "strides"
    /\ Left \in 4 .. 15
    /\ crcs' = <<crcs[2], crcs[3], crcs[4], STEP4(crcs[1], ReadUint32LE(data, p))>>
    /\ Consume(4)
    /\ UNCHANGED <<l, at>>

Combine ==
    /\ at = "strides"
    /\ Left < 4
    /\ l' = STEP4W(STEP4W(STEP4W(STEP4W({}, crcs[1]), crcs[2]), crcs[3]), crcs[4])
    /\ at' = "tail"
    /\ UNCHANGED <<crc, data, address, p, crcs, remainder, pieces>>

Return ==
    /\ at = "tail"
    /\ Left = 0
    /\ crc' = Xor(l, kCrc32Xor)
    /\ at' = "idle"
    /\ UNCHANGED <<data, address, p, l, crcs, remainder, pieces>>

CrcNext ==
    \/ \E d \in Pieces, a \in 0 .. 3 : Call(d, a)
    \/ TakeByte \/ Short \/ Load \/ STEP16 \/ TakeWord \/ Combine \/ Return

CrcSpec == CrcInit /\ [][CrcNext]_crcVars

\* "Return the crc32c of concat(A, data[0,n-1]) where init_crc is the crc32c of
\* some string A" (crc32c.h): however a stream is cut into pieces and wherever
\* they lie, the result is the remainder of the whole; and the masked form that
\* is stored gives it back.
ExtendIsCrc ==
    (at = "idle" /\ pieces > 0) =>
        crc = Xor(remainder, kCrc32Xor) /\ Unmask(Mask(crc)) = crc

=============================================================================
