----------------------------- MODULE WALProofs -----------------------------
(***************************************************************************)
(* Proofs about the writer of the write-ahead log, for records of any      *)
(* bytes, blocks and buffers of any size, any number of reopenings,        *)
(* crashes and failed writes.                                              *)
(*                                                                         *)
(* First the offset in the block by which the writer chooses the           *)
(* fragments: it is that of the file's end (WriterInv, OffsetIsExact).     *)
(*                                                                         *)
(* Then where the records lie. LogInv says that there is a sequence F of   *)
(* fragments, each at the place where the one before it ends or in the     *)
(* next block, whose bytes the disk has as far as it goes, and that the    *)
(* acknowledged records are those whose fragments it has all of. Every     *)
(* step of the writer, and every crash, leaves such a sequence (LogStep).  *)
(* RecoveryProofs follows it with the reader.                              *)
(***************************************************************************)
EXTENDS WAL, DataInduction, SequenceTheorems, TLAPS

\* Leaves cite the assumptions they need.
HIDE TrailerAssumption
HIDE RecordsAssumption
HIDE ModulusAssumption
HIDE ManifestAssumption
HIDE BufferSizeAssumption
HIDE SizesAssumption
HIDE OffsetsAssumption

\* A file that a writer appends to, and one whose buffer does not run over.

File == [buf : Seq(Nat), disk : Seq(Nat), synced : Nat]

FileOK(f) == f \in File /\ Len(f.buf) <= BufferSize

WriterTypeOK ==
    /\ FileOK(file)
    /\ block_offset \in 0 .. BlockSize
    /\ left \in Seq(Nat) /\ faulty \in BOOLEAN

WriterInv == WriterTypeOK /\ OffsetFollowsFile

---------------------------------------------------------------------------
(* Numbers modulo the size of a block.                                     *)

\* A number of B * q and a rest has that rest.
LEMMA ModIs ==
    ASSUME NEW B \in Nat \ {0}, NEW q \in Int, NEW r \in 0 .. B - 1
    PROVE  ((B * q) + r) % B = r
<1> DEFINE x == (B * q) + r
           p == x \div B
           s == x % B
<1>1. x \in Int
  OBVIOUS
<1>2. p \in Int /\ s \in 0 .. B - 1 /\ x = (B * p) + s
  BY <1>1
<1> HIDE DEF p, s
<1>3. ASSUME p <= q - 1 PROVE FALSE
  <2>1. PICK d \in Nat : q = p + 1 + d
    <3>1. q - p - 1 \in Nat /\ q = p + 1 + (q - p - 1)
      BY <1>2, <1>3
    <3>2. QED
      BY <3>1
  <2>2. B * q = (B * p) + B + (B * d) /\ B * d \in Nat
    BY <1>2, <2>1
  <2>3. QED
    BY <1>2, <2>2
<1>4. ASSUME p >= q + 1 PROVE FALSE
  <2>1. PICK d \in Nat : p = q + 1 + d
    <3>1. p - q - 1 \in Nat /\ p = q + 1 + (p - q - 1)
      BY <1>2, <1>4
    <3>2. QED
      BY <3>1
  <2>2. B * p = (B * q) + B + (B * d) /\ B * d \in Nat
    BY <1>2, <2>1
  <2>3. QED
    BY <1>2, <2>2
<1>5. p = q
  BY <1>2, <1>3, <1>4
<1>6. s = r
  BY <1>2, <1>5
<1>7. QED
  BY <1>6 DEF s

(* Adding the same to two numbers of equal remainder keeps the remainders  *)
(* equal.                                                                  *)
LEMMA ModPlus ==
    ASSUME NEW B \in Nat \ {0}, NEW a \in Nat, NEW x \in Nat, a % B = x % B, NEW y \in Nat
    PROVE  (a + y) % B = (x + y) % B
<1> DEFINE p == a \div B
           q == x \div B
           r == a % B
           t == r + y
           u == t \div B
           v == t % B
<1>1. /\ p \in Int /\ r \in 0 .. B - 1 /\ a = (B * p) + r
      /\ q \in Int /\ x = (B * q) + r
  OBVIOUS
<1> HIDE DEF p, q, r
<1>2. u \in Int /\ v \in 0 .. B - 1 /\ t = (B * u) + v
  BY <1>1
<1> HIDE DEF u, v
<1>3. a + y = (B * (p + u)) + v /\ x + y = (B * (q + u)) + v /\ p + u \in Int /\ q + u \in Int
  BY <1>1, <1>2
<1>4. QED
  BY <1>2, <1>3, ModIs

\* The same, for the size of a block.
LEMMA BlockPlus ==
    \A u, v, w \in Nat : u % BlockSize = v % BlockSize => (u + w) % BlockSize = (v + w) % BlockSize
<1> SUFFICES ASSUME NEW u \in Nat, NEW v \in Nat, NEW w \in Nat, u % BlockSize = v % BlockSize
             PROVE  (u + w) % BlockSize = (v + w) % BlockSize
  OBVIOUS
<1>1. BlockSize \in Nat \ {0}
  BY SizesAssumption
<1>2. QED
  BY <1>1, ModPlus, Zenon

---------------------------------------------------------------------------
(* What the file's methods leave: nothing of the data is lost or moved     *)
(* unless a write fails.                                                   *)

\* A string is its first n bytes and the others.
LEMMA Halves ==
    ASSUME NEW S, NEW s \in Seq(S), NEW n \in 0 .. Len(s)
    PROVE  /\ SubSeq(s, 1, n) \in Seq(S) /\ Len(SubSeq(s, 1, n)) = n
           /\ SubSeq(s, n + 1, Len(s)) \in Seq(S)
           /\ Len(SubSeq(s, n + 1, Len(s))) = Len(s) - n
           /\ SubSeq(s, 1, n) \o SubSeq(s, n + 1, Len(s)) = s
<1>1. Len(s) \in Nat /\ n \in Nat /\ 1 \in 1 .. Len(s) + 1 /\ n \in 1 - 1 .. Len(s)
      /\ Len(s) \in n .. Len(s)
  OBVIOUS
<1>2. SubSeq(s, 1, n) \o SubSeq(s, n + 1, Len(s)) = SubSeq(s, 1, Len(s))
  BY <1>1, ConcatAdjacentSubSeq
<1>3. SubSeq(s, 1, Len(s)) = s
  BY SubSeqFull
<1>4. \A i \in 1 .. Len(s) : s[i] \in S
  OBVIOUS
<1>5. \A i \in 1 .. n : s[i] \in S
  BY <1>1, <1>4
<1>6. \A i \in n + 1 .. Len(s) : s[i] \in S
  BY <1>1, <1>4
<1>7. SubSeq(s, 1, n) \in Seq(S) /\ Len(SubSeq(s, 1, n)) = IF 1 <= n THEN n - 1 + 1 ELSE 0
  BY <1>1, <1>5, SubSeqProperties
<1>8. /\ SubSeq(s, n + 1, Len(s)) \in Seq(S)
      /\ Len(SubSeq(s, n + 1, Len(s))) = IF n + 1 <= Len(s) THEN Len(s) - (n + 1) + 1 ELSE 0
  <2> DEFINE m == n + 1
  <2>1. m \in Int /\ Len(s) \in Int /\ \A i \in m .. Len(s) : s[i] \in S
    BY <1>1, <1>6
  <2> HIDE DEF m
  <2>2. SubSeq(s, m, Len(s)) \in Seq(S)
        /\ Len(SubSeq(s, m, Len(s))) = IF m <= Len(s) THEN Len(s) - m + 1 ELSE 0
    BY <2>1, SubSeqProperties
  <2>3. QED
    BY <2>2 DEF m
<1> DEFINE a == SubSeq(s, 1, n)
           b == SubSeq(s, n + 1, Len(s))
           l == Len(s)
<1>9. a \in Seq(S) /\ b \in Seq(S) /\ a \o b = s
  BY <1>2, <1>3, <1>7, <1>8
<1>10. Len(a) = n /\ Len(b) = l - n
  <2>1. l \in Nat /\ n \in 0 .. l
    BY <1>1
  <2>2. Len(a) = IF 1 <= n THEN n - 1 + 1 ELSE 0
    BY <1>7
  <2>3. Len(b) = IF n + 1 <= l THEN l - (n + 1) + 1 ELSE 0
    BY <1>8
  <2> HIDE DEF a, b, l
  <2>4. QED
    BY <2>1, <2>2, <2>3
<1>11. QED
  BY <1>9, <1>10

\* Strings may be put together in any order.
LEMMA Joined ==
    ASSUME NEW a \in Seq(Nat), NEW b \in Seq(Nat), NEW c \in Seq(Nat)
    PROVE  (a \o b) \o c = a \o (b \o c)
BY ConcatAssociative, SMT

\* What was appended to a file: on the disk, and behind it in the buffer.
Bytes(f) == f.disk \o f.buf

(* The parts of a file, and the length of what was appended to it.         *)
LEMMA FileParts ==
    ASSUME NEW f \in File
    PROVE  /\ f.buf \in Seq(Nat) /\ f.disk \in Seq(Nat) /\ f.synced \in Nat
           /\ Len(f.buf) \in Nat /\ Len(f.disk) \in Nat
           /\ Bytes(f) \in Seq(Nat) /\ Len(Bytes(f)) = Len(f.disk) + Len(f.buf)
<1>1. f.buf \in Seq(Nat) /\ f.disk \in Seq(Nat) /\ f.synced \in Nat
  BY DEF File
<1>2. QED
  BY <1>1, LenProperties, ConcatProperties DEF Bytes

(* write leaves all of the data on the disk when it succeeds, and the      *)
(* buffer as it is.                                                        *)
LEMMA WriteLeaves ==
    ASSUME NEW f \in File, NEW d \in Seq(Nat), NEW faults \in BOOLEAN, NEW r \in WriteUnbuffered(f, d, faults)
    PROVE  /\ r.file \in File /\ r.ok \in BOOLEAN
           /\ r = [file |-> r.file, ok |-> r.ok]
           /\ r.file.buf = f.buf
           /\ r.ok => r.file.disk = f.disk \o d
<1>1. PICK n \in 0 .. Len(d) :
        r = [file |-> [f EXCEPT !.disk = @ \o SubSeq(d, 1, n)], ok |-> n = Len(d)]
  <2>1. CASE faults
    BY <2>1 DEF WriteUnbuffered
  <2>2. CASE ~faults
    <3>1. Len(d) \in 0 .. Len(d)
      BY LenProperties
    <3>2. QED
      BY <2>2, <3>1 DEF WriteUnbuffered
  <2>3. QED
    BY <2>1, <2>2
<1> DEFINE p == SubSeq(d, 1, n)
           e == f.disk \o p
<1>2. p \in Seq(Nat) /\ (n = Len(d) => p = d)
  BY Halves, SubSeqFull
<1>3. r.file = [f EXCEPT !.disk = e] /\ r.ok = (n = Len(d)) /\ r = [file |-> r.file, ok |-> r.ok]
  BY <1>1
<1> HIDE DEF p
<1>4. e \in Seq(Nat)
  BY <1>2, FileParts, ConcatProperties
<1>5. r.ok => e = f.disk \o d
  BY <1>2, <1>3
<1> HIDE DEF e
<1>6. QED
  BY <1>3, <1>4, <1>5 DEF File

(* FlushBuffer leaves the buffer empty, and all of it on the disk when it  *)
(* succeeds.                                                               *)
LEMMA FlushLeaves ==
    ASSUME NEW f \in File, NEW faults \in BOOLEAN, NEW r \in FlushBuffer(f, faults)
    PROVE  /\ r.file \in File /\ r.ok \in BOOLEAN
           /\ r = [file |-> r.file, ok |-> r.ok]
           /\ r.file.buf = << >>
           /\ r.ok => r.file.disk = Bytes(f)
<1>1. PICK w \in WriteUnbuffered(f, f.buf, faults) : r = [w EXCEPT !.file.buf = << >>]
  BY DEF FlushBuffer
<1>2. f.buf \in Seq(Nat)
  BY FileParts
<1>3. /\ w.file \in File /\ w.ok \in BOOLEAN
      /\ w = [file |-> w.file, ok |-> w.ok]
      /\ w.ok => w.file.disk = f.disk \o f.buf
  BY <1>2, WriteLeaves
<1>4. r = [file |-> [w.file EXCEPT !.buf = << >>], ok |-> w.ok]
  BY <1>1, <1>3
<1>5. r.file = [w.file EXCEPT !.buf = << >>] /\ r.ok = w.ok /\ r = [file |-> r.file, ok |-> r.ok]
  BY <1>4
<1>6. << >> \in Seq(Nat)
  BY EmptySeq
<1>7. r.file \in File /\ r.file.buf = << >> /\ r.file.disk = w.file.disk
  BY <1>3, <1>5, <1>6 DEF File
<1>8. QED
  BY <1>3, <1>5, <1>7 DEF Bytes

(* Append that returns OK has put all of the data behind what was there,   *)
(* in the buffer or on the disk.                                           *)
LEMMA AppendLeaves ==
    ASSUME NEW f, FileOK(f), NEW d \in Seq(Nat), NEW faults \in BOOLEAN, NEW r \in Append_(f, d, faults)
    PROVE  FileOK(r.file) /\ r.ok \in BOOLEAN /\ (r.ok => Bytes(r.file) = Bytes(f) \o d)
<1> DEFINE room == BufferSize - Len(f.buf)
           rest == SubSeq(d, room + 1, Len(d))
           head == SubSeq(d, 1, room)
           full == [f EXCEPT !.buf = @ \o head]
           b == f.buf \o head
<1>1. /\ f \in File /\ f.buf \in Seq(Nat) /\ f.disk \in Seq(Nat)
      /\ Len(f.buf) \in Nat /\ Len(f.buf) <= BufferSize
  BY FileParts DEF FileOK
<1>2. BufferSize \in Nat /\ Len(d) \in Nat /\ room \in Nat
  BY <1>1, BufferSizeAssumption, LenProperties
<1>3. CASE Len(d) <= room
  <2> DEFINE c == f.buf \o d
  <2>1. r.file = [f EXCEPT !.buf = c] /\ r.ok = TRUE
    BY <1>3 DEF Append_, Done
  <2>2. c \in Seq(Nat) /\ Len(c) = Len(f.buf) + Len(d)
    BY <1>1, ConcatProperties
  <2>3. f.disk \o c = (f.disk \o f.buf) \o d
    BY <1>1, Joined
  <2> HIDE DEF c
  <2>4. r.file \in File /\ r.file.buf = c /\ r.file.disk = f.disk
    BY <1>1, <2>1, <2>2 DEF File
  <2>5. Len(c) <= BufferSize
    <3> HIDE DEF rest, head, full, b
    <3>1. QED
      BY <1>1, <1>2, <1>3, <2>2
  <2>6. QED
    BY <2>1, <2>3, <2>4, <2>5 DEF FileOK, Bytes
<1>4. CASE ~(Len(d) <= room)
  <2>1. room \in 0 .. Len(d)
    BY <1>2, <1>4
  <2>2. head \in Seq(Nat) /\ rest \in Seq(Nat) /\ head \o rest = d
    <3> HIDE DEF room
    <3>1. QED
      BY <2>1, Halves
  <2>3. PICK w \in FlushBuffer(full, faults) :
          r \in IF ~w.ok THEN {w}
                ELSE IF Len(rest) < BufferSize
                THEN {Done([w.file EXCEPT !.buf = rest])}
                ELSE WriteUnbuffered(w.file, rest, faults)
    BY <1>4 DEF Append_
  <2> HIDE DEF head, rest, room
  <2>4. b \in Seq(Nat)
    BY <1>1, <2>2, ConcatProperties
  <2>5. full = [f EXCEPT !.buf = b]
    OBVIOUS
  <2>6. (f.disk \o b) \o rest = (f.disk \o f.buf) \o d
    <3>1. (f.disk \o b) \o rest = f.disk \o (b \o rest)
      <4> DEFINE disk == f.disk
      <4>1. disk \in Seq(Nat) /\ rest \in Seq(Nat)
        BY <1>1, <2>2
      <4> HIDE DEF disk, b, full
      <4>2. (disk \o b) \o rest = disk \o (b \o rest)
        BY <4>1, <2>4, Joined
      <4>3. QED
        BY <4>2 DEF disk
    <3>2. (f.buf \o head) \o rest = f.buf \o (head \o rest)
      BY <1>1, <2>2, Joined, Zenon
    <3>3. f.disk \o (f.buf \o d) = (f.disk \o f.buf) \o d
      BY <1>1, Joined, Zenon
    <3>4. QED
      BY <2>2, <3>1, <3>2, <3>3
  <2> HIDE DEF b, full
  <2>7. full \in File /\ full.buf = b /\ full.disk = f.disk
    BY <1>1, <2>4, <2>5 DEF File
  <2>8. /\ w.file \in File /\ w.ok \in BOOLEAN /\ w = [file |-> w.file, ok |-> w.ok]
        /\ w.file.buf = << >>
        /\ w.ok => w.file.disk = f.disk \o b
    BY <2>3, <2>7, FlushLeaves DEF Bytes
  <2>9. w.file.disk \in Seq(Nat) /\ Len(<< >>) = 0 /\ 0 <= BufferSize
    <3>1. w.file.disk \in Seq(Nat)
      BY <2>8, FileParts
    <3>2. QED
      BY <1>2, <3>1
  <2>10. CASE ~w.ok
    <3>1. r = w
      BY <2>3, <2>10
    <3>2. QED
      BY <2>8, <2>9, <2>10, <3>1 DEF FileOK
  <2>11. CASE w.ok /\ Len(rest) < BufferSize
    <3>1. r = Done([w.file EXCEPT !.buf = rest])
      BY <2>3, <2>11
    <3>2. r.file = [w.file EXCEPT !.buf = rest] /\ r.ok = TRUE
      BY <3>1 DEF Done
    <3>3. r.file \in File /\ r.file.buf = rest /\ r.file.disk = w.file.disk
      BY <2>2, <2>8, <3>2 DEF File
    <3>4. Len(rest) <= BufferSize
      BY <1>2, <2>2, <2>11, LenProperties
    <3>5. QED
      BY <2>6, <2>8, <2>11, <3>2, <3>3, <3>4 DEF FileOK, Bytes
  <2>12. CASE w.ok /\ ~(Len(rest) < BufferSize)
    <3>1. r \in WriteUnbuffered(w.file, rest, faults)
      BY <2>3, <2>12
    <3>2. /\ r.file \in File /\ r.ok \in BOOLEAN /\ r.file.buf = w.file.buf
          /\ r.ok => r.file.disk = w.file.disk \o rest
      BY <2>2, <2>8, <3>1, WriteLeaves
    <3>3. r.file.disk \in Seq(Nat)
      BY <3>2, FileParts
    <3>4. r.file.disk \o << >> = r.file.disk
      BY <3>3, ConcatEmptySeq
    <3>5. FileOK(r.file)
      BY <2>8, <2>9, <3>2 DEF FileOK
    <3>6. r.ok => r.file.disk \o r.file.buf = (f.disk \o f.buf) \o d
      BY <2>6, <2>8, <2>12, <3>2, <3>4
    <3>7. QED
      BY <3>2, <3>5, <3>6 DEF Bytes
  <2>13. QED
    BY <2>8, <2>10, <2>11, <2>12
<1>5. QED
  BY <1>3, <1>4

---------------------------------------------------------------------------
(* A turn of AddRecord's loop.                                             *)

\* A trailer of n bytes.
LEMMA ZerosAre ==
    ASSUME NEW n \in Nat
    PROVE  Zeros(n) \in Seq(Nat) /\ Len(Zeros(n)) = n
<1>1. Zeros(n) \in [1 .. n -> Nat]
  BY DEF Zeros
<1>2. QED
  BY <1>1, SeqDef

(* A header takes kHeaderSize bytes.                                       *)
LEMMA HeaderIs ==
    ASSUME NEW type \in Nat, NEW length \in Nat
    PROVE  Header(type, length) \in Seq(Nat) /\ Len(Header(type, length)) = HeaderSize
<1> DEFINE zeros == Zeros(HeaderSize - 2)
           two == <<length, type>>
<1>1. HeaderSize - 2 \in Nat /\ HeaderSize \in Nat
  BY SizesAssumption
<1>2. zeros \in Seq(Nat) /\ Len(zeros) = HeaderSize - 2
  BY <1>1, ZerosAre
<1>3. two \in Seq(Nat) /\ Len(two) = 2
  OBVIOUS
<1> HIDE DEF zeros, two
<1>4. zeros \o two \in Seq(Nat) /\ Len(zeros \o two) = Len(zeros) + Len(two)
  BY <1>2, <1>3, ConcatProperties
<1>5. QED
  BY <1>1, <1>2, <1>3, <1>4 DEF Header, zeros, two

\* EmitPhysicalRecord that returns OK leaves header and payload on the disk, and
\* nothing in the buffer.
LEMMA EmitLeaves ==
    ASSUME NEW f, FileOK(f), NEW type \in Nat, NEW d \in Seq(Nat), faulty \in BOOLEAN,
           NEW r \in EmitPhysicalRecord(f, type, d)
    PROVE  /\ FileOK(r.file) /\ r.ok \in BOOLEAN
           /\ r.ok => /\ r.file.buf = << >>
                      /\ r.file.disk = (Bytes(f) \o Header(type, Len(d))) \o d
<1> DEFINE header == Header(type, Len(d))
<1>1. Len(d) \in Nat
  BY LenProperties
<1>2. header \in Seq(Nat)
  BY <1>1, HeaderIs
<1>3. PICK h \in Append_(f, header, faulty) :
           r \in IF h.ok
                 THEN UNION { IF p.ok THEN FlushBuffer(p.file, faulty) ELSE {p}
                              : p \in Append_(h.file, d, faulty) }
                 ELSE {h}
  BY DEF EmitPhysicalRecord
<1> HIDE DEF header
<1>4. FileOK(h.file) /\ h.ok \in BOOLEAN /\ (h.ok => Bytes(h.file) = Bytes(f) \o header)
  BY <1>2, AppendLeaves
<1>5. CASE ~h.ok
  <2>1. r = h
    BY <1>3, <1>5
  <2>2. QED
    BY <1>4, <1>5, <2>1
<1>6. CASE h.ok
  <2>1. PICK p \in Append_(h.file, d, faulty) : r \in IF p.ok THEN FlushBuffer(p.file, faulty) ELSE {p}
    BY <1>3, <1>6
  <2>2. FileOK(p.file) /\ p.ok \in BOOLEAN /\ (p.ok => Bytes(p.file) = Bytes(h.file) \o d)
    BY <1>4, AppendLeaves
  <2>3. CASE ~p.ok
    <3>1. r = p
      BY <2>1, <2>3
    <3>2. QED
      BY <2>2, <2>3, <3>1
  <2>4. CASE p.ok
    <3>1. r \in FlushBuffer(p.file, faulty)
      BY <2>1, <2>4
    <3>2. r.file \in File /\ r.ok \in BOOLEAN /\ r.file.buf = << >> /\ (r.ok => r.file.disk = Bytes(p.file))
      BY <2>2, <3>1, FlushLeaves DEF FileOK
    <3>3. FileOK(r.file)
      <4>1. Len(<< >>) <= BufferSize
        BY BufferSizeAssumption
      <4>2. QED
        BY <3>2, <4>1 DEF FileOK
    <3>4. QED
      BY <1>4, <1>6, <2>2, <2>4, <3>2, <3>3 DEF header
  <2>5. QED
    BY <2>2, <2>3, <2>4
<1>7. QED
  BY <1>4, <1>5, <1>6

\* The bytes of the trailer, if one is written.
Trailer(left_over) == IF StartsBlock(left_over) THEN Zeros(left_over) ELSE << >>

\* The trailer is never lost, for it fits in the empty buffer.
LEMMA PaddedLeaves ==
    ASSUME WriterTypeOK, NEW left_over \in Nat, NEW f \in Padded(left_over)
    PROVE  /\ FileOK(f)
           /\ file.buf = << >> => Bytes(f) = file.disk \o Trailer(left_over)
<1>1. FileOK(file) /\ file \in File /\ faulty \in BOOLEAN
  BY DEF WriterTypeOK, FileOK
<1>2. file.disk \in Seq(Nat) /\ file.disk \o << >> = file.disk
  BY <1>1, FileParts, ConcatEmptySeq
<1>3. CASE StartsBlock(left_over) /\ left_over > 0
  <2> DEFINE zeros == Zeros(left_over)
  <2>1. zeros \in Seq(Nat) /\ Len(zeros) = left_over
    BY ZerosAre
  <2> HIDE DEF zeros
  <2>2. PICK r \in Append_(file, zeros, faulty) : f = r.file
    BY <1>3 DEF Padded, zeros
  <2>3. FileOK(f) /\ r.ok \in BOOLEAN /\ (r.ok => Bytes(f) = Bytes(file) \o zeros)
    BY <1>1, <2>1, <2>2, AppendLeaves
  <2>4. ASSUME file.buf = << >> PROVE r.ok
    <3>1. Len(file.buf) = 0
      BY <2>4
    <3>2. Len(zeros) <= BufferSize - Len(file.buf)
      BY <1>3, <2>1, <3>1, BufferSizeAssumption, SizesAssumption, TrailerAssumption DEF StartsBlock
    <3>3. r = Done([file EXCEPT !.buf = @ \o zeros])
      BY <2>2, <3>2 DEF Append_
    <3>4. QED
      BY <3>3 DEF Done
  <2>5. file.buf = << >> => Bytes(file) = file.disk
    BY <1>2 DEF Bytes
  <2>6. Trailer(left_over) = zeros
    BY <1>3 DEF Trailer, zeros
  <2>7. QED
    BY <2>3, <2>4, <2>5, <2>6
<1>4. CASE ~(StartsBlock(left_over) /\ left_over > 0)
  <2>1. f = file
    BY <1>4 DEF Padded
  <2>2. Trailer(left_over) = << >>
    <3>1. CASE StartsBlock(left_over)
      <4>1. left_over = 0
        BY <1>4, <3>1
      <4>2. Zeros(0) = << >>
        BY ZerosAre, EmptySeq
      <4>3. QED
        BY <3>1, <4>1, <4>2 DEF Trailer
    <3>2. CASE ~StartsBlock(left_over)
      BY <3>2 DEF Trailer
    <3>3. QED
      BY <3>1, <3>2
  <2>3. QED
    BY <1>1, <1>2, <2>1, <2>2 DEF Bytes
<1>5. QED
  BY <1>3, <1>4

\* The file's length in its block goes with block_offset_ through a turn that
\* does not fail.
LEMMA FragmentStep ==
    ASSUME WriterTypeOK, NEW data \in Seq(Nat), NEW begin \in BOOLEAN, AddFragment(data, begin)
    PROVE  /\ FileOK(file') /\ block_offset' \in 0 .. BlockSize /\ left' \in Seq(Nat)
           /\ (file.buf = << >> /\ Len(file.disk) % BlockSize = block_offset % BlockSize
               /\ status' # "error") =>
                  file'.buf = << >> /\ Len(file'.disk) % BlockSize = block_offset' % BlockSize
<1> DEFINE left_over == BlockSize - block_offset
           start == IF StartsBlock(left_over) THEN 0 ELSE block_offset
           avail == BlockSize - start - HeaderSize
           length == IF Len(data) < avail THEN Len(data) ELSE avail
           type == FragmentType(begin, length = Len(data))
           part == SubSeq(data, 1, length)
<1>1. /\ BlockSize \in Nat \ {0} /\ HeaderSize \in Nat /\ block_offset \in 0 .. BlockSize
      /\ HeaderSize < BlockSize /\ Len(data) \in Nat /\ faulty \in BOOLEAN
  BY SizesAssumption, LenProperties DEF WriterTypeOK
<1>2. left_over \in Nat
  BY <1>1
<1>3. start \in 0 .. BlockSize /\ avail \in Nat /\ start + HeaderSize + avail = BlockSize
  <2>1. CASE StartsBlock(left_over)
    BY <1>1, <2>1
  <2>2. CASE ~StartsBlock(left_over)
    BY <1>1, <2>2 DEF StartsBlock
  <2>3. QED
    BY <2>1, <2>2
<1>4. PICK f \in Padded(left_over) : \E r \in EmitPhysicalRecord(f, type, part) :
           /\ file' = r.file
           /\ block_offset' = start + HeaderSize + length
           /\ left' = From(data, length)
           /\ status' = CASE ~r.ok -> "error"
                          [] r.ok /\ left' = << >> -> "ok"
                          [] r.ok /\ left' # << >> -> "adding"
  BY DEF AddFragment
<1>5. PICK r \in EmitPhysicalRecord(f, type, part) :
           /\ file' = r.file
           /\ block_offset' = start + HeaderSize + length
           /\ left' = From(data, length)
           /\ status' = CASE ~r.ok -> "error"
                          [] r.ok /\ left' = << >> -> "ok"
                          [] r.ok /\ left' # << >> -> "adding"
  BY <1>4
<1>6. type \in Nat
  BY DEF FragmentType, kFullType, kFirstType, kLastType, kMiddleType
<1> HIDE DEF type
<1>7. StartsBlock(left_over) => start = 0
  OBVIOUS
<1>8. ~StartsBlock(left_over) => start = block_offset
  OBVIOUS
<1>a. left_over = BlockSize - block_offset
  OBVIOUS
<1> HIDE DEF start, left_over
<1>9. length \in 0 .. Len(data) /\ length <= avail
  <2> HIDE DEF avail
  <2>1. QED
    BY <1>1, <1>3
<1> HIDE DEF avail, length
<1>10. part \in Seq(Nat) /\ Len(part) = length /\ From(data, length) \in Seq(Nat)
  BY <1>9, Halves DEF From
<1> HIDE DEF part
<1>11. FileOK(f) /\ (file.buf = << >> => Bytes(f) = file.disk \o Trailer(left_over))
  BY <1>2, <1>4, PaddedLeaves
<1>12. /\ FileOK(r.file) /\ r.ok \in BOOLEAN
       /\ r.ok => /\ r.file.buf = << >>
                  /\ r.file.disk = (Bytes(f) \o Header(type, Len(part))) \o part
  BY <1>1, <1>5, <1>6, <1>10, <1>11, EmitLeaves
<1>13. block_offset' \in 0 .. BlockSize /\ block_offset' = start + (HeaderSize + length)
  BY <1>1, <1>3, <1>5, <1>9
<1>14. status' # "error" => r.ok
  BY <1>5, <1>12
<1>15. ASSUME file.buf = << >>, Len(file.disk) % BlockSize = block_offset % BlockSize, r.ok
       PROVE  Len(file'.disk) % BlockSize = block_offset' % BlockSize
  <2> DEFINE trailer == Trailer(left_over)
             header == Header(type, length)
             n == Len(file.disk)
             y == HeaderSize + length
  <2>1. trailer \in Seq(Nat) /\ Len(trailer) = IF StartsBlock(left_over) THEN left_over ELSE 0
    <3>1. CASE StartsBlock(left_over)
      BY <1>2, <3>1, ZerosAre DEF Trailer
    <3>2. CASE ~StartsBlock(left_over)
      BY <3>2 DEF Trailer
    <3>3. QED
      BY <3>1, <3>2
  <2>2. header \in Seq(Nat) /\ Len(header) = HeaderSize
    BY <1>6, <1>9, HeaderIs
  <2>3. file.disk \in Seq(Nat) /\ n \in Nat
    BY FileParts DEF WriterTypeOK, FileOK
  <2>4. file'.disk = ((file.disk \o trailer) \o header) \o part
    BY <1>5, <1>10, <1>11, <1>12, <1>15
  <2> HIDE DEF trailer, header
  <2>5. Len(file'.disk) = n + Len(trailer) + y
    <3>1. file.disk \o trailer \in Seq(Nat) /\ Len(file.disk \o trailer) = n + Len(trailer)
      BY <2>1, <2>3, ConcatProperties
    <3> DEFINE a == file.disk \o trailer
    <3> HIDE DEF a
    <3>2. a \o header \in Seq(Nat) /\ Len(a \o header) = Len(a) + HeaderSize
      BY <2>2, <3>1, ConcatProperties DEF a
    <3> DEFINE c == a \o header
    <3> HIDE DEF c
    <3>3. Len(c \o part) = Len(c) + length
      BY <1>10, <3>2, ConcatProperties DEF c
    <3>4. Len(trailer) \in Nat
      BY <2>1, LenProperties
    <3>5. Len(file'.disk) = Len(c \o part)
      BY <2>4 DEF a, c
    <3>6. Len(a) = n + Len(trailer) /\ Len(c) = Len(a) + HeaderSize
      BY <3>1, <3>2 DEF a, c
    <3>7. Len(file'.disk) = Len(c) + length /\ length \in Nat
      BY <1>9, <3>3, <3>5
    <3> HIDE DEF n
    <3>8. QED
      BY <1>1, <2>3, <3>4, <3>6, <3>7
  <2>6. y \in Nat /\ block_offset' = start + y
    BY <1>1, <1>9, <1>13
  <2>m. n % BlockSize = block_offset % BlockSize
    BY <1>15
  <2>o. block_offset \in Nat
    BY <1>1
  <2> HIDE DEF n, y
  <2>p. \A u, v, w \in Nat : u % BlockSize = v % BlockSize => (u + w) % BlockSize = (v + w) % BlockSize
    BY BlockPlus
  <2>7. CASE ~StartsBlock(left_over)
    <3>1. Len(file'.disk) = n + y /\ block_offset' = block_offset + y /\ block_offset \in Nat
      BY <1>1, <1>8, <2>1, <2>3, <2>5, <2>6, <2>7
    <3>2. (n + y) % BlockSize = (block_offset + y) % BlockSize
      BY <2>3, <2>6, <2>m, <2>o, <2>p
    <3>3. QED
      BY <3>1, <3>2
  <2>8. CASE StartsBlock(left_over)
    <3>1. Len(file'.disk) = (n + left_over) + y /\ block_offset' = 0 + y
      BY <1>2, <1>3, <1>7, <2>1, <2>3, <2>5, <2>6, <2>8
    <3>2. (n + left_over) % BlockSize = (block_offset + left_over) % BlockSize
      BY <1>2, <2>3, <2>m, <2>o, <2>p
    <3>3. block_offset + left_over = BlockSize
      BY <1>1, <1>a
    <3>4. BlockSize % BlockSize = 0 /\ 0 % BlockSize = 0
      <4>1. ((BlockSize * 1) + 0) % BlockSize = 0 /\ ((BlockSize * 0) + 0) % BlockSize = 0
        BY <1>1, ModIs
      <4>2. (BlockSize * 1) + 0 = BlockSize /\ (BlockSize * 0) + 0 = 0
        BY <1>1
      <4>3. QED
        BY <4>1, <4>2
    <3>5. n + left_over \in Nat /\ 0 \in Nat /\ (n + left_over) % BlockSize = 0 % BlockSize
      BY <1>2, <2>3, <3>2, <3>3, <3>4
    <3>6. ((n + left_over) + y) % BlockSize = (0 + y) % BlockSize
      BY <2>6, <2>p, <3>5
    <3>7. QED
      BY <3>1, <3>6
  <2>9. QED
    BY <2>7, <2>8
<1>16. QED
  BY <1>5, <1>10, <1>12, <1>13, <1>14, <1>15

---------------------------------------------------------------------------
(* The steps.                                                              *)

\* A turn of AddRecord's loop, in a new call or not.
LEMMA AddingStep ==
    ASSUME WriterInv, NEW data \in Seq(Nat), NEW begin \in BOOLEAN, AddFragment(data, begin), Remember,
           phase = "open", UNCHANGED faulty
    PROVE  WriterInv'
<1>1. /\ FileOK(file') /\ block_offset' \in 0 .. BlockSize /\ left' \in Seq(Nat)
      /\ (file.buf = << >> /\ Len(file.disk) % BlockSize = block_offset % BlockSize
          /\ status' # "error") =>
             file'.buf = << >> /\ Len(file'.disk) % BlockSize = block_offset' % BlockSize
  BY FragmentStep DEF WriterInv
<1>2. WriterTypeOK'
  BY <1>1 DEF WriterInv, WriterTypeOK, FileOK
<1>3. ASSUME intact'
      PROVE  file'.buf = << >> /\ Len(file'.disk) % BlockSize = block_offset' % BlockSize
  <2>1. intact /\ status' # "error"
    BY <1>3 DEF Remember
  <2>2. file.buf = << >> /\ Len(file.disk) % BlockSize = block_offset % BlockSize
    BY <2>1 DEF WriterInv, OffsetFollowsFile
  <2>3. QED
    BY <1>1, <2>1, <2>2
<1>4. QED
  BY <1>2, <1>3 DEF WriterInv, OffsetFollowsFile

\* A file that is opened over its contents.
LEMMA OpenedIs ==
    ASSUME NEW d \in Seq(Nat)
    PROVE  FileOK(Opened(d)) /\ Opened(d).buf = << >> /\ Opened(d).disk = d
<1>1. Len(d) \in Nat /\ << >> \in Seq(Nat) /\ Len(<< >>) <= BufferSize
  BY BufferSizeAssumption, EmptySeq, LenProperties
<1>2. Opened(d).buf = << >> /\ Opened(d).disk = d /\ Opened(d) \in File
  BY <1>1 DEF Opened, File
<1>3. QED
  BY <1>1, <1>2 DEF FileOK

\* A sync that succeeds leaves the length, since nothing was in the buffer.
LEMMA SyncStep ==
    ASSUME WriterInv, SyncLog
    PROVE  WriterInv'
<1>1. file \in File /\ FileOK(file) /\ faulty \in BOOLEAN /\ faulty' = faulty
  BY DEF SyncLog, WriterInv, WriterTypeOK, FileOK
<1>2. PICK r \in Sync(file, faulty) : file' = r.file /\ intact' = (intact /\ r.ok)
  BY DEF SyncLog
<1>3. /\ FileOK(file')
      /\ (file.buf = << >> /\ r.ok) => file'.buf = << >> /\ file'.disk = file.disk
  <2>1. CASE r \in SyncDirFails(file, faulty)
    <3>1. r = [file |-> file, ok |-> FALSE]
      BY <2>1 DEF SyncDirFails
    <3>2. r.file = file /\ r.ok = FALSE
      BY <3>1
    <3>3. QED
      BY <1>1, <1>2, <3>2
  <2>2. CASE r \notin SyncDirFails(file, faulty)
    <3>1. PICK w \in FlushBuffer(file, faulty) : r \in IF w.ok THEN SyncFd(w.file, faulty) ELSE {w}
      BY <2>2 DEF Sync
    <3>2. /\ w.file \in File /\ w.ok \in BOOLEAN
          /\ w.file.buf = << >>
          /\ w.ok => w.file.disk = Bytes(file)
      BY <1>1, FlushLeaves
    <3>3. FileOK(w.file)
      <4>1. Len(<< >>) <= BufferSize
        BY BufferSizeAssumption
      <4>2. QED
        BY <3>2, <4>1 DEF FileOK
    <3>4. file.buf = << >> => Bytes(file) = file.disk
      BY <1>1, FileParts, ConcatEmptySeq DEF Bytes
    <3>5. CASE ~w.ok
      <4>1. r = w
        BY <3>1, <3>5
      <4>2. QED
        BY <1>2, <3>2, <3>3, <3>5, <4>1
    <3>6. CASE w.ok /\ r = [file |-> w.file, ok |-> FALSE]
      <4>1. r.file = w.file /\ r.ok = FALSE
        BY <3>6
      <4>2. QED
        BY <1>2, <3>3, <4>1
    <3>7. CASE w.ok /\ r = Done([w.file EXCEPT !.synced = Len(w.file.disk)])
      <4>1. r.file = [w.file EXCEPT !.synced = Len(w.file.disk)]
        BY <3>7 DEF Done
      <4>2. Len(w.file.disk) \in Nat
        BY <3>2, FileParts
      <4>3. r.file \in File /\ r.file.buf = w.file.buf /\ r.file.disk = w.file.disk
        BY <3>2, <4>1, <4>2 DEF File
      <4>4. QED
        BY <1>2, <3>2, <3>3, <3>4, <3>7, <4>3 DEF FileOK
    <3>8. QED
      BY <3>1, <3>2, <3>5, <3>6, <3>7 DEF SyncFd
  <2>3. QED
    BY <2>1, <2>2
<1>4. WriterTypeOK'
  BY <1>3 DEF SyncLog, WriterInv, WriterTypeOK, FileOK
<1>5. ASSUME intact'
      PROVE  file'.buf = << >> /\ Len(file'.disk) % BlockSize = block_offset' % BlockSize
  <2>1. intact /\ r.ok
    BY <1>2, <1>5
  <2>2. file.buf = << >> /\ Len(file.disk) % BlockSize = block_offset % BlockSize /\ block_offset' = block_offset
    BY <2>1 DEF SyncLog, WriterInv, OffsetFollowsFile
  <2>3. QED
    BY <1>3, <2>1, <2>2
<1>6. QED
  BY <1>4, <1>5 DEF WriterInv, OffsetFollowsFile

\* A file that is closed.
LEMMA CloseStep ==
    ASSUME WriterInv, CloseLog
    PROVE  WriterInv'
<1>1. file \in File /\ FileOK(file) /\ faulty \in BOOLEAN /\ faulty' = faulty
  BY DEF CloseLog, WriterInv, WriterTypeOK, FileOK
<1>2. PICK r \in Close(file, faulty) : file' = r.file
  BY DEF CloseLog
<1>3. PICK w \in FlushBuffer(file, faulty) : r = w \/ r = [w EXCEPT !.ok = FALSE]
  BY <1>2 DEF Close
<1>4. w.file \in File /\ w.file.buf = << >> /\ w = [file |-> w.file, ok |-> w.ok]
  BY <1>1, FlushLeaves
<1>5. r.file = w.file
  BY <1>3, <1>4
<1>6. FileOK(file')
  <2>1. Len(<< >>) <= BufferSize
    BY BufferSizeAssumption
  <2>2. QED
    BY <1>2, <1>4, <1>5, <2>1 DEF FileOK
<1>7. QED
  BY <1>6 DEF CloseLog, WriterInv, WriterTypeOK, OffsetFollowsFile, FileOK

(* A crash leaves a part of the disk no shorter than what was synced, and  *)
(* nothing of the buffer.                                                  *)
LEMMA CrashStep ==
    ASSUME WriterInv, Crash
    PROVE  WriterInv'
<1>1. file.disk \in Seq(Nat) /\ Len(file.disk) \in Nat /\ file.synced \in Nat
  BY FileParts DEF WriterInv, WriterTypeOK, FileOK
<1>2. PICK n \in file.synced .. Len(file.disk) : file' = Opened(SubSeq(file.disk, 1, n))
  BY DEF Crash
<1>3. n \in 0 .. Len(file.disk)
  BY <1>1
<1>4. SubSeq(file.disk, 1, n) \in Seq(Nat)
  BY <1>1, <1>3, Halves
<1>5. FileOK(file')
  BY <1>2, <1>4, OpenedIs
<1>6. QED
  BY <1>5 DEF Crash, WriterInv, WriterTypeOK, OffsetFollowsFile, FileOK

\* A new writer starts where the file ends.
LEMMA ReopenStep ==
    ASSUME WriterInv, Reopen
    PROVE  WriterInv'
<1>1. file.disk \in Seq(Nat) /\ Len(file.disk) \in Nat /\ BlockSize \in Nat \ {0}
  <2>1. file.disk \in Seq(Nat) /\ Len(file.disk) \in Nat
    BY FileParts DEF WriterInv, WriterTypeOK, FileOK
  <2>2. QED
    BY <2>1, SizesAssumption
<1>2. file' = Opened(file.disk) /\ block_offset' = Len(file.disk) % BlockSize /\ left' = << >> /\ faulty' = faulty
  BY DEF Reopen, NewWriter
<1>3. FileOK(file') /\ file'.buf = << >> /\ file'.disk = file.disk
  BY <1>1, <1>2, OpenedIs
<1> DEFINE b == Len(file.disk) % BlockSize
<1>4. b \in 0 .. BlockSize - 1
  <2> DEFINE n == Len(file.disk)
  <2>1. n \in Nat
    BY <1>1
  <2> HIDE DEF n
  <2>2. n % BlockSize \in 0 .. BlockSize - 1
    BY <1>1, <2>1
  <2>3. QED
    BY <2>2 DEF n
<1>5. b % BlockSize = b
  <2> HIDE DEF b
  <2>1. ((BlockSize * 0) + b) % BlockSize = b
    BY <1>1, <1>4, ModIs
  <2>2. (BlockSize * 0) + b = b
    BY <1>1, <1>4
  <2>3. QED
    BY <2>1, <2>2
<1>6. WriterTypeOK'
  <2>1. block_offset' \in 0 .. BlockSize
    <3>1. block_offset' = b
      BY <1>2
    <3> HIDE DEF b
    <3>2. QED
      BY <1>1, <1>4, <3>1
  <2>2. left' \in Seq(Nat)
    BY <1>2, EmptySeq
  <2>3. QED
    BY <1>2, <1>3, <2>1, <2>2 DEF WriterInv, WriterTypeOK, FileOK
<1>7. OffsetFollowsFile'
  BY <1>2, <1>3, <1>5 DEF OffsetFollowsFile
<1>8. QED
  BY <1>6, <1>7 DEF WriterInv

(* WriterInv holds in every state of every run.                            *)
LEMMA WriterInductive == Spec => []WriterInv
<1>1. Init => WriterInv
  <2> SUFFICES ASSUME Init PROVE WriterInv
    OBVIOUS
  <2>1. << >> \in Seq(Nat) /\ Len(<< >>) = 0
    BY EmptySeq
  <2>2. FileOK(file) /\ file.buf = << >> /\ file.disk = << >>
    BY <2>1, OpenedIs DEF Init
  <2>3. WriterTypeOK
    BY <2>1, <2>2, SizesAssumption DEF Init, WriterTypeOK
  <2>4. Len(file.disk) % BlockSize = block_offset % BlockSize
    BY <2>1, <2>2 DEF Init
  <2>5. QED
    BY <2>2, <2>3, <2>4 DEF WriterInv, OffsetFollowsFile
<1>2. WriterInv /\ [Next]_vars => WriterInv'
  <2> SUFFICES ASSUME WriterInv, [Next]_vars PROVE WriterInv'
    OBVIOUS
  <2>1. ASSUME NEW record \in IF faulty THEN FaultyRecords ELSE Records, Add(record) PROVE WriterInv'
    <3>1. record \in Seq(Nat)
      <4>1. faulty \in BOOLEAN
        BY DEF WriterInv, WriterTypeOK
      <4>2. QED
        BY <4>1, RecordsAssumption
    <3>2. AddFragment(record, TRUE) /\ Remember /\ phase = "open" /\ faulty' = faulty
      BY <2>1 DEF Add, AddRecord
    <3>3. QED
      BY <3>1, <3>2, AddingStep
  <2>2. CASE Continue
    <3>1. AddFragment(left, FALSE) /\ Remember /\ phase = "open" /\ faulty' = faulty
      BY <2>2 DEF Continue, ContinueRecord
    <3>2. left \in Seq(Nat)
      BY DEF WriterInv, WriterTypeOK
    <3>3. QED
      BY <3>1, <3>2, AddingStep
  <2>3. CASE SyncLog
    BY <2>3, SyncStep
  <2>4. CASE CloseLog
    BY <2>4, CloseStep
  <2>5. CASE Crash
    BY <2>5, CrashStep
  <2>6. CASE Reopen
    BY <2>6, ReopenStep
  <2>7. CASE Recover \/ Read \/ ReadFault \/ UNCHANGED vars
    <3>1. UNCHANGED <<faulty, file, block_offset, left>>
      BY <2>7 DEF Recover, Read, ReadFault, vars, writerVars
    <3>2. phase' = "open" => UNCHANGED <<phase, intact>>
      BY <2>7 DEF Recover, Read, ReadFault, vars, past
    <3>3. QED
      BY <3>1, <3>2 DEF WriterInv, WriterTypeOK, OffsetFollowsFile, FileOK
  <2>8. QED
    BY <2>1, <2>2, <2>3, <2>4, <2>5, <2>6, <2>7 DEF Next
<1>3. QED
  BY <1>1, <1>2, PTL DEF Spec

\* As long as no write has failed, the writer's block_offset_ is the file's length
\* in its block: for any sizes of blocks, headers and buffers, any records,
\* crashes and writers that go on with a file an earlier one left.
THEOREM OffsetIsExact == Spec => []OffsetFollowsFile
<1>1. WriterInv => OffsetFollowsFile
  BY DEF WriterInv
<1>2. QED
  BY <1>1, WriterInductive, PTL

---------------------------------------------------------------------------
(* A file only grows.                                                      *)

\* The bytes e begin with the bytes d.
Begins(d, e) == Len(d) <= Len(e) /\ \A i \in 1 .. Len(d) : e[i] = d[i]

\* Bytes begin with themselves.
LEMMA BeginsSelf ==
    ASSUME NEW d \in Seq(Nat)
    PROVE  Begins(d, d)
BY DEF Begins

\* What begins with e begins with what e begins with.
LEMMA BeginsTrans ==
    ASSUME NEW d \in Seq(Nat), NEW e \in Seq(Nat), NEW f \in Seq(Nat), Begins(d, e), Begins(e, f)
    PROVE  Begins(d, f)
<1>1. Len(d) \in Nat /\ Len(e) \in Nat /\ Len(f) \in Nat /\ Len(d) <= Len(e) /\ Len(e) <= Len(f)
  BY DEF Begins
<1>2. ASSUME NEW i \in 1 .. Len(d) PROVE f[i] = d[i]
  <2>1. i \in 1 .. Len(e)
    BY <1>1
  <2>2. QED
    BY <2>1 DEF Begins
<1>3. QED
  BY <1>1, <1>2 DEF Begins

\* What is appended leaves the bytes before it.
LEMMA BeginsConcat ==
    ASSUME NEW d \in Seq(Nat), NEW t \in Seq(Nat)
    PROVE  d \o t \in Seq(Nat) /\ Begins(d, d \o t)
<1>1. Len(d) \in Nat /\ Len(t) \in Nat
  OBVIOUS
<1>2. /\ d \o t \in Seq(Nat) /\ Len(d \o t) = Len(d) + Len(t)
      /\ \A i \in 1 .. Len(d) : (d \o t)[i] = d[i]
  BY <1>1, ConcatProperties
<1>3. QED
  BY <1>1, <1>2 DEF Begins

\* WriteUnbuffered only appends to the disk, even when it fails half-way.
LEMMA WriteGrows ==
    ASSUME NEW f \in File, NEW d \in Seq(Nat), NEW faults \in BOOLEAN,
           NEW r \in WriteUnbuffered(f, d, faults)
    PROVE  Begins(f.disk, r.file.disk)
<1>1. f.disk \in Seq(Nat) /\ Len(d) \in Nat
  BY FileParts, LenProperties
<1>2. PICK n \in IF faults THEN 0 .. Len(d) ELSE {Len(d)} :
           r = [file |-> [f EXCEPT !.disk = @ \o SubSeq(d, 1, n)], ok |-> n = Len(d)]
  BY DEF WriteUnbuffered
<1>3. n \in 0 .. Len(d)
  BY <1>1, <1>2
<1> DEFINE t == SubSeq(d, 1, n)
<1>4. t \in Seq(Nat)
  BY <1>3, Halves
<1>5. r.file.disk = f.disk \o t
  BY <1>2 DEF File
<1> HIDE DEF t
<1>6. QED
  BY <1>1, <1>4, <1>5, BeginsConcat

\* So does FlushBuffer, and one of an empty buffer appends nothing.
LEMMA FlushGrows ==
    ASSUME NEW f \in File, NEW faults \in BOOLEAN, NEW r \in FlushBuffer(f, faults)
    PROVE  Begins(f.disk, r.file.disk) /\ (f.buf = << >> => r.file.disk = f.disk)
<1>1. f.disk \in Seq(Nat) /\ f.buf \in Seq(Nat)
  BY FileParts
<1>2. PICK w \in WriteUnbuffered(f, f.buf, faults) : r = [w EXCEPT !.file.buf = << >>]
  BY DEF FlushBuffer
<1>3. w.file \in File /\ w = [file |-> w.file, ok |-> w.ok]
  BY <1>1, <1>2, WriteLeaves
<1>4. r.file.disk = w.file.disk
  BY <1>2, <1>3 DEF File
<1>5. Begins(f.disk, w.file.disk)
  BY <1>1, <1>2, WriteGrows
<1>6. ASSUME f.buf = << >> PROVE w.file.disk = f.disk
  <2>1. PICK n \in IF faults THEN 0 .. Len(<< >>) ELSE {Len(<< >>)} :
             w = [file |-> [f EXCEPT !.disk = @ \o SubSeq(<< >>, 1, n)], ok |-> n = Len(<< >>)]
    BY <1>2, <1>6 DEF WriteUnbuffered
  <2>2. n = 0
    BY <2>1
  <2>3. SubSeq(<< >>, 1, 0) = << >>
    OBVIOUS
  <2>4. w.file.disk = f.disk \o << >>
    BY <2>1, <2>2, <2>3 DEF File
  <2>5. QED
    BY <1>1, <2>4, ConcatEmptySeq
<1>7. QED
  BY <1>4, <1>5, <1>6

\* So does Append.
LEMMA AppendGrows ==
    ASSUME NEW f \in File, NEW d \in Seq(Nat), NEW faults \in BOOLEAN, NEW r \in Append_(f, d, faults),
           Len(f.buf) <= BufferSize
    PROVE  Begins(f.disk, r.file.disk)
<1> DEFINE room == BufferSize - Len(f.buf)
           rest == SubSeq(d, room + 1, Len(d))
           head == SubSeq(d, 1, room)
           full == [f EXCEPT !.buf = @ \o head]
<1>1. f.buf \in Seq(Nat) /\ f.disk \in Seq(Nat) /\ Len(f.buf) \in Nat
  BY FileParts
<1>2. BufferSize \in Nat /\ Len(d) \in Nat /\ room \in Nat
  BY <1>1, BufferSizeAssumption, LenProperties
<1>3. CASE Len(d) <= room
  <2>1. r.file = [f EXCEPT !.buf = @ \o d]
    BY <1>3 DEF Append_, Done
  <2>2. r.file.disk = f.disk
    BY <2>1 DEF File
  <2>3. QED
    BY <1>1, <2>2, BeginsSelf
<1>4. CASE ~(Len(d) <= room)
  <2>1. room \in 0 .. Len(d)
    BY <1>2, <1>4
  <2>2. head \in Seq(Nat) /\ rest \in Seq(Nat)
    <3> HIDE DEF room
    <3>1. QED
      BY <2>1, Halves
  <2>3. PICK w \in FlushBuffer(full, faults) :
          r \in IF ~w.ok THEN {w}
                ELSE IF Len(rest) < BufferSize
                THEN {Done([w.file EXCEPT !.buf = rest])}
                ELSE WriteUnbuffered(w.file, rest, faults)
    BY <1>4 DEF Append_
  <2> HIDE DEF head, rest, room
  <2>4. f.buf \o head \in Seq(Nat)
    BY <1>1, <2>2, ConcatProperties
  <2>5. full \in File /\ full.disk = f.disk
    BY <1>1, <2>4 DEF File
  <2> HIDE DEF full
  <2>6. w.file \in File /\ w.ok \in BOOLEAN /\ Begins(f.disk, w.file.disk)
    BY <2>3, <2>5, FlushGrows, FlushLeaves
  <2>7. w.file.disk \in Seq(Nat)
    BY <2>6, FileParts
  <2>8. CASE ~w.ok
    BY <2>3, <2>6, <2>8
  <2>9. CASE w.ok /\ Len(rest) < BufferSize
    <3>1. r = Done([w.file EXCEPT !.buf = rest])
      BY <2>3, <2>9
    <3>2. r.file.disk = w.file.disk
      BY <2>6, <3>1 DEF Done, File
    <3>3. QED
      BY <2>6, <3>2
  <2>10. CASE w.ok /\ ~(Len(rest) < BufferSize)
    <3>1. r \in WriteUnbuffered(w.file, rest, faults)
      BY <2>3, <2>10
    <3>2. Begins(w.file.disk, r.file.disk) /\ r.file \in File
      BY <2>2, <2>6, <3>1, WriteGrows, WriteLeaves
    <3>3. r.file.disk \in Seq(Nat)
      BY <3>2, FileParts
    <3>4. QED
      BY <1>1, <2>6, <2>7, <3>2, <3>3, BeginsTrans
  <2>11. QED
    BY <2>6, <2>8, <2>9, <2>10
<1>5. QED
  BY <1>3, <1>4

\* So does EmitPhysicalRecord, whichever of its three calls fails.
LEMMA EmitGrows ==
    ASSUME NEW f, FileOK(f), NEW type \in Nat, NEW d \in Seq(Nat), faulty \in BOOLEAN,
           NEW r \in EmitPhysicalRecord(f, type, d)
    PROVE  Begins(f.disk, r.file.disk)
<1>1. f \in File /\ Len(f.buf) <= BufferSize /\ f.disk \in Seq(Nat)
  BY FileParts DEF FileOK
<1> DEFINE header == Header(type, Len(d))
<1>2. header \in Seq(Nat)
  BY HeaderIs
<1>3. PICK h \in Append_(f, header, faulty) :
           r \in IF h.ok
                 THEN UNION { IF p.ok THEN FlushBuffer(p.file, faulty) ELSE {p}
                              : p \in Append_(h.file, d, faulty) }
                 ELSE {h}
  BY DEF EmitPhysicalRecord
<1> HIDE DEF header
<1>4. FileOK(h.file) /\ h.ok \in BOOLEAN /\ Begins(f.disk, h.file.disk)
  BY <1>1, <1>2, <1>3, AppendLeaves, AppendGrows
<1>5. h.file \in File /\ Len(h.file.buf) <= BufferSize /\ h.file.disk \in Seq(Nat)
  BY <1>4, FileParts DEF FileOK
<1>6. CASE ~h.ok
  BY <1>3, <1>4, <1>6
<1>7. CASE h.ok
  <2>1. PICK p \in Append_(h.file, d, faulty) : r \in IF p.ok THEN FlushBuffer(p.file, faulty) ELSE {p}
    BY <1>3, <1>7
  <2>2. FileOK(p.file) /\ p.ok \in BOOLEAN /\ Begins(h.file.disk, p.file.disk)
    BY <1>4, <1>5, <2>1, AppendLeaves, AppendGrows
  <2>3. p.file \in File /\ p.file.disk \in Seq(Nat)
    BY <2>2, FileParts DEF FileOK
  <2>4. Begins(f.disk, p.file.disk)
    BY <1>1, <1>4, <1>5, <2>2, <2>3, BeginsTrans
  <2>5. CASE ~p.ok
    BY <2>1, <2>4, <2>5
  <2>6. CASE p.ok
    <3>1. r \in FlushBuffer(p.file, faulty)
      BY <2>1, <2>6
    <3>2. Begins(p.file.disk, r.file.disk) /\ r.file \in File
      BY <2>3, <3>1, FlushGrows, FlushLeaves
    <3>3. r.file.disk \in Seq(Nat)
      BY <3>2, FileParts
    <3>4. QED
      BY <1>1, <2>3, <2>4, <3>2, <3>3, BeginsTrans
  <2>7. QED
    BY <2>2, <2>5, <2>6
<1>8. QED
  BY <1>4, <1>6, <1>7

\* So does the trailer of a block.
LEMMA PaddedGrows ==
    ASSUME WriterTypeOK, NEW left_over \in Nat, NEW f \in Padded(left_over)
    PROVE  Begins(file.disk, f.disk)
<1>1. file \in File /\ Len(file.buf) <= BufferSize /\ file.disk \in Seq(Nat) /\ faulty \in BOOLEAN
  BY FileParts DEF WriterTypeOK, FileOK
<1>2. CASE StartsBlock(left_over) /\ left_over > 0
  <2> DEFINE z == Zeros(left_over)
  <2>1. PICK r \in Append_(file, z, faulty) : f = r.file
    BY <1>2 DEF Padded
  <2>2. z \in Seq(Nat)
    BY ZerosAre
  <2> HIDE DEF z
  <2>3. QED
    BY <1>1, <2>1, <2>2, AppendGrows
<1>3. CASE ~(StartsBlock(left_over) /\ left_over > 0)
  <2>1. f = file
    BY <1>3 DEF Padded
  <2>2. QED
    BY <1>1, <2>1, BeginsSelf
<1>4. QED
  BY <1>2, <1>3

---------------------------------------------------------------------------
(* The layout of a log.                                                    *)

\* A fragment: the block it is in and its place in the file, its size, whether
\* it is the first and the last of its record, and of that record the number,
\* the place where it begins, the bytes, and how many are in earlier fragments.
Fragment == [base : Nat, at : Nat, size : Nat, first : BOOLEAN, last : BOOLEAN,
             rec : Nat \ {0}, start : Nat, record : Seq(Nat), from : Nat]

End(f) == f.at + HeaderSize + f.size

\* Whether a block begins at offset b.
IsBlock(b) == \E q \in Nat : b = BlockSize * q

FragmentOK(f) ==
    /\ f \in Fragment
    /\ IsBlock(f.base)
    /\ f.base <= f.at /\ End(f) <= f.base + BlockSize
    /\ f.start <= f.at
    /\ f.from + f.size <= Len(f.record)
    /\ f.last <=> f.from + f.size = Len(f.record)
    /\ f.first => f.from = 0 /\ f.start = f.at

\* The place of the fragment that comes after f, and the place of the first one.
Fits(f) == End(f) + HeaderSize <= f.base + BlockSize

After(f) ==
    [base |-> IF Fits(f) THEN f.base ELSE f.base + BlockSize,
     at |-> IF Fits(f) THEN End(f) ELSE f.base + BlockSize,
     first |-> f.last,
     rec |-> IF f.last THEN f.rec + 1 ELSE f.rec,
     start |-> f.start, record |-> f.record,
     from |-> IF f.last THEN 0 ELSE f.from + f.size]

Origin == [base |-> 0, at |-> 0, first |-> TRUE, rec |-> 1, start |-> 0,
           record |-> << >>, from |-> 0]

Place(F, i) == IF i = 1 THEN Origin ELSE After(F[i - 1])

\* Whether g is a fragment for the place s.
Takes(s, g) ==
    /\ g.base = s.base /\ g.at = s.at /\ g.first = s.first /\ g.rec = s.rec /\ g.from = s.from
    /\ ~s.first => g.start = s.start /\ g.record = s.record

\* The bytes d have the fragment f at its place, as far as they go.
Written(d, f) ==
    /\ f.at + HeaderSize - 1 <= Len(d) => d[f.at + HeaderSize - 1] = f.size
    /\ f.at + HeaderSize <= Len(d) => d[f.at + HeaderSize] = FragmentType(f.first, f.last)
    /\ \A j \in 1 .. f.size :
         f.at + HeaderSize + j <= Len(d) => d[f.at + HeaderSize + j] = f.record[f.from + j]

Entry == [data : Seq(Nat), start : Nat, end : Nat]

\* The acknowledged records lg lie in the file, one after the other.
LogOK(d, lg) ==
    /\ lg \in Seq(Entry)
    /\ \A r \in 1 .. Len(lg) : lg[r].start < lg[r].end /\ lg[r].end <= Len(d)
    /\ \A r, s \in 1 .. Len(lg) : r < s => lg[r].end <= lg[s].start

\* What a fragment has to do with them.
Belongs(f, d, lg) ==
    /\ f.rec <= Len(lg) => /\ lg[f.rec].data = f.record /\ lg[f.rec].start = f.start
                           /\ End(f) <= lg[f.rec].end
                           /\ f.last => lg[f.rec].end = End(f)
    /\ \A r \in 1 .. Len(lg) : r < f.rec => lg[r].end <= f.start
    /\ (f.last /\ f.rec > Len(lg)) => End(f) > Len(d)
    /\ f.rec > Len(lg) + 1 => f.at >= Len(d)

\* A fragment, and one that comes after it.
InOrder(f, g) ==
    /\ f.rec <= g.rec
    /\ f.last => f.rec < g.rec
    /\ f.rec = g.rec => f.record = g.record /\ f.start = g.start

FragmentsOK(F, d, lg) ==
    /\ \A i \in 1 .. Len(F) : /\ FragmentOK(F[i]) /\ Takes(Place(F, i), F[i])
                              /\ Written(d, F[i]) /\ Belongs(F[i], d, lg)
    /\ \A i, j \in 1 .. Len(F) : i < j => InOrder(F[i], F[j])
    /\ \A r \in 1 .. Len(lg) : \E i \in 1 .. Len(F) : F[i].rec = r /\ F[i].last

\* The fragments F are those of the log: all that the bytes d are made of, or,
\* once a write has failed, the ones of the records lg.
Layout(F, d, lg, whole) ==
    /\ F \in Seq(Fragment) /\ d \in Seq(Nat)
    /\ LogOK(d, lg)
    /\ FragmentsOK(F, d, lg)
    /\ IF whole THEN Len(d) <= Place(F, Len(F) + 1).at
       ELSE \A i \in 1 .. Len(F) : F[i].rec <= Len(lg)

\* What is known of a place.
Spot == [base : Nat, at : Nat, first : BOOLEAN, rec : Nat \ {0}, start : Nat,
         record : Seq(Nat), from : Nat]

SpotOK(s) ==
    /\ s \in Spot /\ IsBlock(s.base)
    /\ s.base <= s.at /\ s.at + HeaderSize <= s.base + BlockSize
    /\ s.start <= s.at
    /\ s.first => s.from = 0
    /\ ~s.first => s.from < Len(s.record)

\* The sizes, as the leaves below need them.
LEMMA Sizes_ == BlockSize \in Nat \ {0} /\ HeaderSize \in Nat /\ 2 <= HeaderSize /\ HeaderSize < BlockSize
BY SizesAssumption

\* Behind a block there is another.
LEMMA NextBlock ==
    ASSUME NEW b \in Nat, IsBlock(b)
    PROVE  IsBlock(b + BlockSize)
<1>1. PICK q \in Nat : b = BlockSize * q
  BY DEF IsBlock
<1>2. q + 1 \in Nat /\ b + BlockSize = BlockSize * (q + 1)
  BY <1>1, Sizes_
<1>3. QED
  BY <1>2 DEF IsBlock

\* The parts of a fragment.
LEMMA FragmentFields ==
    ASSUME NEW f \in Fragment
    PROVE  /\ f.base \in Nat /\ f.at \in Nat /\ f.size \in Nat /\ f.first \in BOOLEAN
           /\ f.last \in BOOLEAN /\ f.rec \in Nat \ {0} /\ f.start \in Nat
           /\ f.record \in Seq(Nat) /\ f.from \in Nat /\ Len(f.record) \in Nat
           /\ End(f) \in Nat
<1>1. /\ f.base \in Nat /\ f.at \in Nat /\ f.size \in Nat /\ f.first \in BOOLEAN
      /\ f.last \in BOOLEAN /\ f.rec \in Nat \ {0} /\ f.start \in Nat
      /\ f.record \in Seq(Nat) /\ f.from \in Nat
  BY DEF Fragment
<1>2. Len(f.record) \in Nat
  BY <1>1, LenProperties
<1>3. End(f) \in Nat
  BY <1>1, Sizes_ DEF End
<1>4. QED
  BY <1>1, <1>2, <1>3

\* The place behind a fragment has room for a header in its block.
LEMMA AfterOK ==
    ASSUME NEW f, FragmentOK(f)
    PROVE  SpotOK(After(f)) /\ End(f) <= After(f).at /\ After(f).at <= f.base + BlockSize
<1> DEFINE s == After(f)
<1>1. /\ f.base \in Nat /\ f.at \in Nat /\ f.size \in Nat /\ f.first \in BOOLEAN
      /\ f.last \in BOOLEAN /\ f.rec \in Nat \ {0} /\ f.start \in Nat
      /\ f.record \in Seq(Nat) /\ f.from \in Nat /\ Len(f.record) \in Nat
      /\ End(f) \in Nat
  BY FragmentFields DEF FragmentOK
<1>2. /\ IsBlock(f.base) /\ f.base <= f.at /\ End(f) <= f.base + BlockSize
      /\ f.start <= f.at /\ f.from + f.size <= Len(f.record)
      /\ f.last <=> f.from + f.size = Len(f.record)
  BY DEF FragmentOK
<1>3. f.at <= End(f)
  BY <1>1, Sizes_ DEF End
<1>4. /\ s.first = f.last /\ s.start = f.start /\ s.record = f.record
      /\ s.rec = IF f.last THEN f.rec + 1 ELSE f.rec
      /\ s.from = IF f.last THEN 0 ELSE f.from + f.size
      /\ s.base = IF Fits(f) THEN f.base ELSE f.base + BlockSize
      /\ s.at = IF Fits(f) THEN End(f) ELSE f.base + BlockSize
  BY DEF After
<1>5. s.base \in Nat /\ s.at \in Nat /\ s.rec \in Nat \ {0} /\ s.from \in Nat
  BY <1>1, <1>4, Sizes_
<1>6. s \in Spot
  <2>1. s = [base |-> s.base, at |-> s.at, first |-> s.first, rec |-> s.rec,
             start |-> s.start, record |-> s.record, from |-> s.from]
    BY DEF After
  <2> HIDE DEF s
  <2>2. QED
    BY <1>1, <1>4, <1>5, <2>1 DEF Spot
<1> HIDE DEF s
<1>a. (s.first => s.from = 0) /\ (~s.first => s.from < Len(s.record))
  <2>1. CASE f.last
    BY <1>4, <2>1
  <2>2. CASE ~f.last
    <3>1. f.from + f.size < Len(f.record)
      <4>1. f.from + f.size # Len(f.record) /\ f.from + f.size <= Len(f.record)
        BY <1>2, <2>2
      <4> DEFINE x == f.from + f.size
                 n == Len(f.record)
      <4>2. x \in Nat /\ n \in Nat /\ x # n /\ x <= n
        BY <1>1, <4>1
      <4> HIDE DEF x, n
      <4>3. x < n
        BY <4>2
      <4>4. QED
        BY <4>3 DEF x, n
    <3>2. s.from = f.from + f.size /\ s.record = f.record /\ ~s.first
      BY <1>4, <2>2
    <3>3. QED
      BY <3>1, <3>2
  <2>3. QED
    BY <2>1, <2>2
<1>7. CASE Fits(f)
  <2>1. s.base = f.base /\ s.at = End(f) /\ End(f) + HeaderSize <= f.base + BlockSize
    BY <1>4, <1>7 DEF Fits
  <2>2. s.base <= s.at /\ s.at + HeaderSize <= s.base + BlockSize /\ s.start <= s.at
        /\ s.at <= f.base + BlockSize
    BY <1>1, <1>2, <1>3, <1>4, <2>1, Sizes_
  <2>3. IsBlock(s.base) /\ End(f) <= s.at
    BY <1>1, <1>2, <2>1
  <2>5. QED
    BY <1>6, <1>a, <2>2, <2>3 DEF SpotOK, s
<1>8. CASE ~Fits(f)
  <2> DEFINE b == f.base + BlockSize
  <2>1. s.base = b /\ s.at = b
    BY <1>4, <1>8
  <2>4. b \in Nat /\ b + HeaderSize <= b + BlockSize /\ f.start <= b /\ End(f) <= b
    BY <1>1, <1>2, <1>3, Sizes_
  <2>2. s.base <= s.at /\ s.at + HeaderSize <= s.base + BlockSize /\ s.start <= s.at
        /\ s.at <= f.base + BlockSize
    <3>1. b <= f.base + BlockSize /\ s.start = f.start
      BY <1>4, <2>4
    <3> HIDE DEF b
    <3>2. QED
      BY <2>1, <2>4, <3>1
  <2>3. IsBlock(s.base) /\ End(f) <= s.at
    BY <1>1, <1>2, <2>1, NextBlock
  <2>5. QED
    BY <1>6, <1>a, <2>2, <2>3 DEF SpotOK, s
<1>9. QED
  BY <1>7, <1>8

\* So has the first place, at the start of the file.
LEMMA OriginOK == SpotOK(Origin)
<1>1. /\ Origin.base = 0 /\ Origin.at = 0 /\ Origin.first = TRUE /\ Origin.rec = 1
      /\ Origin.start = 0 /\ Origin.record = << >> /\ Origin.from = 0
  BY DEF Origin
<1>2. Origin \in Spot
  <2>1. << >> \in Seq(Nat)
    OBVIOUS
  <2>2. QED
    BY <2>1 DEF Origin, Spot
<1>3. IsBlock(0)
  <2>1. 0 = BlockSize * 0
    BY Sizes_
  <2>2. QED
    BY <2>1 DEF IsBlock
<1>4. QED
  BY <1>1, <1>2, <1>3, Sizes_ DEF SpotOK

\* So has the place of each fragment of a log, and the one behind the last.
LEMMA PlaceOK ==
    ASSUME NEW F \in Seq(Fragment), NEW d, NEW lg, FragmentsOK(F, d, lg),
           NEW i \in 1 .. Len(F) + 1
    PROVE  SpotOK(Place(F, i))
<1>1. CASE i = 1
  BY <1>1, OriginOK DEF Place
<1>2. CASE i # 1
  <2>1. i - 1 \in 1 .. Len(F) /\ Place(F, i) = After(F[i - 1])
    BY <1>2 DEF Place
  <2>2. FragmentOK(F[i - 1])
    BY <2>1 DEF FragmentsOK
  <2>3. QED
    BY <2>1, <2>2, AfterOK
<1>3. QED
  BY <1>1, <1>2

\* The first n elements of a sequence.
LEMMA FirstPart ==
    ASSUME NEW S, NEW s \in Seq(S), NEW n \in 0 .. Len(s)
    PROVE  /\ SubSeq(s, 1, n) \in Seq(S) /\ Len(SubSeq(s, 1, n)) = n
           /\ \A i \in 1 .. n : SubSeq(s, 1, n)[i] = s[i]
<1>1. SubSeq(s, 1, n) \in Seq(S) /\ Len(SubSeq(s, 1, n)) = n
  BY Halves
<1>2. n \in Int /\ 1 \in Int /\ n \in Nat /\ Len(s) \in Nat
  OBVIOUS
<1>3. \A i \in 1 .. n : s[i] \in S
  <2>1. \A i \in 1 .. Len(s) : s[i] \in S
    OBVIOUS
  <2>2. QED
    BY <1>2, <2>1
<1>4. \A i \in 1 .. n - 1 + 1 : SubSeq(s, 1, n)[i] = s[1 + i - 1]
  BY <1>2, <1>3, SubSeqProperties
<1>5. ASSUME NEW i \in 1 .. n PROVE SubSeq(s, 1, n)[i] = s[i]
  <2>1. i \in 1 .. n - 1 + 1 /\ 1 + i - 1 = i
    BY <1>2
  <2>2. QED
    BY <1>4, <2>1
<1>6. QED
  BY <1>1, <1>5

\* The parts of an acknowledged record.
LEMMA EntryFields ==
    ASSUME NEW lg \in Seq(Entry), NEW r \in 1 .. Len(lg)
    PROVE  lg[r].data \in Seq(Nat) /\ lg[r].start \in Nat /\ lg[r].end \in Nat
<1>1. lg[r] \in Entry
  OBVIOUS
<1>2. QED
  BY <1>1 DEF Entry

\* A place depends only on the fragments before it.
LEMMA PlaceSame ==
    ASSUME NEW F, NEW G, NEW i \in Nat \ {0}, i > 1 => F[i - 1] = G[i - 1]
    PROVE  Place(F, i) = Place(G, i)
<1>1. CASE i = 1
  BY <1>1 DEF Place
<1>2. CASE i # 1
  BY <1>2 DEF Place
<1>3. QED
  BY <1>1, <1>2

\* A fragment that lies in the bytes d lies in what begins with them.
LEMMA WrittenGrows ==
    ASSUME NEW f \in Fragment, NEW d \in Seq(Nat), NEW e \in Seq(Nat), Written(d, f), Begins(d, e),
           End(f) <= Len(d)
    PROVE  Written(e, f)
<1>1. /\ f.at \in Nat /\ f.size \in Nat /\ Len(d) \in Nat /\ Len(e) \in Nat
      /\ f.at + HeaderSize + f.size <= Len(d) /\ HeaderSize \in Nat /\ 2 <= HeaderSize
  <2>1. f.at \in Nat /\ f.size \in Nat
    BY FragmentFields
  <2>2. Len(d) \in Nat /\ Len(e) \in Nat
    BY LenProperties
  <2>3. QED
    BY <2>1, <2>2, Sizes_ DEF End
<1>2. ASSUME NEW j \in 1 .. Len(d) PROVE e[j] = d[j]
  BY DEF Begins
<1> DEFINE a == f.at + HeaderSize - 1
           b == f.at + HeaderSize
<1>3. a \in 1 .. Len(d) /\ b \in 1 .. Len(d) /\ a <= Len(d) /\ b <= Len(d)
  <2>1. a \in Nat /\ b \in Nat /\ 1 <= a /\ 1 <= b /\ a <= b /\ b <= Len(d)
    <3>1. PICK x \in Nat, h \in Nat, n \in Nat, l \in Nat :
               x = f.at /\ h = HeaderSize /\ n = f.size /\ l = Len(d)
      BY <1>1
    <3>2. x + h + n <= l /\ 2 <= h
      BY <1>1, <3>1
    <3>3. a = x + h - 1 /\ b = x + h
      BY <3>1
    <3> HIDE DEF a, b
    <3>4. a \in Nat /\ b \in Nat /\ 1 <= a /\ 1 <= b /\ a <= b /\ b <= l
      BY <3>2, <3>3
    <3>5. QED
      BY <3>1, <3>4
  <2> HIDE DEF a, b
  <2>2. QED
    BY <1>1, <2>1
<1>4. d[a] = f.size /\ d[b] = FragmentType(f.first, f.last)
  BY <1>3 DEF Written
<1>5. e[a] = f.size /\ e[b] = FragmentType(f.first, f.last)
  BY <1>2, <1>3, <1>4
<1>6. ASSUME NEW j \in 1 .. f.size
      PROVE  e[f.at + HeaderSize + j] = f.record[f.from + j]
  <2> DEFINE c == f.at + HeaderSize + j
  <2>1. c \in 1 .. Len(d) /\ c <= Len(d)
    BY <1>1
  <2>2. d[c] = f.record[f.from + j]
    BY <2>1 DEF Written
  <2>3. QED
    BY <1>2, <2>1, <2>2
<1>7. QED
  BY <1>5, <1>6 DEF Written

\* A cut takes only the end of a fragment away.
LEMMA WrittenCut ==
    ASSUME NEW f \in Fragment, NEW d \in Seq(Nat), NEW e \in Seq(Nat), Written(d, f), Begins(e, d)
    PROVE  Written(e, f)
<1>1. /\ f.at \in Nat /\ f.size \in Nat /\ Len(d) \in Nat /\ Len(e) \in Nat
      /\ HeaderSize \in Nat /\ 2 <= HeaderSize /\ Len(e) <= Len(d)
  <2>1. f.at \in Nat /\ f.size \in Nat
    BY FragmentFields
  <2>2. Len(d) \in Nat /\ Len(e) \in Nat
    BY LenProperties
  <2>3. QED
    BY <2>1, <2>2, Sizes_ DEF Begins
<1>2. ASSUME NEW j \in 1 .. Len(e) PROVE e[j] = d[j] /\ j <= Len(d)
  BY <1>1 DEF Begins
<1> DEFINE a == f.at + HeaderSize - 1
           b == f.at + HeaderSize
<1>3. a \in Nat \ {0} /\ b \in Nat \ {0}
  BY <1>1
<1>4. ASSUME a <= Len(e) PROVE e[a] = f.size
  <2>1. a \in 1 .. Len(e) /\ a <= Len(d)
    <3> HIDE DEF a, b
    <3>1. QED
      BY <1>1, <1>3, <1>4
  <2>2. d[a] = f.size
    BY <2>1 DEF Written
  <2>3. QED
    BY <1>2, <2>1, <2>2
<1>5. ASSUME b <= Len(e) PROVE e[b] = FragmentType(f.first, f.last)
  <2>1. b \in 1 .. Len(e) /\ b <= Len(d)
    <3> HIDE DEF a, b
    <3>1. QED
      BY <1>1, <1>3, <1>5
  <2>2. d[b] = FragmentType(f.first, f.last)
    BY <2>1 DEF Written
  <2>3. QED
    BY <1>2, <2>1, <2>2
<1>6. ASSUME NEW j \in 1 .. f.size, f.at + HeaderSize + j <= Len(e)
      PROVE  e[f.at + HeaderSize + j] = f.record[f.from + j]
  <2> DEFINE c == f.at + HeaderSize + j
  <2>1. c \in 1 .. Len(e) /\ c <= Len(d)
    <3>1. c \in Nat /\ 1 <= c /\ c <= Len(e)
      <4>1. PICK x \in Nat, h \in Nat, n \in Nat : x = f.at /\ h = HeaderSize /\ n = f.size
        BY <1>1
      <4>2. c = x + h + j /\ j \in 1 .. n
        BY <4>1
      <4>3. x + h + j \in Nat /\ 1 <= x + h + j
        BY <4>2
      <4>4. QED
        BY <1>6, <4>2, <4>3
    <3> HIDE DEF a, b, c
    <3>2. QED
      BY <1>1, <3>1
  <2>2. d[c] = f.record[f.from + j]
    BY <2>1 DEF Written
  <2>3. QED
    BY <1>2, <2>1, <2>2
<1>7. QED
  BY <1>4, <1>5, <1>6 DEF Written

\* What a layout says, fragment by fragment.
LEMMA LayoutParts ==
    ASSUME NEW F, NEW d, NEW lg, NEW whole, Layout(F, d, lg, whole)
    PROVE  /\ F \in Seq(Fragment) /\ d \in Seq(Nat) /\ lg \in Seq(Entry)
           /\ Len(F) \in Nat /\ Len(d) \in Nat /\ Len(lg) \in Nat
           /\ LogOK(d, lg) /\ FragmentsOK(F, d, lg)
           /\ \A i \in 1 .. Len(F) :
                /\ FragmentOK(F[i]) /\ F[i] \in Fragment /\ Takes(Place(F, i), F[i])
                /\ Written(d, F[i]) /\ Belongs(F[i], d, lg)
<1>1. F \in Seq(Fragment) /\ d \in Seq(Nat) /\ lg \in Seq(Entry) /\ LogOK(d, lg) /\ FragmentsOK(F, d, lg)
  BY DEF Layout, LogOK
<1>2. Len(F) \in Nat /\ Len(d) \in Nat /\ Len(lg) \in Nat
  BY <1>1, LenProperties
<1>3. QED
  BY <1>1, <1>2 DEF FragmentsOK, FragmentOK

\* The bytes after the records do not matter once a write has failed.
LEMMA LayoutGrows ==
    ASSUME NEW F, NEW d, NEW lg, Layout(F, d, lg, FALSE), NEW e \in Seq(Nat), Begins(d, e)
    PROVE  Layout(F, e, lg, FALSE)
<1>1. /\ F \in Seq(Fragment) /\ d \in Seq(Nat) /\ lg \in Seq(Entry)
      /\ Len(F) \in Nat /\ Len(d) \in Nat /\ Len(lg) \in Nat
      /\ LogOK(d, lg) /\ FragmentsOK(F, d, lg)
      /\ \A i \in 1 .. Len(F) :
           /\ FragmentOK(F[i]) /\ F[i] \in Fragment /\ Takes(Place(F, i), F[i])
           /\ Written(d, F[i]) /\ Belongs(F[i], d, lg)
  BY LayoutParts
<1>2. Len(e) \in Nat /\ Len(d) <= Len(e)
  BY LenProperties DEF Begins
<1>3. \A i \in 1 .. Len(F) : F[i].rec <= Len(lg)
  BY DEF Layout
<1>4. LogOK(e, lg)
  <2>1. ASSUME NEW r \in 1 .. Len(lg) PROVE lg[r].end <= Len(e)
    <3>1. lg[r].end \in Nat /\ lg[r].end <= Len(d)
      BY <1>1, EntryFields DEF LogOK
    <3>2. QED
      BY <1>1, <1>2, <3>1
  <2>2. QED
    BY <1>1, <2>1 DEF LogOK
<1>5. ASSUME NEW i \in 1 .. Len(F) PROVE Written(e, F[i]) /\ Belongs(F[i], e, lg)
  <2> DEFINE f == F[i]
             r == F[i].rec
  <2>1. f \in Fragment /\ Written(d, f) /\ Belongs(f, d, lg) /\ r \in Nat \ {0} /\ r <= Len(lg)
        /\ End(f) \in Nat
    BY <1>1, <1>3, FragmentFields
  <2>2. r \in 1 .. Len(lg)
    BY <1>1, <2>1
  <2>3. lg[r].end \in Nat /\ lg[r].end <= Len(d) /\ End(f) <= lg[r].end
    BY <1>1, <2>1, <2>2, EntryFields DEF LogOK, Belongs
  <2>4. End(f) <= Len(d)
    <3> HIDE DEF f, r
    <3>1. QED
      BY <1>1, <2>1, <2>3
  <2>5. Written(e, f)
    <3> HIDE DEF f
    <3>1. QED
      BY <1>1, <2>1, <2>4, WrittenGrows
  <2>6. ~(r > Len(lg)) /\ ~(r > Len(lg) + 1)
    <3> HIDE DEF r
    <3>1. QED
      BY <1>1, <2>1
  <2>7. Belongs(f, e, lg)
    BY <2>1, <2>6 DEF Belongs
  <2>8. QED
    BY <2>5, <2>7
<1>6. FragmentsOK(F, e, lg)
  BY <1>1, <1>5 DEF FragmentsOK
<1>7. QED
  BY <1>1, <1>3, <1>4, <1>6 DEF Layout

\* A log that the bytes end with before the next fragment is whole.
LEMMA LayoutWhole ==
    ASSUME NEW F, NEW d, NEW lg, Layout(F, d, lg, FALSE), Len(d) <= Place(F, Len(F) + 1).at
    PROVE  Layout(F, d, lg, TRUE)
BY DEF Layout

\* The first records of a log are a log.
LEMMA LogFirst ==
    ASSUME NEW d \in Seq(Nat), NEW lg, LogOK(d, lg), NEW k \in 0 .. Len(lg)
    PROVE  /\ LogOK(d, SubSeq(lg, 1, k)) /\ SubSeq(lg, 1, k) \in Seq(Entry)
           /\ Len(SubSeq(lg, 1, k)) = k /\ \A r \in 1 .. k : SubSeq(lg, 1, k)[r] = lg[r]
<1> DEFINE l == SubSeq(lg, 1, k)
<1>1. lg \in Seq(Entry) /\ Len(lg) \in Nat /\ k \in Nat /\ k <= Len(lg)
  BY LenProperties DEF LogOK
<1>2. l \in Seq(Entry) /\ Len(l) = k /\ \A r \in 1 .. k : l[r] = lg[r]
  BY <1>1, FirstPart
<1>3. \A r \in 1 .. k : r \in 1 .. Len(lg)
  BY <1>1
<1> HIDE DEF l
<1>4. LogOK(d, l)
  BY <1>1, <1>2, <1>3 DEF LogOK
<1>5. QED
  BY <1>2, <1>4 DEF l

\* A fragment of the first k records belongs to those.
LEMMA BelongsFirst ==
    ASSUME NEW f \in Fragment, NEW d \in Seq(Nat), NEW lg, LogOK(d, lg), NEW k \in 0 .. Len(lg),
           Belongs(f, d, lg), f.rec <= k
    PROVE  Belongs(f, d, SubSeq(lg, 1, k))
<1> DEFINE l == SubSeq(lg, 1, k)
<1>1. Len(l) = k /\ \A r \in 1 .. k : l[r] = lg[r]
  BY LogFirst
<1>2. Len(lg) \in Nat /\ k \in Nat /\ k <= Len(lg) /\ f.rec \in Nat \ {0}
  BY LenProperties, FragmentFields DEF LogOK
<1>3. f.rec \in 1 .. k /\ f.rec <= Len(lg) /\ ~(f.rec > k) /\ ~(f.rec > k + 1)
  BY <1>2
<1>4. \A r \in 1 .. k : r \in 1 .. Len(lg)
  BY <1>2
<1> HIDE DEF l
<1>5. /\ l[f.rec].data = f.record /\ l[f.rec].start = f.start
      /\ End(f) <= l[f.rec].end /\ (f.last => l[f.rec].end = End(f))
  BY <1>1, <1>3 DEF Belongs
<1>6. \A r \in 1 .. k : r < f.rec => l[r].end <= f.start
  BY <1>1, <1>4 DEF Belongs
<1>7. QED
  BY <1>1, <1>3, <1>5, <1>6 DEF Belongs, l

\* The fragments of the first k records.
EndsWith(G, lg, k) ==
    IF k = 0 THEN G = << >>
    ELSE /\ Len(G) > 0 /\ G[Len(G)].last /\ G[Len(G)].rec = k /\ End(G[Len(G)]) = lg[k].end

\* The first k records of a log have fragments of their own.
LEMMA LayoutCut ==
    ASSUME NEW F, NEW d, NEW lg, NEW whole, Layout(F, d, lg, whole), NEW k \in 0 .. Len(lg)
    PROVE  \E G : Layout(G, d, SubSeq(lg, 1, k), FALSE) /\ EndsWith(G, lg, k)
<1>1. /\ F \in Seq(Fragment) /\ d \in Seq(Nat) /\ lg \in Seq(Entry)
      /\ Len(F) \in Nat /\ Len(d) \in Nat /\ Len(lg) \in Nat
      /\ LogOK(d, lg) /\ FragmentsOK(F, d, lg)
      /\ \A i \in 1 .. Len(F) :
           /\ FragmentOK(F[i]) /\ F[i] \in Fragment /\ Takes(Place(F, i), F[i])
           /\ Written(d, F[i]) /\ Belongs(F[i], d, lg)
  BY LayoutParts
<1> DEFINE l == SubSeq(lg, 1, k)
<1>2. LogOK(d, l) /\ l \in Seq(Entry) /\ Len(l) = k /\ \A r \in 1 .. k : l[r] = lg[r]
  BY <1>1, LogFirst
<1>3. k \in Nat /\ k <= Len(lg)
  BY <1>1
<1>4. \A f \in Fragment : Belongs(f, d, lg) /\ f.rec <= k => Belongs(f, d, l)
  BY <1>1, BelongsFirst
<1> HIDE DEF l
<1>5. CASE k = 0
  <2>1. FragmentsOK(<< >>, d, l)
    BY <1>2, <1>5 DEF FragmentsOK
  <2>2. Layout(<< >>, d, l, FALSE)
    BY <1>1, <1>2, <2>1 DEF Layout
  <2>3. QED
    BY <1>5, <2>2 DEF EndsWith, l
<1>6. CASE k # 0
  <2>1. k \in 1 .. Len(lg)
    BY <1>3, <1>6
  <2>2. PICK m \in 1 .. Len(F) : F[m].rec = k /\ F[m].last
    BY <1>1, <2>1 DEF FragmentsOK
  <2> DEFINE G == SubSeq(F, 1, m)
  <2>3. m \in 0 .. Len(F) /\ m \in Nat /\ m <= Len(F) /\ m > 0
    BY <1>1
  <2>4. G \in Seq(Fragment) /\ Len(G) = m /\ \A i \in 1 .. m : G[i] = F[i]
    BY <1>1, <2>3, FirstPart
  <2>5. \A i \in 1 .. m : i \in 1 .. Len(F)
    BY <1>1, <2>3
  <2> HIDE DEF G
  <2>6. ASSUME NEW i \in 1 .. m PROVE G[i].rec <= k
    <3>1. CASE i = m
      BY <1>3, <2>2, <2>4, <3>1
    <3>2. CASE i < m
      BY <1>1, <2>2, <2>4, <2>5, <3>2 DEF FragmentsOK, InOrder
    <3>3. QED
      BY <2>3, <3>1, <3>2
  <2>7. ASSUME NEW i \in 1 .. m
        PROVE  FragmentOK(G[i]) /\ Takes(Place(G, i), G[i]) /\ Written(d, G[i]) /\ Belongs(G[i], d, l)
    <3>1. G[i] = F[i] /\ F[i] \in Fragment /\ i \in 1 .. Len(F)
      BY <1>1, <2>4, <2>5
    <3>2. Belongs(G[i], d, l)
      BY <1>1, <1>4, <2>6, <3>1
    <3>3. Place(G, i) = Place(F, i)
      <4>1. i > 1 => i - 1 \in 1 .. m
        BY <2>3
      <4>2. i > 1 => G[i - 1] = F[i - 1]
        BY <2>4, <4>1
      <4>3. i \in Nat \ {0}
        OBVIOUS
      <4>4. QED
        BY <4>2, <4>3, PlaceSame
    <3>4. QED
      BY <1>1, <3>1, <3>2, <3>3
  <2>8. ASSUME NEW r \in 1 .. k PROVE \E i \in 1 .. m : G[i].rec = r /\ G[i].last
    <3>1. r \in 1 .. Len(lg)
      BY <1>3
    <3>2. PICK i \in 1 .. Len(F) : F[i].rec = r /\ F[i].last
      BY <1>1, <3>1 DEF FragmentsOK
    <3>3. i <= m
      <4>1. ASSUME m < i PROVE FALSE
        <5>1. F[m].rec < F[i].rec
          BY <1>1, <2>2, <3>2, <4>1 DEF FragmentsOK, InOrder
        <5>2. k < r
          BY <2>2, <3>2, <5>1
        <5>3. QED
          BY <1>3, <5>2
      <4>2. QED
        BY <2>3, <4>1
    <3>4. i \in 1 .. m
      BY <3>3
    <3>5. QED
      BY <2>4, <3>2, <3>4
  <2>9. \A i, j \in 1 .. m : i < j => InOrder(G[i], G[j])
    BY <1>1, <2>4, <2>5 DEF FragmentsOK
  <2>10. FragmentsOK(G, d, l)
    BY <1>2, <2>4, <2>7, <2>8, <2>9 DEF FragmentsOK
  <2>11. Layout(G, d, l, FALSE)
    BY <1>1, <1>2, <2>4, <2>6, <2>10 DEF Layout
  <2>12. EndsWith(G, lg, k)
    <3>1. m \in 1 .. m /\ G[Len(G)] = F[m] /\ Len(G) > 0
      BY <2>3, <2>4
    <3>2. lg[F[m].rec].end = End(F[m])
      BY <1>1, <1>3, <2>2 DEF Belongs
    <3>3. QED
      BY <1>6, <2>2, <3>1, <3>2 DEF EndsWith
  <2>13. QED
    BY <2>11, <2>12 DEF l
<1>7. QED
  BY <1>5, <1>6

\* After a cut at byte n the fragments, and the records that end by then.
LEMMA LayoutCrash ==
    ASSUME NEW F, NEW d, NEW lg, Layout(F, d, lg, TRUE), NEW n \in 0 .. Len(d), NEW k \in 0 .. Len(lg),
           \A r \in 1 .. Len(lg) : r <= k <=> lg[r].end <= n
    PROVE  Layout(F, SubSeq(d, 1, n), SubSeq(lg, 1, k), TRUE)
<1>1. /\ F \in Seq(Fragment) /\ d \in Seq(Nat) /\ lg \in Seq(Entry)
      /\ Len(F) \in Nat /\ Len(d) \in Nat /\ Len(lg) \in Nat
      /\ LogOK(d, lg) /\ FragmentsOK(F, d, lg)
      /\ \A i \in 1 .. Len(F) :
           /\ FragmentOK(F[i]) /\ F[i] \in Fragment /\ Takes(Place(F, i), F[i])
           /\ Written(d, F[i]) /\ Belongs(F[i], d, lg)
  BY LayoutParts
<1> DEFINE l == SubSeq(lg, 1, k)
           e == SubSeq(d, 1, n)
<1>2. LogOK(d, l) /\ l \in Seq(Entry) /\ Len(l) = k /\ \A r \in 1 .. k : l[r] = lg[r]
  BY <1>1, LogFirst
<1>3. e \in Seq(Nat) /\ Len(e) = n /\ \A i \in 1 .. n : e[i] = d[i]
  BY <1>1, FirstPart
<1>4. k \in Nat /\ k <= Len(lg) /\ n \in Nat /\ n <= Len(d)
  BY <1>1
<1> HIDE DEF l, e
<1>5. Begins(e, d)
  BY <1>3, <1>4 DEF Begins
<1>6. \A r \in 1 .. k : r \in 1 .. Len(lg) /\ l[r] = lg[r] /\ l[r].end <= n
  BY <1>2, <1>4
<1>7. LogOK(e, l)
  BY <1>2, <1>3, <1>6 DEF LogOK
<1>8. ASSUME NEW i \in 1 .. Len(F) PROVE Written(e, F[i]) /\ Belongs(F[i], e, l)
  <2> DEFINE f == F[i]
  <2>1. f \in Fragment /\ Written(d, f) /\ Belongs(f, d, lg) /\ f.rec \in Nat \ {0} /\ End(f) \in Nat
        /\ f.last \in BOOLEAN
    BY <1>1, FragmentFields
  <2> HIDE DEF f
  <2>2. Written(e, f)
    BY <1>1, <1>3, <1>5, <2>1, WrittenCut
  <2>3. ASSUME f.rec <= k
        PROVE  /\ l[f.rec].data = f.record /\ l[f.rec].start = f.start
               /\ End(f) <= l[f.rec].end /\ (f.last => l[f.rec].end = End(f))
    <3>1. f.rec \in 1 .. k
      BY <1>4, <2>1, <2>3
    <3>2. f.rec <= Len(lg) /\ l[f.rec] = lg[f.rec]
      BY <1>4, <1>6, <3>1
    <3>3. QED
      BY <2>1, <3>2 DEF Belongs
  <2>4. \A r \in 1 .. k : r < f.rec => l[r].end <= f.start
    BY <1>6, <2>1 DEF Belongs
  <2>5. ASSUME f.last, f.rec > k PROVE End(f) > n
    <3>1. CASE f.rec <= Len(lg)
      <4>1. f.rec \in 1 .. Len(lg) /\ ~(f.rec <= k)
        BY <1>1, <1>4, <2>1, <2>5, <3>1
      <4>2. ~(lg[f.rec].end <= n) /\ lg[f.rec].end = End(f)
        BY <2>1, <2>5, <3>1, <4>1 DEF Belongs
      <4>3. QED
        BY <1>4, <2>1, <4>2
    <3>2. CASE f.rec > Len(lg)
      <4>1. End(f) > Len(d)
        BY <2>1, <2>5, <3>2 DEF Belongs
      <4>2. QED
        BY <1>1, <1>4, <2>1, <4>1
    <3>3. QED
      BY <1>1, <2>1, <3>1, <3>2
  <2>8. ASSUME f.rec > k + 1 PROVE f.at >= n
    <3>1. f.at \in Nat /\ f.start \in Nat /\ f.start <= f.at
      BY <1>1, FragmentFields DEF FragmentOK, f
    <3>2. CASE k = Len(lg)
      <4>1. f.at >= Len(d)
        BY <2>1, <2>8, <3>2 DEF Belongs
      <4>2. QED
        BY <1>1, <1>4, <3>1, <4>1
    <3>3. CASE k # Len(lg)
      <4>1. k + 1 \in 1 .. Len(lg) /\ ~(k + 1 <= k) /\ k + 1 < f.rec
        BY <1>1, <1>4, <2>1, <2>8, <3>3
      <4>2. ~(lg[k + 1].end <= n) /\ lg[k + 1].end <= f.start /\ lg[k + 1].end \in Nat
        BY <1>1, <2>1, <4>1, EntryFields DEF Belongs
      <4>3. QED
        BY <1>4, <3>1, <4>2
    <3>4. QED
      BY <3>2, <3>3
  <2>6. Belongs(f, e, l)
    BY <1>2, <1>3, <2>3, <2>4, <2>5, <2>8 DEF Belongs
  <2>7. QED
    BY <2>2, <2>6 DEF f
<1>9. \A r \in 1 .. Len(l) : \E i \in 1 .. Len(F) : F[i].rec = r /\ F[i].last
  BY <1>1, <1>2, <1>6 DEF FragmentsOK
<1>10. FragmentsOK(F, e, l)
  BY <1>1, <1>8, <1>9 DEF FragmentsOK
<1>11. Len(e) <= Place(F, Len(F) + 1).at
  <2>1. Len(d) <= Place(F, Len(F) + 1).at
    BY DEF Layout
  <2>2. Place(F, Len(F) + 1).at \in Nat
    <3>1. Len(F) + 1 \in 1 .. Len(F) + 1
      BY <1>1
    <3>2. SpotOK(Place(F, Len(F) + 1))
      BY <1>1, <3>1, PlaceOK
    <3>3. QED
      BY <3>2 DEF SpotOK, Spot
  <2>3. QED
    BY <1>1, <1>3, <1>4, <2>1, <2>2
<1>12. QED
  BY <1>1, <1>3, <1>7, <1>10, <1>11 DEF Layout, l, e

\* A cut behind the records does not matter once a write has failed.
LEMMA LayoutTruncate ==
    ASSUME NEW F, NEW d, NEW lg, Layout(F, d, lg, FALSE), NEW n \in 0 .. Len(d),
           \A r \in 1 .. Len(lg) : lg[r].end <= n
    PROVE  Layout(F, SubSeq(d, 1, n), lg, FALSE)
<1>1. /\ F \in Seq(Fragment) /\ d \in Seq(Nat) /\ lg \in Seq(Entry)
      /\ Len(F) \in Nat /\ Len(d) \in Nat /\ Len(lg) \in Nat
      /\ LogOK(d, lg) /\ FragmentsOK(F, d, lg)
      /\ \A i \in 1 .. Len(F) :
           /\ FragmentOK(F[i]) /\ F[i] \in Fragment /\ Takes(Place(F, i), F[i])
           /\ Written(d, F[i]) /\ Belongs(F[i], d, lg)
  BY LayoutParts
<1> DEFINE e == SubSeq(d, 1, n)
<1>2. e \in Seq(Nat) /\ Len(e) = n /\ \A i \in 1 .. n : e[i] = d[i]
  BY <1>1, FirstPart
<1>3. n \in Nat /\ n <= Len(d)
  BY <1>1
<1> HIDE DEF e
<1>4. Begins(e, d)
  BY <1>2, <1>3 DEF Begins
<1>5. LogOK(e, lg)
  BY <1>1, <1>2 DEF LogOK
<1>6. \A i \in 1 .. Len(F) : F[i].rec <= Len(lg)
  BY DEF Layout
<1>7. ASSUME NEW i \in 1 .. Len(F) PROVE Written(e, F[i]) /\ Belongs(F[i], e, lg)
  <2> DEFINE f == F[i]
  <2>1. f \in Fragment /\ Written(d, f) /\ Belongs(f, d, lg) /\ f.rec \in Nat /\ f.rec <= Len(lg)
    BY <1>1, <1>6, FragmentFields
  <2> HIDE DEF f
  <2>2. Written(e, f)
    BY <1>1, <1>2, <1>4, <2>1, WrittenCut
  <2>3. ~(f.rec > Len(lg)) /\ ~(f.rec > Len(lg) + 1)
    BY <1>1, <2>1
  <2>4. Belongs(f, e, lg)
    BY <2>1, <2>3 DEF Belongs
  <2>5. QED
    BY <2>2, <2>4 DEF f
<1>8. FragmentsOK(F, e, lg)
  BY <1>1, <1>7 DEF FragmentsOK
<1>9. QED
  BY <1>1, <1>2, <1>5, <1>6, <1>8 DEF Layout, e

\* What Append returns.
LEMMA AppendIs ==
    ASSUME NEW S, NEW s \in Seq(S), NEW x \in S
    PROVE  /\ Append(s, x) \in Seq(S) /\ Len(Append(s, x)) = Len(s) + 1
           /\ \A i \in 1 .. Len(s) : Append(s, x)[i] = s[i]
           /\ Append(s, x)[Len(s) + 1] = x
<1>1. Len(s) \in Nat
  BY LenProperties
<1>2. QED
  BY <1>1, AppendProperties

\* What is known of the place behind the last fragment.
LEMMA NextPlace ==
    ASSUME NEW F, NEW d, NEW lg, NEW whole, Layout(F, d, lg, whole), NEW s, s = Place(F, Len(F) + 1)
    PROVE  /\ SpotOK(s)
           /\ s.base \in Nat /\ s.at \in Nat /\ s.first \in BOOLEAN /\ s.rec \in Nat \ {0}
           /\ s.start \in Nat /\ s.record \in Seq(Nat) /\ s.from \in Nat
<1>1. F \in Seq(Fragment) /\ Len(F) \in Nat /\ FragmentsOK(F, d, lg)
  BY LayoutParts
<1>2. Len(F) + 1 \in 1 .. Len(F) + 1
  BY <1>1
<1>3. SpotOK(s)
  BY <1>1, <1>2, PlaceOK
<1>4. QED
  BY <1>3 DEF SpotOK, Spot

\* The record of the last fragment, and that of the place behind it.
LEMMA NextRecord ==
    ASSUME NEW F, NEW d, NEW lg, NEW whole, Layout(F, d, lg, whole), NEW s, s = Place(F, Len(F) + 1),
           NEW i \in 1 .. Len(F)
    PROVE  /\ F[i].rec <= s.rec
           /\ F[i].last => F[i].rec < s.rec
           /\ F[i].rec = s.rec => ~s.first /\ s.record = F[i].record /\ s.start = F[i].start
<1>1. /\ F \in Seq(Fragment) /\ Len(F) \in Nat /\ FragmentsOK(F, d, lg)
      /\ \A j \in 1 .. Len(F) : F[j] \in Fragment
  BY LayoutParts
<1> DEFINE n == Len(F)
           f == F[i]
           z == F[n]
<1>2. n \in 1 .. Len(F) /\ n \in Nat /\ n + 1 # 1 /\ (n + 1) - 1 = n
  BY <1>1
<1>3. s = After(z)
  BY <1>2 DEF Place
<1>4. /\ s.rec = IF z.last THEN z.rec + 1 ELSE z.rec
      /\ s.first = z.last /\ s.start = z.start /\ s.record = z.record
  BY <1>3 DEF After
<1>5. f.rec \in Nat /\ z.rec \in Nat /\ f.last \in BOOLEAN /\ z.last \in BOOLEAN
  BY <1>1, <1>2, FragmentFields
<1>6. i = n \/ i < n
  BY <1>1
<1>7. i = n \/ InOrder(f, z)
  BY <1>1, <1>2, <1>6 DEF FragmentsOK
<1>8. f = z \/ (f.rec <= z.rec /\ (f.last => f.rec < z.rec)
                /\ (f.rec = z.rec => f.record = z.record /\ f.start = z.start))
  BY <1>7 DEF InOrder
<1> HIDE DEF f, z, n
<1>9. CASE z.last
  <2>1. s.rec = z.rec + 1
    BY <1>4, <1>9
  <2>2. f.rec <= z.rec
    BY <1>5, <1>8
  <2>3. f.rec < s.rec
    BY <1>5, <2>1, <2>2
  <2>4. QED
    BY <1>5, <2>1, <2>3 DEF f
<1>10. CASE ~z.last
  <2>1. s.rec = z.rec /\ ~s.first
    BY <1>4, <1>10
  <2>2. f.rec <= z.rec /\ (f.last => f.rec < z.rec)
        /\ (f.rec = z.rec => f.record = z.record /\ f.start = z.start)
    BY <1>5, <1>8, <1>10
  <2>3. QED
    BY <1>4, <2>1, <2>2 DEF f
<1>11. QED
  BY <1>5, <1>9, <1>10

\* The fragment g is put behind the fragments F, which makes the bytes d the
\* bytes e, and what that does to the acknowledged records.
Follows(F, d, lg, g, e) ==
    /\ Layout(F, d, lg, TRUE)
    /\ \A i \in 1 .. Len(F) : End(F[i]) <= Len(d)
    /\ FragmentOK(g) /\ Takes(Place(F, Len(F) + 1), g) /\ g.rec = Len(lg) + 1
    /\ e \in Seq(Nat) /\ Begins(d, e) /\ Len(e) = End(g) /\ Written(e, g)

Acknowledged(g) == [data |-> g.record, start |-> g.start, end |-> End(g)]

WithRecord(lg, g) == IF g.last THEN Append(lg, Acknowledged(g)) ELSE lg

\* What is known when fragment g is put behind the fragments F.
LEMMA FollowsParts ==
    ASSUME NEW F, NEW d, NEW lg, NEW g, NEW e, Follows(F, d, lg, g, e)
    PROVE  /\ F \in Seq(Fragment) /\ d \in Seq(Nat) /\ lg \in Seq(Entry) /\ e \in Seq(Nat)
           /\ Len(F) \in Nat /\ Len(d) \in Nat /\ Len(lg) \in Nat /\ Len(e) \in Nat
           /\ Len(d) <= Len(e) /\ Len(e) = End(g) /\ g.rec = Len(lg) + 1
           /\ LogOK(d, lg) /\ FragmentsOK(F, d, lg)
           /\ \A i \in 1 .. Len(F) :
                /\ FragmentOK(F[i]) /\ F[i] \in Fragment /\ Takes(Place(F, i), F[i])
                /\ Written(d, F[i]) /\ Belongs(F[i], d, lg) /\ End(F[i]) <= Len(d)
           /\ g \in Fragment /\ g.start \in Nat /\ g.at \in Nat /\ g.last \in BOOLEAN /\ End(g) \in Nat
           /\ g.record \in Seq(Nat) /\ g.start < End(g)
<1>1. Layout(F, d, lg, TRUE) /\ FragmentOK(g) /\ e \in Seq(Nat) /\ Begins(d, e)
  BY DEF Follows
<1>2. Len(e) \in Nat /\ Len(d) <= Len(e)
  BY <1>1, LenProperties DEF Begins
<1>3. g \in Fragment /\ g.start \in Nat /\ g.at \in Nat /\ g.last \in BOOLEAN /\ End(g) \in Nat
      /\ g.record \in Seq(Nat) /\ g.start <= g.at /\ g.size \in Nat
  BY <1>1, FragmentFields DEF FragmentOK
<1>4. g.start < End(g)
  <2>1. PICK x \in Nat, a \in Nat, n \in Nat, h \in Nat : x = g.start /\ a = g.at /\ n = g.size /\ h = HeaderSize
    BY <1>3, Sizes_
  <2>2. x <= a /\ End(g) = a + h + n /\ 2 <= h
    BY <1>3, <2>1, Sizes_ DEF End
  <2>3. x < a + h + n
    BY <2>2
  <2>4. QED
    BY <2>1, <2>2, <2>3
<1>5. /\ F \in Seq(Fragment) /\ d \in Seq(Nat) /\ lg \in Seq(Entry)
      /\ Len(F) \in Nat /\ Len(d) \in Nat /\ Len(lg) \in Nat
      /\ LogOK(d, lg) /\ FragmentsOK(F, d, lg)
      /\ \A i \in 1 .. Len(F) :
           /\ FragmentOK(F[i]) /\ F[i] \in Fragment /\ Takes(Place(F, i), F[i])
           /\ Written(d, F[i]) /\ Belongs(F[i], d, lg)
  BY <1>1, LayoutParts
<1>6. QED
  BY <1>1, <1>2, <1>3, <1>4, <1>5 DEF Follows

\* The record of g begins behind all that are acknowledged, and fragments of
\* that record have it in common with g.
LEMMA FollowsRecords ==
    ASSUME NEW F, NEW d, NEW lg, NEW g, NEW e, Follows(F, d, lg, g, e)
    PROVE  /\ \A r \in 1 .. Len(lg) : lg[r].end <= g.start
           /\ \A i \in 1 .. Len(F) : InOrder(F[i], g) /\ (F[i].last => F[i].rec <= Len(lg))
<1>1. /\ F \in Seq(Fragment) /\ d \in Seq(Nat) /\ lg \in Seq(Entry) /\ e \in Seq(Nat)
      /\ Len(F) \in Nat /\ Len(d) \in Nat /\ Len(lg) \in Nat
      /\ g.rec = Len(lg) + 1
      /\ LogOK(d, lg) /\ FragmentsOK(F, d, lg)
      /\ \A i \in 1 .. Len(F) :
           F[i] \in Fragment /\ Belongs(F[i], d, lg) /\ End(F[i]) <= Len(d)
      /\ g.start \in Nat /\ g.at \in Nat
  BY FollowsParts
<1> DEFINE s == Place(F, Len(F) + 1)
<1>2. Layout(F, d, lg, TRUE) /\ Takes(s, g) /\ Len(d) <= s.at /\ FragmentOK(g)
  BY DEF Follows, Layout
<1>3. SpotOK(s) /\ s.at \in Nat /\ s.first \in BOOLEAN
  BY <1>2, NextPlace
<1>4. \A i \in 1 .. Len(F) : /\ F[i].rec <= s.rec
                             /\ F[i].last => F[i].rec < s.rec
                             /\ F[i].rec = s.rec => ~s.first /\ s.record = F[i].record /\ s.start = F[i].start
  BY <1>2, NextRecord
<1>5. g.rec = s.rec /\ g.at = s.at /\ g.first = s.first /\ (~s.first => g.start = s.start /\ g.record = s.record)
  BY <1>2 DEF Takes
<1>6. s.first => g.start = s.at
  BY <1>2, <1>5 DEF FragmentOK
<1>7. Len(F) > 0 => s = After(F[Len(F)])
  BY <1>1 DEF Place
<1>8. Len(F) = 0 => s.first
  BY <1>1 DEF Place, Origin
<1> HIDE DEF s
<1>9. ASSUME NEW i \in 1 .. Len(F) PROVE InOrder(F[i], g) /\ (F[i].last => F[i].rec <= Len(lg))
  <2>1. InOrder(F[i], g)
    BY <1>4, <1>5 DEF InOrder
  <2>2. ASSUME F[i].last PROVE F[i].rec <= Len(lg)
    <3>1. F[i].rec \in Nat /\ End(F[i]) \in Nat /\ End(F[i]) <= Len(d)
      BY <1>1, FragmentFields
    <3>2. ~(End(F[i]) > Len(d))
      BY <1>1, <3>1
    <3>3. ~(F[i].rec > Len(lg))
      BY <1>1, <2>2, <3>2 DEF Belongs
    <3>4. QED
      BY <1>1, <3>1, <3>3
  <2>3. QED
    BY <2>1, <2>2
<1>10. ASSUME NEW r \in 1 .. Len(lg) PROVE lg[r].end <= g.start
  <2>1. lg[r].end \in Nat /\ lg[r].end <= Len(d)
    BY <1>1, EntryFields DEF LogOK
  <2>2. CASE s.first
    <3>1. g.start = s.at
      BY <1>6, <2>2
    <3>2. QED
      BY <1>1, <1>2, <1>3, <2>1, <3>1
  <2>3. CASE ~s.first
    <3>1. Len(F) \in 1 .. Len(F) /\ Len(F) > 0
      BY <1>1, <1>8, <2>3
    <3> DEFINE z == F[Len(F)]
    <3>2. s = After(z) /\ z \in Fragment /\ Belongs(z, d, lg)
      BY <1>1, <1>7, <3>1
    <3>3. s.first = z.last /\ s.start = z.start
      BY <3>2 DEF After
    <3>4. s.rec = z.rec
      BY <2>3, <3>2, <3>3 DEF After
    <3>5. r < z.rec
      BY <1>1, <1>5, <3>4
    <3>6. lg[r].end <= z.start
      BY <3>2, <3>5 DEF Belongs
    <3>7. QED
      BY <1>5, <2>3, <3>3, <3>6
  <2>4. QED
    BY <1>3, <2>2, <2>3
<1>11. QED
  BY <1>9, <1>10

\* The records after that: one more when g is the last fragment of its own.
LEMMA WithRecordIs ==
    ASSUME NEW F, NEW d, NEW lg, NEW g, NEW e, Follows(F, d, lg, g, e),
           NEW l, l = WithRecord(lg, g)
    PROVE  /\ l \in Seq(Entry) /\ Len(l) \in Nat
           /\ Len(l) = IF g.last THEN Len(lg) + 1 ELSE Len(lg)
           /\ \A r \in 1 .. Len(lg) : l[r] = lg[r]
           /\ g.last => l[Len(lg) + 1] = Acknowledged(g)
           /\ LogOK(e, l)
<1>1. /\ lg \in Seq(Entry) /\ Len(d) \in Nat /\ Len(lg) \in Nat /\ Len(e) \in Nat
      /\ Len(d) <= Len(e) /\ Len(e) = End(g)
      /\ LogOK(d, lg)
      /\ g.start \in Nat /\ g.last \in BOOLEAN /\ End(g) \in Nat
      /\ g.record \in Seq(Nat) /\ g.start < End(g)
  BY FollowsParts
<1>2. \A r \in 1 .. Len(lg) : lg[r].end <= g.start
  BY FollowsRecords
<1> DEFINE x == Acknowledged(g)
<1>3. x \in Entry /\ x.start = g.start /\ x.end = End(g)
  BY <1>1 DEF Acknowledged, Entry
<1> HIDE DEF x
<1>4. ASSUME NEW r \in 1 .. Len(lg)
      PROVE  /\ lg[r].start < lg[r].end /\ lg[r].end <= Len(e)
             /\ lg[r].end \in Nat /\ lg[r].start \in Nat
  <2>1. lg[r].end \in Nat /\ lg[r].start \in Nat /\ lg[r].start < lg[r].end /\ lg[r].end <= Len(d)
    BY <1>1, EntryFields DEF LogOK
  <2>2. QED
    BY <1>1, <2>1
<1>5. \A r, s \in 1 .. Len(lg) : r < s => lg[r].end <= lg[s].start
  BY <1>1 DEF LogOK
<1>6. CASE ~g.last
  <2>1. l = lg
    BY <1>6 DEF WithRecord
  <2>2. QED
    BY <1>1, <1>4, <1>5, <1>6, <2>1 DEF LogOK
<1>7. CASE g.last
  <2>1. l = Append(lg, x)
    BY <1>7 DEF WithRecord, x
  <2>2. l \in Seq(Entry) /\ Len(l) = Len(lg) + 1 /\ (\A r \in 1 .. Len(lg) : l[r] = lg[r])
        /\ l[Len(lg) + 1] = x
    BY <1>1, <1>3, <2>1, AppendIs
  <2>3. \A r \in 1 .. Len(l) : r \in 1 .. Len(lg) \/ r = Len(lg) + 1
    BY <1>1, <2>2
  <2>4. ASSUME NEW r \in 1 .. Len(l) PROVE l[r].start < l[r].end /\ l[r].end <= Len(e)
    <3>1. CASE r \in 1 .. Len(lg)
      BY <1>4, <2>2, <3>1
    <3>2. CASE r = Len(lg) + 1
      BY <1>1, <1>3, <2>2, <3>2
    <3>3. QED
      BY <2>3, <3>1, <3>2
  <2>5. ASSUME NEW r \in 1 .. Len(l), NEW s \in 1 .. Len(l), r < s PROVE l[r].end <= l[s].start
    <3>1. r \in 1 .. Len(lg)
      BY <1>1, <2>2, <2>5
    <3>2. CASE s \in 1 .. Len(lg)
      BY <1>5, <2>2, <2>5, <3>1, <3>2
    <3>3. CASE s = Len(lg) + 1
      BY <1>2, <1>3, <2>2, <3>1, <3>3
    <3>4. QED
      BY <2>3, <3>2, <3>3
  <2>6. LogOK(e, l)
    BY <2>2, <2>4, <2>5 DEF LogOK
  <2>7. QED
    BY <1>1, <1>7, <2>2, <2>6 DEF x
<1>8. QED
  BY <1>1, <1>6, <1>7

\* The older fragments belong to the records with the new one, if there is one.
LEMMA FollowsOld ==
    ASSUME NEW F, NEW d, NEW lg, NEW g, NEW e, Follows(F, d, lg, g, e),
           NEW l, l = WithRecord(lg, g), NEW i \in 1 .. Len(F)
    PROVE  Written(e, F[i]) /\ Belongs(F[i], e, l) /\ End(F[i]) <= Len(e)
<1>1. /\ d \in Seq(Nat) /\ lg \in Seq(Entry) /\ e \in Seq(Nat)
      /\ Len(d) \in Nat /\ Len(lg) \in Nat /\ Len(e) \in Nat
      /\ Len(d) <= Len(e) /\ Len(e) = End(g) /\ g.rec = Len(lg) + 1
      /\ F[i] \in Fragment /\ Written(d, F[i]) /\ Belongs(F[i], d, lg) /\ End(F[i]) <= Len(d)
      /\ g.last \in BOOLEAN /\ End(g) \in Nat
  BY FollowsParts
<1>2. InOrder(F[i], g) /\ (F[i].last => F[i].rec <= Len(lg)) /\ Begins(d, e)
  BY FollowsRecords DEF Follows
<1>3. /\ Len(l) \in Nat
      /\ Len(l) = IF g.last THEN Len(lg) + 1 ELSE Len(lg)
      /\ \A r \in 1 .. Len(lg) : l[r] = lg[r]
      /\ g.last => l[Len(lg) + 1] = Acknowledged(g)
  BY WithRecordIs
<1> DEFINE f == F[i]
<1>4. f.rec \in Nat \ {0} /\ End(f) \in Nat /\ f.last \in BOOLEAN /\ f.rec <= Len(lg) + 1
  BY <1>1, <1>2, FragmentFields DEF InOrder
<1>5. f \in Fragment /\ Written(d, f) /\ Belongs(f, d, lg) /\ End(f) <= Len(d) /\ InOrder(f, g)
      /\ (f.last => f.rec <= Len(lg))
  BY <1>1, <1>2
<1> HIDE DEF f
<1>6. Written(e, f)
  BY <1>1, <1>2, <1>5, WrittenGrows
<1>7. End(f) <= Len(e)
  BY <1>1, <1>4, <1>5
<1>8. ASSUME f.rec <= Len(l)
      PROVE  /\ l[f.rec].data = f.record /\ l[f.rec].start = f.start
             /\ End(f) <= l[f.rec].end /\ (f.last => l[f.rec].end = End(f))
  <2>1. CASE f.rec <= Len(lg)
    <3>1. f.rec \in 1 .. Len(lg)
      BY <1>1, <1>4, <2>1
    <3>2. l[f.rec] = lg[f.rec]
      BY <1>3, <3>1
    <3>3. QED
      BY <1>5, <2>1, <3>2 DEF Belongs
  <2>2. CASE ~(f.rec <= Len(lg))
    <3>1. f.rec = Len(lg) + 1 /\ ~f.last
      BY <1>1, <1>4, <1>5, <2>2
    <3>2. g.last
      BY <1>1, <1>3, <1>8, <3>1
    <3>3. l[f.rec] = Acknowledged(g) /\ f.rec = g.rec
      BY <1>1, <1>3, <3>1, <3>2
    <3>4. f.record = g.record /\ f.start = g.start
      BY <1>5, <3>3 DEF InOrder
    <3>5. QED
      BY <1>1, <1>7, <3>1, <3>3, <3>4 DEF Acknowledged
  <2>3. QED
    BY <2>1, <2>2
<1>9. ASSUME NEW r \in 1 .. Len(l), r < f.rec PROVE l[r].end <= f.start
  <2>1. r \in 1 .. Len(lg)
    BY <1>1, <1>4, <1>9
  <2>2. QED
    BY <1>3, <1>5, <1>9, <2>1 DEF Belongs
<1>10. ~(f.last /\ f.rec > Len(l)) /\ ~(f.rec > Len(l) + 1)
  BY <1>1, <1>3, <1>4, <1>5
<1>11. Belongs(f, e, l)
  BY <1>8, <1>9, <1>10 DEF Belongs
<1>12. QED
  BY <1>6, <1>7, <1>11 DEF f

\* The new fragment belongs to the records as they are after it.
LEMMA FollowsNew ==
    ASSUME NEW F, NEW d, NEW lg, NEW g, NEW e, Follows(F, d, lg, g, e),
           NEW l, l = WithRecord(lg, g)
    PROVE  Belongs(g, e, l)
<1>1. /\ Len(lg) \in Nat /\ g.rec = Len(lg) + 1 /\ g.last \in BOOLEAN /\ End(g) \in Nat
  BY FollowsParts
<1>2. \A r \in 1 .. Len(lg) : lg[r].end <= g.start
  BY FollowsRecords
<1>3. /\ Len(l) \in Nat
      /\ Len(l) = IF g.last THEN Len(lg) + 1 ELSE Len(lg)
      /\ \A r \in 1 .. Len(lg) : l[r] = lg[r]
      /\ g.last => l[Len(lg) + 1] = Acknowledged(g)
  BY WithRecordIs
<1>4. ASSUME g.rec <= Len(l)
      PROVE  /\ l[g.rec].data = g.record /\ l[g.rec].start = g.start
             /\ End(g) <= l[g.rec].end /\ (g.last => l[g.rec].end = End(g))
  <2>1. g.last
    BY <1>1, <1>3, <1>4
  <2>2. l[g.rec] = Acknowledged(g)
    BY <1>1, <1>3, <2>1
  <2>3. QED
    BY <1>1, <2>2 DEF Acknowledged
<1>5. ASSUME NEW r \in 1 .. Len(l), r < g.rec PROVE l[r].end <= g.start
  <2>1. r \in 1 .. Len(lg)
    BY <1>1, <1>5
  <2>2. QED
    BY <1>2, <1>3, <2>1
<1>6. ~(g.last /\ g.rec > Len(l)) /\ ~(g.rec > Len(l) + 1)
  BY <1>1, <1>3
<1>7. QED
  BY <1>4, <1>5, <1>6 DEF Belongs

\* The log with one more fragment.
LEMMA LayoutAppend ==
    ASSUME NEW F, NEW d, NEW lg, NEW g, NEW e, Follows(F, d, lg, g, e)
    PROVE  /\ Layout(Append(F, g), e, WithRecord(lg, g), TRUE)
           /\ Place(Append(F, g), Len(Append(F, g)) + 1) = After(g)
           /\ \A i \in 1 .. Len(Append(F, g)) : End(Append(F, g)[i]) <= Len(e)
<1> DEFINE G == Append(F, g)
           l == WithRecord(lg, g)
           n == Len(F)
<1>1. /\ F \in Seq(Fragment) /\ e \in Seq(Nat) /\ n \in Nat /\ Len(e) \in Nat /\ Len(lg) \in Nat
      /\ Len(e) = End(g) /\ g \in Fragment /\ FragmentsOK(F, d, lg) /\ g.rec = Len(lg) + 1
      /\ \A i \in 1 .. n : FragmentOK(F[i]) /\ Takes(Place(F, i), F[i])
      /\ g.last \in BOOLEAN /\ End(g) \in Nat
  BY FollowsParts
<1>2. FragmentOK(g) /\ Takes(Place(F, n + 1), g) /\ Written(e, g)
  BY DEF Follows
<1>3. /\ l \in Seq(Entry) /\ Len(l) = IF g.last THEN Len(lg) + 1 ELSE Len(lg)
      /\ LogOK(e, l)
  BY WithRecordIs
<1>4. Belongs(g, e, l)
  BY FollowsNew
<1>5. \A i \in 1 .. n : Written(e, F[i]) /\ Belongs(F[i], e, l) /\ End(F[i]) <= Len(e)
  BY FollowsOld
<1>6. \A i \in 1 .. n : InOrder(F[i], g)
  BY FollowsRecords
<1>7. G \in Seq(Fragment) /\ Len(G) = n + 1 /\ (\A i \in 1 .. n : G[i] = F[i]) /\ G[n + 1] = g
  BY <1>1, AppendIs
<1> HIDE DEF G, l
<1>8. \A i \in 1 .. n + 1 : i \in 1 .. n \/ i = n + 1
  BY <1>1
<1>9. ASSUME NEW i \in 1 .. n + 1
      PROVE  /\ FragmentOK(G[i]) /\ Takes(Place(G, i), G[i])
             /\ Written(e, G[i]) /\ Belongs(G[i], e, l) /\ End(G[i]) <= Len(e)
  <2>1. Place(G, i) = Place(F, i)
    <3>1. i \in Nat \ {0} /\ (i > 1 => i - 1 \in 1 .. n)
      BY <1>1
    <3>2. i > 1 => G[i - 1] = F[i - 1]
      BY <1>7, <3>1
    <3>3. QED
      BY <3>1, <3>2, PlaceSame
  <2>2. CASE i \in 1 .. n
    BY <1>1, <1>5, <1>7, <2>1, <2>2
  <2>3. CASE i = n + 1
    <3>1. G[i] = g
      BY <1>7, <2>3
    <3>2. End(g) <= Len(e)
      BY <1>1
    <3>3. QED
      BY <1>2, <1>4, <2>1, <2>3, <3>1, <3>2
  <2>4. QED
    BY <1>8, <2>2, <2>3
<1>10. ASSUME NEW i \in 1 .. n + 1, NEW j \in 1 .. n + 1, i < j PROVE InOrder(G[i], G[j])
  <2>1. i \in 1 .. n
    BY <1>1, <1>10
  <2>2. CASE j \in 1 .. n
    BY <1>1, <1>7, <1>10, <2>1, <2>2 DEF FragmentsOK
  <2>3. CASE j = n + 1
    BY <1>6, <1>7, <2>1, <2>3
  <2>4. QED
    BY <1>8, <2>2, <2>3
<1>11. ASSUME NEW r \in 1 .. Len(l) PROVE \E i \in 1 .. n + 1 : G[i].rec = r /\ G[i].last
  <2>1. CASE r \in 1 .. Len(lg)
    <3>1. PICK i \in 1 .. n : F[i].rec = r /\ F[i].last
      BY <1>1, <2>1 DEF FragmentsOK
    <3>2. i \in 1 .. n + 1 /\ G[i] = F[i]
      BY <1>1, <1>7
    <3>3. QED
      BY <3>1, <3>2
  <2>2. CASE r \notin 1 .. Len(lg)
    <3>1. g.last /\ r = Len(lg) + 1 /\ n + 1 \in 1 .. n + 1
      BY <1>1, <1>3, <2>2
    <3>2. QED
      BY <1>1, <1>7, <3>1
  <2>3. QED
    BY <2>1, <2>2
<1>12. FragmentsOK(G, e, l)
  BY <1>7, <1>9, <1>10, <1>11 DEF FragmentsOK
<1>13. Place(G, Len(G) + 1) = After(g)
  <2>1. (n + 1) + 1 # 1 /\ ((n + 1) + 1) - 1 = n + 1
    BY <1>1
  <2>2. QED
    BY <1>7, <2>1 DEF Place
<1>14. Len(e) <= After(g).at
  BY <1>1, <1>2, AfterOK
<1>15. Layout(G, e, l, TRUE)
  BY <1>1, <1>3, <1>7, <1>12, <1>13, <1>14 DEF Layout
<1>16. QED
  BY <1>7, <1>9, <1>13, <1>15 DEF G, l

---------------------------------------------------------------------------
(* Where the writer puts a fragment.                                       *)

\* An offset in a block, modulo the size of a block.
LEMMA InBlock ==
    ASSUME NEW b \in Nat, IsBlock(b), NEW x \in Nat, b <= x, x < b + BlockSize
    PROVE  x % BlockSize = x - b /\ (b + BlockSize) % BlockSize = 0
<1>1. PICK q \in Nat : b = BlockSize * q
  BY DEF IsBlock
<1>2. BlockSize \in Nat \ {0}
  BY Sizes_
<1> DEFINE r == x - b
<1>3. r \in 0 .. BlockSize - 1 /\ x = (BlockSize * q) + r
  BY <1>1, <1>2
<1> HIDE DEF r
<1>4. x % BlockSize = r
  <2>1. ((BlockSize * q) + r) % BlockSize = r
    BY <1>2, <1>3, ModIs
  <2>2. QED
    BY <1>3, <2>1
<1>5. b + BlockSize = (BlockSize * (q + 1)) + 0 /\ q + 1 \in Int /\ 0 \in 0 .. BlockSize - 1
  BY <1>1, <1>2
<1>6. ((BlockSize * (q + 1)) + 0) % BlockSize = 0
  BY <1>2, <1>5, ModIs
<1>7. QED
  BY <1>4, <1>5, <1>6 DEF r

\* NextStart is the place of the next fragment.
LEMMA NextStartIs ==
    ASSUME NEW f, FragmentOK(f)
    PROVE  NextStart(End(f)) = After(f).at
<1>1. f.base \in Nat /\ f.at \in Nat /\ f.size \in Nat /\ End(f) \in Nat
      /\ IsBlock(f.base) /\ f.base <= f.at /\ End(f) <= f.base + BlockSize
  BY FragmentFields DEF FragmentOK
<1>2. PICK b \in Nat, e \in Nat, B \in Nat \ {0}, h \in Nat :
           b = f.base /\ e = End(f) /\ B = BlockSize /\ h = HeaderSize
  BY <1>1, Sizes_
<1>3. b <= e /\ e <= b + B /\ 2 <= h /\ h < B
  <2>1. f.at <= End(f)
    BY <1>1, Sizes_ DEF End
  <2>2. QED
    BY <1>1, <1>2, <2>1, Sizes_
<1>4. NextStart(e) = IF B - (e % B) < h THEN e + (B - (e % B)) ELSE e
  BY <1>2 DEF NextStart
<1>5. After(f).at = IF e + h <= b + B THEN e ELSE b + B
  BY <1>2 DEF After, Fits
<1>6. CASE e < b + B
  <2>1. e % B = e - b
    BY <1>1, <1>2, <1>3, <1>6, InBlock
  <2>2. B - (e % B) = (b + B) - e /\ e + (B - (e % B)) = b + B
    BY <1>2, <2>1
  <2>3. (e + h <= b + B) <=> ~((b + B) - e < h)
    BY <1>2
  <2>4. QED
    BY <1>2, <1>4, <1>5, <2>2, <2>3
<1>7. CASE e = b + B
  <2>1. b <= b /\ b < b + B
    BY <1>2
  <2>2. e % B = 0
    BY <1>1, <1>2, <1>7, <2>1, InBlock
  <2>3. B - (e % B) = B /\ ~(B < h) /\ ~(e + h <= b + B)
    BY <1>2, <1>3, <1>7, <2>2
  <2>4. QED
    BY <1>2, <1>4, <1>5, <1>7, <2>3
<1>8. QED
  BY <1>2, <1>3, <1>6, <1>7

\* The offset in the block and the trailer lead from the end of the file, which
\* lies between the last fragment's end and the next place, to that place.
LEMMA WriterPlace ==
    ASSUME NEW b \in Nat, IsBlock(b), NEW e \in Nat, b <= e, e <= b + BlockSize,
           NEW L \in Nat, e <= L, NEW at \in Nat, L <= at, NEW base \in Nat,
           at = IF e + HeaderSize <= b + BlockSize THEN e ELSE b + BlockSize,
           base = IF e + HeaderSize <= b + BlockSize THEN b ELSE b + BlockSize,
           NEW bo \in 0 .. BlockSize, L % BlockSize = bo % BlockSize
    PROVE  IF BlockSize - bo < HeaderSize THEN L + (BlockSize - bo) = at /\ base = at
           ELSE L = at /\ bo = at - base
<1>1. PICK B \in Nat \ {0}, h \in Nat : B = BlockSize /\ h = HeaderSize
  BY Sizes_
<1>2. 2 <= h /\ h < B /\ bo \in Nat /\ bo <= B /\ e <= b + B
  BY <1>1, Sizes_
<1>3. at = IF e + h <= b + B THEN e ELSE b + B
  BY <1>1
<1>4. base = IF e + h <= b + B THEN b ELSE b + B
  BY <1>1
<1>5. L <= b + B
  BY <1>2, <1>3
<1>6. L < b + B => L % B = L - b
  BY <1>1, InBlock
<1>7. L = b + B => L % B = 0
  <2>1. b <= b /\ b < b + B
    BY <1>1
  <2>2. QED
    BY <1>1, <2>1, InBlock
<1>8. bo < B => bo % B = bo
  <2>1. IsBlock(0)
    <3>1. 0 \in Nat /\ 0 = BlockSize * 0
      BY Sizes_
    <3>2. QED
      BY <3>1 DEF IsBlock
  <2>2. ASSUME bo < B PROVE bo % B = bo - 0
    <3>1. 0 \in Nat /\ 0 <= bo /\ bo < 0 + BlockSize
      BY <1>1, <1>2, <2>2
    <3>2. QED
      BY <1>1, <1>2, <2>1, <3>1, InBlock
  <2>3. QED
    BY <1>2, <2>2
<1>9. bo = B => bo % B = 0
  <2>1. B % B = 0
    BY <1>1, <1>2
  <2>2. QED
    BY <2>1
<1>10. L % B = bo % B
  BY <1>1
<1> DEFINE x == L % B
<1>11. /\ L < b + B => x = L - b
       /\ L = b + B => x = 0
       /\ bo < B => x = bo
       /\ bo = B => x = 0
  BY <1>6, <1>7, <1>8, <1>9, <1>10
<1> HIDE DEF x
<1>12. IF B - bo < h THEN L + (B - bo) = at /\ base = at ELSE L = at /\ bo = at - base
  <2>1. CASE e + h <= b + B
    <3>1. at = e /\ base = b /\ L = e /\ L < b + B
      BY <1>2, <1>3, <1>4, <2>1
    <3>2. CASE bo = B
      BY <1>2, <1>11, <3>1, <3>2
    <3>3. CASE bo < B
      BY <1>2, <1>11, <2>1, <3>1, <3>3
    <3>4. QED
      BY <1>2, <3>2, <3>3
  <2>2. CASE ~(e + h <= b + B)
    <3>1. at = b + B /\ base = b + B
      BY <1>3, <1>4, <2>2
    <3>2. CASE L = b + B
      <4>1. bo = 0 \/ bo = B
        BY <1>2, <1>11, <3>2
      <4>2. QED
        BY <1>2, <3>1, <3>2, <4>1
    <3>3. CASE L < b + B
      <4>1. L - b > 0
        BY <1>2, <2>2
      <4>2. bo = L - b
        BY <1>2, <1>11, <3>3, <4>1
      <4>3. QED
        BY <1>2, <2>2, <3>1, <4>2
    <3>4. QED
      BY <1>5, <3>2, <3>3
  <2>3. QED
    BY <2>1, <2>2
<1>13. QED
  BY <1>1, <1>12

\* The bytes of t in s \o t.
LEMMA SecondPart ==
    ASSUME NEW s \in Seq(Nat), NEW t \in Seq(Nat)
    PROVE  \A j \in 1 .. Len(t) : (s \o t)[Len(s) + j] = t[j]
<1>1. Len(s) \in Nat /\ Len(t) \in Nat
  BY LenProperties
<1>2. QED
  BY <1>1, ConcatProperties

\* Four pieces put together.
Pieces(d, t, h, p) == ((d \o t) \o h) \o p

Pieced(e, d, t, h, p) ==
    /\ e \in Seq(Nat) /\ Begins(d, e)
    /\ Len(e) = Len(d) + Len(t) + Len(h) + Len(p)
    /\ \A j \in 1 .. Len(h) : e[Len(d) + Len(t) + j] = h[j]
    /\ \A j \in 1 .. Len(p) : e[Len(d) + Len(t) + Len(h) + j] = p[j]

\* Where the old bytes, the trailer, the header and the payload lie.
LEMMA PiecesAre ==
    ASSUME NEW d \in Seq(Nat), NEW t \in Seq(Nat), NEW h \in Seq(Nat), NEW p \in Seq(Nat)
    PROVE  Pieced(Pieces(d, t, h, p), d, t, h, p)
<1> DEFINE e == Pieces(d, t, h, p)
           x == d \o t
           y == x \o h
<1>1. Len(d) \in Nat /\ Len(t) \in Nat /\ Len(h) \in Nat /\ Len(p) \in Nat
  BY LenProperties
<1>2. x \in Seq(Nat) /\ Len(x) = Len(d) + Len(t) /\ Begins(d, x)
  BY ConcatProperties, BeginsConcat
<1> HIDE DEF x
<1>3. /\ y \in Seq(Nat) /\ Len(y) = Len(x) + Len(h) /\ Begins(x, y)
      /\ \A j \in 1 .. Len(h) : y[Len(x) + j] = h[j]
  <2>1. y \in Seq(Nat) /\ Len(y) = Len(x) + Len(h) /\ Begins(x, y)
    BY <1>2, ConcatProperties, BeginsConcat
  <2>2. \A j \in 1 .. Len(h) : y[Len(x) + j] = h[j]
    BY <1>2, SecondPart
  <2>3. QED
    BY <2>1, <2>2
<1> HIDE DEF y
<1>4. e = y \o p
  BY DEF x, y, Pieces
<1> HIDE DEF e
<1>5. /\ e \in Seq(Nat) /\ Len(e) = Len(y) + Len(p) /\ Begins(y, e)
      /\ \A j \in 1 .. Len(p) : e[Len(y) + j] = p[j]
  <2>1. e \in Seq(Nat) /\ Len(e) = Len(y) + Len(p) /\ Begins(y, e)
    BY <1>3, <1>4, ConcatProperties, BeginsConcat
  <2>2. \A j \in 1 .. Len(p) : e[Len(y) + j] = p[j]
    BY <1>3, <1>4, SecondPart
  <2>3. QED
    BY <2>1, <2>2
<1>6. Begins(d, e)
  BY <1>2, <1>3, <1>5, BeginsTrans
<1>7. ASSUME NEW j \in 1 .. Len(h) PROVE e[Len(d) + Len(t) + j] = h[j]
  <2>1. Len(x) + j \in 1 .. Len(y) /\ Len(x) + j = Len(d) + Len(t) + j
    BY <1>1, <1>2, <1>3
  <2>2. e[Len(x) + j] = y[Len(x) + j]
    BY <1>5, <2>1 DEF Begins
  <2>3. QED
    BY <1>3, <2>1, <2>2
<1>8. ASSUME NEW j \in 1 .. Len(p) PROVE e[Len(d) + Len(t) + Len(h) + j] = p[j]
  <2>1. Len(y) + j = Len(d) + Len(t) + Len(h) + j
    BY <1>1, <1>2, <1>3
  <2>2. QED
    BY <1>5, <2>1
<1>9. Len(e) = Len(d) + Len(t) + Len(h) + Len(p)
  BY <1>1, <1>2, <1>3, <1>5
<1>10. QED
  BY <1>5, <1>6, <1>7, <1>8, <1>9 DEF Pieced, e

\* The two fields of a header.
LEMMA HeaderBytes ==
    ASSUME NEW type \in Nat, NEW length \in Nat
    PROVE  Header(type, length)[HeaderSize - 1] = length /\ Header(type, length)[HeaderSize] = type
<1> DEFINE z == Zeros(HeaderSize - 2)
           w == <<length, type>>
<1>1. HeaderSize - 2 \in Nat
  BY Sizes_
<1>2. z \in Seq(Nat) /\ Len(z) = HeaderSize - 2
  BY <1>1, ZerosAre
<1>3. w \in Seq(Nat) /\ Len(w) = 2 /\ w[1] = length /\ w[2] = type
  OBVIOUS
<1>4. Header(type, length) = z \o w
  BY DEF Header
<1> HIDE DEF z, w
<1>5. \A j \in 1 .. Len(w) : (z \o w)[Len(z) + j] = w[j]
  BY <1>2, <1>3, SecondPart
<1>6. 1 \in 1 .. Len(w) /\ 2 \in 1 .. Len(w) /\ Len(z) + 1 = HeaderSize - 1 /\ Len(z) + 2 = HeaderSize
  BY <1>2, <1>3, Sizes_
<1>7. (z \o w)[HeaderSize - 1] = length /\ (z \o w)[HeaderSize] = type
  BY <1>3, <1>5, <1>6
<1>8. QED
  BY <1>4, <1>7

\* What is left of a sequence without its first n elements.
LEMMA FromIs ==
    ASSUME NEW S, NEW s \in Seq(S), NEW n \in 0 .. Len(s)
    PROVE  /\ From(s, n) \in Seq(S) /\ Len(From(s, n)) = Len(s) - n
           /\ \A j \in 1 .. Len(s) - n : From(s, n)[j] = s[n + j]
<1>1. Len(s) \in Nat /\ n \in Nat /\ n <= Len(s)
  BY LenProperties
<1>2. From(s, n) \in Seq(S) /\ Len(From(s, n)) = Len(s) - n
  BY Halves DEF From
<1>3. ASSUME NEW j \in 1 .. Len(s) - n PROVE From(s, n)[j] = s[n + j]
  <2>1. \A i \in n + 1 .. Len(s) : i \in 1 .. Len(s)
    BY <1>1
  <2>2. \A i \in n + 1 .. Len(s) : s[i] \in S
    BY <2>1
  <2>3. \A i \in 1 .. Len(s) - (n + 1) + 1 : SubSeq(s, n + 1, Len(s))[i] = s[(n + 1) + i - 1]
    BY <1>1, <2>2, SubSeqProperties
  <2>4. j \in 1 .. Len(s) - (n + 1) + 1 /\ (n + 1) + j - 1 = n + j
    BY <1>1
  <2>5. QED
    BY <2>3, <2>4 DEF From
<1>4. QED
  BY <1>2, <1>3

\* Taking twice is taking once.
LEMMA FromFrom ==
    ASSUME NEW S, NEW s \in Seq(S), NEW a \in 0 .. Len(s), NEW b \in 0 .. Len(s) - a
    PROVE  From(From(s, a), b) = From(s, a + b)
<1> DEFINE x == From(s, a)
           y == From(x, b)
           z == From(s, a + b)
<1>1. Len(s) \in Nat /\ a \in Nat /\ b \in Nat /\ a <= Len(s) /\ b <= Len(s) - a
  BY LenProperties
<1>2. x \in Seq(S) /\ Len(x) = Len(s) - a /\ \A j \in 1 .. Len(s) - a : x[j] = s[a + j]
  BY FromIs
<1> HIDE DEF x
<1>3. b \in 0 .. Len(x)
  BY <1>2
<1>4. y \in Seq(S) /\ Len(y) = Len(x) - b /\ \A j \in 1 .. Len(x) - b : y[j] = x[b + j]
  BY <1>2, <1>3, FromIs
<1>5. a + b \in 0 .. Len(s)
  BY <1>1
<1>6. z \in Seq(S) /\ Len(z) = Len(s) - (a + b) /\ \A j \in 1 .. Len(s) - (a + b) : z[j] = s[a + b + j]
  BY <1>5, FromIs
<1> HIDE DEF y, z
<1>7. Len(y) = Len(z)
  BY <1>1, <1>2, <1>4, <1>6
<1>8. ASSUME NEW j \in 1 .. Len(y) PROVE y[j] = z[j]
  <2>1. j \in 1 .. Len(x) - b /\ b + j \in 1 .. Len(s) - a /\ j \in 1 .. Len(s) - (a + b)
        /\ a + (b + j) = a + b + j
    BY <1>1, <1>2, <1>4
  <2>2. QED
    BY <1>2, <1>4, <1>6, <2>1
<1>9. y = z
  BY <1>4, <1>6, <1>7, <1>8, SeqEqual
<1>10. QED
  BY <1>9 DEF x, y, z

\* What a turn of AddRecord's loop writes: start is where in the block the
\* fragment goes, and length how much of the data it takes.
TurnWrites(data, begin, start, length) ==
    /\ start = IF BlockSize - block_offset < HeaderSize THEN 0 ELSE block_offset
    /\ start + HeaderSize + length <= BlockSize
    /\ left' = From(data, length)
    /\ file'.disk \in Seq(Nat) /\ Begins(file.disk, file'.disk)
    /\ status' # "error" => status' = IF left' = << >> THEN "ok" ELSE "adding"
    /\ (status' # "error" /\ file.buf = << >>) =>
          file'.disk = Pieces(file.disk, Trailer(BlockSize - block_offset),
                              Header(FragmentType(begin, length = Len(data)), length),
                              SubSeq(data, 1, length))

\* What a turn of AddRecord's loop writes.
LEMMA TurnStep ==
    ASSUME WriterTypeOK, NEW data \in Seq(Nat), NEW begin \in BOOLEAN, AddFragment(data, begin)
    PROVE  \E start \in Nat : \E length \in 0 .. Len(data) : TurnWrites(data, begin, start, length)
<1> DEFINE left_over == BlockSize - block_offset
           start == IF StartsBlock(left_over) THEN 0 ELSE block_offset
           avail == BlockSize - start - HeaderSize
           length == IF Len(data) < avail THEN Len(data) ELSE avail
           type == FragmentType(begin, length = Len(data))
           part == SubSeq(data, 1, length)
<1>1. /\ BlockSize \in Nat \ {0} /\ HeaderSize \in Nat /\ block_offset \in 0 .. BlockSize
      /\ HeaderSize < BlockSize /\ Len(data) \in Nat /\ faulty \in BOOLEAN
  BY SizesAssumption, LenProperties DEF WriterTypeOK
<1>2. left_over \in Nat
  BY <1>1
<1>3. start \in Nat /\ avail \in Nat /\ start + HeaderSize + avail = BlockSize
  <2>1. CASE StartsBlock(left_over)
    BY <1>1, <2>1
  <2>2. CASE ~StartsBlock(left_over)
    BY <1>1, <2>2 DEF StartsBlock
  <2>3. QED
    BY <2>1, <2>2
<1>4. PICK f \in Padded(left_over) : \E r \in EmitPhysicalRecord(f, type, part) :
           /\ file' = r.file
           /\ block_offset' = start + HeaderSize + length
           /\ left' = From(data, length)
           /\ status' = CASE ~r.ok -> "error"
                          [] r.ok /\ left' = << >> -> "ok"
                          [] r.ok /\ left' # << >> -> "adding"
  BY DEF AddFragment
<1>5. PICK r \in EmitPhysicalRecord(f, type, part) :
           /\ file' = r.file
           /\ left' = From(data, length)
           /\ status' = CASE ~r.ok -> "error"
                          [] r.ok /\ left' = << >> -> "ok"
                          [] r.ok /\ left' # << >> -> "adding"
  BY <1>4
<1>6. type \in Nat
  BY DEF FragmentType, kFullType, kFirstType, kLastType, kMiddleType
<1>t. type = FragmentType(begin, length = Len(data))
  OBVIOUS
<1> HIDE DEF type
<1>7. start = IF left_over < HeaderSize THEN 0 ELSE block_offset
  BY DEF StartsBlock
<1> HIDE DEF start
<1>9. length \in 0 .. Len(data) /\ length <= avail
  <2> HIDE DEF avail
  <2>1. QED
    BY <1>1, <1>3
<1> HIDE DEF avail, length
<1>10. part \in Seq(Nat) /\ Len(part) = length
  BY <1>9, Halves
<1>p. part = SubSeq(data, 1, length)
  OBVIOUS
<1> HIDE DEF part
<1>11. FileOK(f) /\ (file.buf = << >> => Bytes(f) = file.disk \o Trailer(left_over))
       /\ Begins(file.disk, f.disk)
  BY <1>2, <1>4, PaddedLeaves, PaddedGrows
<1>12. /\ FileOK(r.file) /\ r.ok \in BOOLEAN /\ Begins(f.disk, r.file.disk)
       /\ r.ok => r.file.disk = (Bytes(f) \o Header(type, Len(part))) \o part
  BY <1>1, <1>5, <1>6, <1>10, <1>11, EmitLeaves, EmitGrows
<1>13. file.disk \in Seq(Nat) /\ f.disk \in Seq(Nat) /\ r.file.disk \in Seq(Nat)
  BY <1>11, <1>12, FileParts DEF WriterTypeOK, FileOK
<1>14. file'.disk \in Seq(Nat) /\ Begins(file.disk, file'.disk)
  BY <1>5, <1>11, <1>12, <1>13, BeginsTrans
<1>15. status' # "error" => r.ok /\ status' = IF left' = << >> THEN "ok" ELSE "adding"
  BY <1>5, <1>12
<1>16. start + HeaderSize + length <= BlockSize
  BY <1>1, <1>3, <1>9
<1>17. ASSUME status' # "error", file.buf = << >>
       PROVE  file'.disk = Pieces(file.disk, Trailer(left_over), Header(type, length), part)
  BY <1>5, <1>10, <1>11, <1>12, <1>15, <1>17 DEF Pieces
<1>18. TurnWrites(data, begin, start, length)
  BY <1>5, <1>7, <1>14, <1>15, <1>16, <1>17, <1>t, <1>p DEF TurnWrites
<1>19. QED
  BY <1>3, <1>9, <1>18

\* The trailer fills the block when no header fits in it.
LEMMA TrailerIs ==
    ASSUME NEW n \in Nat
    PROVE  Trailer(n) \in Seq(Nat) /\ Len(Trailer(n)) = IF n < HeaderSize THEN n ELSE 0
<1>1. CASE StartsBlock(n)
  BY <1>1, ZerosAre DEF Trailer, StartsBlock
<1>2. CASE ~StartsBlock(n)
  BY <1>2 DEF Trailer, StartsBlock
<1>3. QED
  BY <1>1, <1>2

\* A trailer from offset L to the next block, or none, and then the place s.
Reaches(L, bo, s) ==
    IF BlockSize - bo < HeaderSize THEN L + (BlockSize - bo) = s.at /\ s.base = s.at
    ELSE L = s.at /\ bo = s.at - s.base

\* The trailer ends, and the fragment begins, at the next place.
LEMMA PlaceReached ==
    ASSUME NEW F, NEW d, NEW lg, Layout(F, d, lg, TRUE),
           \A i \in 1 .. Len(F) : End(F[i]) <= Len(d),
           NEW s, s = Place(F, Len(F) + 1),
           NEW bo \in 0 .. BlockSize, Len(d) % BlockSize = bo % BlockSize
    PROVE  Reaches(Len(d), bo, s)
<1>1. Len(F) \in Nat /\ Len(d) \in Nat /\ \A i \in 1 .. Len(F) : FragmentOK(F[i]) /\ F[i] \in Fragment
  BY LayoutParts
<1>2. s.at \in Nat /\ s.base \in Nat /\ Len(d) <= s.at
  BY NextPlace DEF Layout
<1>3. CASE Len(F) = 0
  <2>1. s.at = 0 /\ s.base = 0
    BY <1>3 DEF Place, Origin
  <2>2. IsBlock(0)
    <3>1. 0 \in Nat /\ 0 = BlockSize * 0
      BY Sizes_
    <3>2. QED
      BY <3>1 DEF IsBlock
  <2>3. /\ 0 \in Nat /\ 0 <= 0 /\ 0 <= 0 + BlockSize /\ 0 <= Len(d)
        /\ 0 + HeaderSize <= 0 + BlockSize
    BY <1>1, Sizes_
  <2>4. s.at = (IF 0 + HeaderSize <= 0 + BlockSize THEN 0 ELSE 0 + BlockSize)
        /\ s.base = (IF 0 + HeaderSize <= 0 + BlockSize THEN 0 ELSE 0 + BlockSize)
    BY <2>1, <2>3
  <2>5. QED
    BY <1>1, <1>2, <2>2, <2>3, <2>4, WriterPlace DEF Reaches
<1>4. CASE Len(F) # 0
  <2> DEFINE f == F[Len(F)]
  <2>1. Len(F) \in 1 .. Len(F) /\ Len(F) + 1 # 1 /\ (Len(F) + 1) - 1 = Len(F)
    BY <1>1, <1>4
  <2>2. s = After(f) /\ FragmentOK(f) /\ f \in Fragment /\ End(f) <= Len(d)
    BY <1>1, <2>1 DEF Place
  <2> HIDE DEF f
  <2>3. /\ f.base \in Nat /\ f.at \in Nat /\ f.size \in Nat /\ End(f) \in Nat
        /\ IsBlock(f.base) /\ f.base <= f.at /\ End(f) <= f.base + BlockSize
    BY <2>2, FragmentFields DEF FragmentOK
  <2>4. f.base <= End(f)
    <3>1. f.at <= End(f)
      BY <2>3, Sizes_ DEF End
    <3>2. QED
      BY <2>3, <3>1
  <2>5. /\ s.at = IF End(f) + HeaderSize <= f.base + BlockSize THEN End(f) ELSE f.base + BlockSize
        /\ s.base = IF End(f) + HeaderSize <= f.base + BlockSize THEN f.base ELSE f.base + BlockSize
    BY <2>2 DEF After, Fits
  <2>6. PICK b \in Nat, e \in Nat, L \in Nat, at \in Nat, base \in Nat :
             b = f.base /\ e = End(f) /\ L = Len(d) /\ at = s.at /\ base = s.base
    BY <1>1, <1>2, <2>3
  <2>7. IsBlock(b) /\ b <= e /\ e <= b + BlockSize /\ e <= L /\ L <= at
        /\ L % BlockSize = bo % BlockSize
    BY <1>2, <2>2, <2>3, <2>4, <2>6
  <2>8. /\ at = IF e + HeaderSize <= b + BlockSize THEN e ELSE b + BlockSize
        /\ base = IF e + HeaderSize <= b + BlockSize THEN b ELSE b + BlockSize
    BY <2>5, <2>6
  <2>9. IF BlockSize - bo < HeaderSize THEN L + (BlockSize - bo) = at /\ base = at
        ELSE L = at /\ bo = at - base
    BY <2>7, <2>8, WriterPlace
  <2>10. QED
    BY <2>6, <2>9 DEF Reaches
<1>5. QED
  BY <1>3, <1>4

\* The fragment with length bytes of the record at the place s.
Cut(s, record, length) ==
    [base |-> s.base, at |-> s.at, size |-> length, first |-> s.first,
     last |-> (s.from + length = Len(record)), rec |-> s.rec,
     start |-> IF s.first THEN s.at ELSE s.start, record |-> record, from |-> s.from]

\* The next fragment of a record fits its place.
LEMMA CutOK ==
    ASSUME NEW s, SpotOK(s), NEW record \in Seq(Nat), ~s.first => record = s.record,
           NEW length \in Nat, s.from + length <= Len(record),
           s.at + HeaderSize + length <= s.base + BlockSize
    PROVE  /\ FragmentOK(Cut(s, record, length)) /\ Takes(s, Cut(s, record, length))
           /\ End(Cut(s, record, length)) = s.at + HeaderSize + length
<1> DEFINE g == Cut(s, record, length)
<1>1. /\ s.base \in Nat /\ s.at \in Nat /\ s.first \in BOOLEAN /\ s.rec \in Nat \ {0}
      /\ s.start \in Nat /\ s.from \in Nat /\ IsBlock(s.base) /\ s.base <= s.at /\ s.start <= s.at
      /\ (s.first => s.from = 0)
  BY DEF SpotOK, Spot
<1>2. /\ g.base = s.base /\ g.at = s.at /\ g.size = length /\ g.first = s.first
      /\ g.last = (s.from + length = Len(record)) /\ g.rec = s.rec
      /\ g.start = (IF s.first THEN s.at ELSE s.start) /\ g.record = record /\ g.from = s.from
  BY DEF Cut
<1>3. g.start \in Nat /\ g.start <= g.at
  BY <1>1, <1>2
<1>4. g.last \in BOOLEAN
  BY <1>2
<1>5. g \in Fragment
  <2>1. g = [base |-> g.base, at |-> g.at, size |-> g.size, first |-> g.first, last |-> g.last,
             rec |-> g.rec, start |-> g.start, record |-> g.record, from |-> g.from]
    BY DEF Cut
  <2> HIDE DEF g
  <2>2. QED
    BY <1>1, <1>2, <1>3, <1>4, <2>1 DEF Fragment
<1> HIDE DEF g
<1>6. End(g) = s.at + HeaderSize + length
  BY <1>2 DEF End
<1>7. FragmentOK(g)
  <2>1. g.last <=> g.from + g.size = Len(g.record)
    BY <1>2
  <2>2. g.first => g.from = 0 /\ g.start = g.at
    BY <1>1, <1>2
  <2>3. g.from + g.size <= Len(g.record)
    BY <1>2
  <2>4. g.base <= g.at /\ End(g) <= g.base + BlockSize /\ IsBlock(g.base)
    BY <1>1, <1>2, <1>6
  <2>5. QED
    BY <1>3, <1>5, <2>1, <2>2, <2>3, <2>4 DEF FragmentOK
<1>8. Takes(s, g)
  BY <1>2 DEF Takes
<1>9. QED
  BY <1>6, <1>7, <1>8 DEF g

\* The bytes p of a record in its fragment g, and the bytes e that d have become
\* with the fragment.
Payload(p, g) == Len(p) = g.size /\ \A j \in 1 .. g.size : p[j] = g.record[g.from + j]

Grown(d, e, g) == e \in Seq(Nat) /\ Begins(d, e) /\ Len(e) = End(g) /\ Written(e, g)

\* The pieces that a turn writes are the fragment.
LEMMA PiecesWritten ==
    ASSUME NEW g, FragmentOK(g), NEW d \in Seq(Nat), NEW t \in Seq(Nat), Len(d) + Len(t) = g.at,
           NEW p \in Seq(Nat), Payload(p, g)
    PROVE  Grown(d, Pieces(d, t, Header(FragmentType(g.first, g.last), g.size), p), g)
<1> DEFINE e == Pieces(d, t, Header(FragmentType(g.first, g.last), g.size), p)
           type == FragmentType(g.first, g.last)
           h == Header(type, g.size)
<1>1. /\ g.at \in Nat /\ g.size \in Nat /\ Len(d) \in Nat /\ Len(t) \in Nat
      /\ g.first \in BOOLEAN /\ g.last \in BOOLEAN /\ End(g) = g.at + HeaderSize + g.size
  BY FragmentFields, LenProperties DEF FragmentOK, End
<1>2. type \in Nat
  BY <1>1 DEF FragmentType, kFullType, kFirstType, kLastType, kMiddleType
<1> HIDE DEF type
<1>3. h \in Seq(Nat) /\ Len(h) = HeaderSize /\ h[HeaderSize - 1] = g.size /\ h[HeaderSize] = type
  BY <1>1, <1>2, HeaderIs, HeaderBytes
<1>4. e = Pieces(d, t, h, p)
  BY DEF type
<1>p. Len(p) = g.size /\ \A j \in 1 .. g.size : p[j] = g.record[g.from + j]
  BY DEF Payload
<1> HIDE DEF h, e
<1>5. /\ e \in Seq(Nat) /\ Begins(d, e)
      /\ Len(e) = Len(d) + Len(t) + Len(h) + Len(p)
      /\ \A j \in 1 .. Len(h) : e[Len(d) + Len(t) + j] = h[j]
      /\ \A j \in 1 .. Len(p) : e[Len(d) + Len(t) + Len(h) + j] = p[j]
  <2>1. Pieced(e, d, t, h, p)
    BY <1>3, <1>4, PiecesAre
  <2>2. QED
    BY <2>1 DEF Pieced
<1>6. Len(e) = End(g)
  BY <1>1, <1>3, <1>5, <1>p
<1>7. \A j \in 1 .. HeaderSize : e[g.at + j] = h[j]
  BY <1>3, <1>5
<1>8. \A j \in 1 .. g.size : e[g.at + HeaderSize + j] = g.record[g.from + j]
  BY <1>3, <1>5, <1>p
<1>9. /\ HeaderSize - 1 \in 1 .. HeaderSize /\ HeaderSize \in 1 .. HeaderSize
      /\ g.at + (HeaderSize - 1) = g.at + HeaderSize - 1
  BY <1>1, Sizes_
<1>10. e[g.at + HeaderSize - 1] = g.size /\ e[g.at + HeaderSize] = FragmentType(g.first, g.last)
  <2>1. e[g.at + (HeaderSize - 1)] = h[HeaderSize - 1] /\ e[g.at + HeaderSize] = h[HeaderSize]
    BY <1>7, <1>9
  <2>2. QED
    BY <1>3, <1>9, <2>1 DEF type
<1>11. Written(e, g)
  BY <1>8, <1>10 DEF Written
<1>12. QED
  BY <1>5, <1>6, <1>11 DEF Grown, e

\* The file ends before the place s behind the fragments F, the record goes on
\* at s, and what a turn that does not fail then makes of the file.
Ready(F, lg, s) ==
    /\ WriterTypeOK /\ file.buf = << >> /\ Len(file.disk) % BlockSize = block_offset % BlockSize
    /\ Layout(F, file.disk, lg, TRUE)
    /\ \A i \in 1 .. Len(F) : End(F[i]) <= Len(file.disk)
    /\ s = Place(F, Len(F) + 1) /\ s.rec = Len(lg) + 1

GoesOn(record, s) == (~s.first => record = s.record) /\ s.from <= Len(record)

Turned(F, lg, s, record, length) ==
    /\ Follows(F, file.disk, lg, Cut(s, record, length), file'.disk)
    /\ left' = From(record, s.from + length)
    /\ s.from + length = Len(record) <=> left' = << >>
    /\ status' = IF left' = << >> THEN "ok" ELSE "adding"

\* A turn that does not fail puts the record's next fragment behind the others.
LEMMA FragmentFollows ==
    ASSUME NEW F, NEW lg, NEW s, Ready(F, lg, s), NEW record \in Seq(Nat), GoesOn(record, s),
           NEW data, data = From(record, s.from), NEW start \in Nat, NEW length \in 0 .. Len(data),
           TurnWrites(data, s.first, start, length), status' # "error"
    PROVE  Turned(F, lg, s, record, length)
<1>r. /\ WriterTypeOK /\ file.buf = << >> /\ Len(file.disk) % BlockSize = block_offset % BlockSize
      /\ Layout(F, file.disk, lg, TRUE)
      /\ \A i \in 1 .. Len(F) : End(F[i]) <= Len(file.disk)
      /\ s = Place(F, Len(F) + 1) /\ s.rec = Len(lg) + 1
      /\ (~s.first => record = s.record) /\ s.from <= Len(record)
  BY DEF Ready, GoesOn
<1>1. /\ SpotOK(s) /\ s.base \in Nat /\ s.at \in Nat /\ s.first \in BOOLEAN /\ s.from \in Nat
      /\ s.base <= s.at
  BY <1>r, NextPlace DEF SpotOK
<1>2. file \in File /\ block_offset \in 0 .. BlockSize /\ file.disk \in Seq(Nat)
  BY <1>r, FileParts DEF WriterTypeOK, FileOK
<1>3. PICK B \in Nat \ {0}, H \in Nat : B = BlockSize /\ H = HeaderSize /\ H < B
  BY Sizes_
<1>4. PICK d \in Seq(Nat), bo \in 0 .. B, from \in Nat, base \in Nat, at \in Nat :
           d = file.disk /\ bo = block_offset /\ from = s.from /\ base = s.base /\ at = s.at
  BY <1>1, <1>2, <1>3
<1>5. Len(record) \in Nat /\ Len(d) \in Nat /\ from <= Len(record) /\ base <= at
  BY <1>r, <1>1, <1>4, LenProperties
<1>6. from \in 0 .. Len(record)
  BY <1>5
<1>7. /\ data \in Seq(Nat) /\ Len(data) = Len(record) - from
      /\ \A j \in 1 .. Len(record) - from : data[j] = record[from + j]
  <2> DEFINE x == From(record, from)
  <2>1. x \in Seq(Nat) /\ Len(x) = Len(record) - from
        /\ \A j \in 1 .. Len(record) - from : x[j] = record[from + j]
    BY <1>6, FromIs
  <2>2. data = x
    BY <1>4
  <2> HIDE DEF x
  <2>3. QED
    BY <2>1, <2>2
<1>8. length \in Nat /\ length <= Len(data) /\ length \in 0 .. Len(record) - from
  BY <1>5, <1>7
<1> DEFINE p == SubSeq(data, 1, length)
           left_over == B - bo
           t == Trailer(left_over)
           e == file'.disk
           g == Cut(s, record, length)
<1>9. p \in Seq(Nat) /\ Len(p) = length /\ \A j \in 1 .. length : p[j] = data[j]
  BY <1>7, FirstPart
<1>10. left_over \in Nat
  BY <1>4
<1>11. t \in Seq(Nat) /\ Len(t) = IF left_over < H THEN left_over ELSE 0
  BY <1>3, <1>10, TrailerIs
<1>12. IF left_over < H THEN Len(d) + left_over = at /\ base = at
       ELSE Len(d) = at /\ bo = at - base
  <2>1. Reaches(Len(d), bo, s)
    <3>1. Layout(F, d, lg, TRUE) /\ (\A i \in 1 .. Len(F) : End(F[i]) <= Len(d))
          /\ bo \in 0 .. BlockSize /\ Len(d) % BlockSize = bo % BlockSize
      BY <1>r, <1>3, <1>4
    <3>2. QED
      BY <1>r, <3>1, PlaceReached
  <2>2. QED
    BY <1>3, <1>4, <2>1 DEF Reaches
<1>13. start = IF left_over < H THEN 0 ELSE bo
  BY <1>3, <1>4 DEF TurnWrites
<1>14. start + H + length <= B
  BY <1>3 DEF TurnWrites
<1>15. e = Pieces(d, t, Header(FragmentType(s.first, length = Len(data)), length), p)
  BY <1>r, <1>3, <1>4 DEF TurnWrites
<1> HIDE DEF p, left_over, t, e, g
<1>16. Len(d) + Len(t) = at /\ start = at - base
  <2>1. CASE left_over < H
    BY <1>5, <1>11, <1>12, <1>13, <2>1
  <2>2. CASE ~(left_over < H)
    BY <1>5, <1>11, <1>12, <1>13, <2>2
  <2>3. QED
    BY <2>1, <2>2
<1>17. at + H + length <= base + B /\ from + length <= Len(record)
  BY <1>5, <1>8, <1>14, <1>16
<1>18. FragmentOK(g) /\ Takes(s, g)
  <2>1. s.at + HeaderSize + length <= s.base + BlockSize /\ s.from + length <= Len(record)
    BY <1>3, <1>4, <1>17
  <2>2. QED
    BY <1>r, <1>1, <1>8, <2>1, CutOK DEF g
<1>19. /\ g.at = at /\ g.size = length /\ g.first = s.first /\ g.record = record /\ g.from = from
       /\ g.rec = s.rec /\ g.last = (from + length = Len(record))
  BY <1>4 DEF Cut, g
<1>20. (from + length = Len(record)) <=> (length = Len(data))
  BY <1>5, <1>7, <1>8
<1>21. e = Pieces(d, t, Header(FragmentType(g.first, g.last), g.size), p)
  <2>1. g.last = (length = Len(data))
    BY <1>19, <1>20
  <2>2. QED
    BY <1>15, <1>19, <2>1
<1>22. \A j \in 1 .. g.size : p[j] = g.record[g.from + j]
  <2>1. ASSUME NEW j \in 1 .. length PROVE p[j] = record[from + j]
    <3>1. j \in 1 .. Len(record) - from
      BY <1>5, <1>7, <1>8
    <3>2. QED
      BY <1>7, <1>9, <3>1
  <2>2. QED
    BY <1>19, <2>1
<1>23. e \in Seq(Nat) /\ Begins(d, e) /\ Len(e) = End(g) /\ Written(e, g)
  <2>1. Len(d) + Len(t) = g.at /\ Len(p) = g.size
    BY <1>9, <1>16, <1>19
  <2>2. Payload(p, g)
    BY <1>22, <2>1 DEF Payload
  <2>3. Grown(d, e, g)
    BY <1>9, <1>11, <1>18, <1>21, <2>1, <2>2, PiecesWritten
  <2>4. QED
    BY <2>3 DEF Grown
<1>24. Follows(F, d, lg, g, e)
  BY <1>r, <1>4, <1>18, <1>19, <1>23 DEF Follows
<1>25. left' = From(record, from + length)
  <2>1. left' = From(From(record, from), length)
    BY <1>4 DEF TurnWrites
  <2>2. QED
    BY <1>6, <1>8, <2>1, FromFrom
<1>26. from + length = Len(record) <=> left' = << >>
  <2>1. left' = From(data, length)
    BY DEF TurnWrites
  <2>2. left' \in Seq(Nat) /\ Len(left') = Len(data) - length
    BY <1>7, <2>1, FromIs
  <2>3. left' = << >> <=> Len(left') = 0
    BY <2>2, EmptySeq
  <2>4. QED
    BY <1>7, <1>8, <1>20, <2>2, <2>3
<1>27. QED
  BY <1>4, <1>24, <1>25, <1>26 DEF TurnWrites, Turned, e, g

\* Once a write has failed only the acknowledged records matter.
LEMMA LayoutFailed ==
    ASSUME NEW F, NEW d, NEW lg, NEW whole, Layout(F, d, lg, whole), NEW e \in Seq(Nat), Begins(d, e)
    PROVE  \E G : Layout(G, e, lg, FALSE) /\ EndsWith(G, lg, Len(lg))
<1>1. lg \in Seq(Entry) /\ Len(lg) \in Nat /\ d \in Seq(Nat)
  BY LayoutParts
<1>2. Len(lg) \in 0 .. Len(lg)
  BY <1>1
<1>3. PICK G : Layout(G, d, SubSeq(lg, 1, Len(lg)), FALSE) /\ EndsWith(G, lg, Len(lg))
  BY <1>2, LayoutCut
<1>4. SubSeq(lg, 1, Len(lg)) = lg
  BY <1>1, SubSeqFull
<1>5. Layout(G, d, lg, FALSE)
  BY <1>3, <1>4
<1>6. Layout(G, e, lg, FALSE)
  BY <1>5, LayoutGrows
<1>7. QED
  BY <1>3, <1>6

---------------------------------------------------------------------------
(* The log through the writer's steps.                                     *)

\* The writer stands at the place behind the fragments F, with what is left of
\* the record it is in.
OpenAt(F) ==
    /\ \A i \in 1 .. Len(F) : End(F[i]) <= Len(file.disk)
    /\ Place(F, Len(F) + 1).rec = Len(log) + 1
    /\ Place(F, Len(F) + 1).first <=> status # "adding"
    /\ ~Place(F, Len(F) + 1).first =>
          /\ left = From(Place(F, Len(F) + 1).record, Place(F, Len(F) + 1).from)
          /\ current = [data |-> Place(F, Len(F) + 1).record, start |-> Place(F, Len(F) + 1).start]

Kept(F) ==
    /\ Layout(F, file.disk, log, intact)
    /\ (intact /\ phase = "open") => OpenAt(F)

\* A turn of AddRecord's loop with a record's bytes after s.from.
LEMMA TurnKeeps ==
    ASSUME WriterInv, intact \in BOOLEAN, phase = "open", phase' = "open", NEW F, Kept(F),
           NEW begin \in BOOLEAN, NEW data \in Seq(Nat), AddFragment(data, begin), Remember,
           NEW s, s = Place(F, Len(F) + 1), NEW record \in Seq(Nat),
           intact => /\ s.first = begin /\ s.from <= Len(record) /\ data = From(record, s.from)
                     /\ ~s.first => record = s.record
                     /\ current' = [data |-> record, start |-> IF s.first THEN s.at ELSE s.start]
    PROVE  intact' \in BOOLEAN /\ \E G : Kept(G)'
<1>1. Layout(F, file.disk, log, intact) /\ WriterTypeOK
  BY DEF Kept, WriterInv
<1>2. PICK start \in Nat : \E length \in 0 .. Len(data) : TurnWrites(data, begin, start, length)
  BY <1>1, TurnStep
<1>3. PICK length \in 0 .. Len(data) : TurnWrites(data, begin, start, length)
  BY <1>2
<1>4. file'.disk \in Seq(Nat) /\ Begins(file.disk, file'.disk)
      /\ (status' # "error" => status' = IF left' = << >> THEN "ok" ELSE "adding")
  BY <1>3 DEF TurnWrites
<1>5. intact' = (intact /\ status' # "error")
  BY DEF Remember
<1>6. CASE ~intact'
  <2>1. intact' = FALSE /\ log' = log
    BY <1>5, <1>6 DEF Remember
  <2>2. PICK G : Layout(G, file'.disk, log, FALSE)
    BY <1>1, <1>4, LayoutFailed
  <2>3. Layout(G, file'.disk, log', intact')
    BY <2>1, <2>2
  <2>4. Kept(G)'
    BY <2>1, <2>3 DEF Kept
  <2>5. QED
    BY <2>1, <2>4
<1>7. CASE intact'
  <2> DEFINE g == Cut(s, record, length)
             G == Append(F, g)
  <2>1. intact = TRUE /\ intact' = TRUE /\ status' # "error"
    BY <1>5, <1>7
  <2>2. /\ s.first = begin /\ s.from <= Len(record) /\ data = From(record, s.from)
        /\ ~s.first => record = s.record
        /\ current' = [data |-> record, start |-> IF s.first THEN s.at ELSE s.start]
    BY <2>1
  <2>3. OpenAt(F) /\ Layout(F, file.disk, log, TRUE)
    BY <1>1, <2>1 DEF Kept
  <2>4. (\A i \in 1 .. Len(F) : End(F[i]) <= Len(file.disk)) /\ s.rec = Len(log) + 1
    BY <2>3 DEF OpenAt
  <2>5. file.buf = << >> /\ Len(file.disk) % BlockSize = block_offset % BlockSize
    BY <2>1 DEF WriterInv, OffsetFollowsFile
  <2>6. TurnWrites(data, s.first, start, length)
    BY <1>3, <2>2
  <2>7. /\ Follows(F, file.disk, log, g, file'.disk)
        /\ left' = From(record, s.from + length)
        /\ s.from + length = Len(record) <=> left' = << >>
        /\ status' = IF left' = << >> THEN "ok" ELSE "adding"
    <3>1. Ready(F, log, s) /\ GoesOn(record, s)
      BY <1>1, <2>2, <2>3, <2>4, <2>5 DEF Ready, GoesOn
    <3>2. Turned(F, log, s, record, length)
      BY <2>1, <2>2, <2>6, <3>1, FragmentFollows
    <3>3. QED
      BY <3>2 DEF Turned
  <2>8. /\ g.record = record /\ g.start = (IF s.first THEN s.at ELSE s.start) /\ g.size = length
        /\ g.from = s.from /\ g.rec = s.rec /\ g.last = (s.from + length = Len(record))
    BY DEF Cut
  <2> HIDE DEF g
  <2>9. Len(file'.disk) = End(g)
    BY <2>7 DEF Follows
  <2>10. g.last <=> status' = "ok"
    BY <2>7, <2>8
  <2>11. log' = WithRecord(log, g)
    <3>1. CASE g.last
      <4>1. log' = Append(log, [data |-> current'.data, start |-> current'.start,
                                end |-> Len(file'.disk)])
        BY <2>1, <2>10, <3>1 DEF Remember
      <4>2. current'.data = g.record /\ current'.start = g.start
        BY <2>2, <2>8
      <4>3. log' = Append(log, Acknowledged(g))
        BY <2>9, <4>1, <4>2 DEF Acknowledged
      <4>4. QED
        BY <3>1, <4>3 DEF WithRecord
    <3>2. CASE ~g.last
      BY <2>10, <3>2 DEF Remember, WithRecord
    <3>3. QED
      BY <3>1, <3>2
  <2>12. /\ Layout(G, file'.disk, WithRecord(log, g), TRUE)
         /\ Place(G, Len(G) + 1) = After(g)
         /\ \A i \in 1 .. Len(G) : End(G[i]) <= Len(file'.disk)
    BY <2>7, LayoutAppend
  <2>13. Len(log') = (IF g.last THEN Len(log) + 1 ELSE Len(log)) /\ Len(log) \in Nat
    BY <2>3, <2>7, <2>11, WithRecordIs, LayoutParts
  <2> HIDE DEF G
  <2> DEFINE z == Place(G, Len(G) + 1)
  <2>14. /\ z.first = g.last /\ z.start = g.start /\ z.record = g.record
         /\ z.rec = (IF g.last THEN g.rec + 1 ELSE g.rec)
         /\ z.from = (IF g.last THEN 0 ELSE g.from + g.size)
    BY <2>12 DEF After
  <2>15. z.rec = Len(log') + 1
    BY <2>4, <2>8, <2>13, <2>14
  <2>16. z.first <=> status' # "adding"
    BY <2>7, <2>10, <2>14
  <2>17. ASSUME ~z.first PROVE left' = From(z.record, z.from) /\ current' = [data |-> z.record, start |-> z.start]
    BY <2>2, <2>7, <2>8, <2>14, <2>17
  <2>18. OpenAt(G)'
    BY <2>12, <2>15, <2>16, <2>17 DEF OpenAt
  <2>19. Layout(G, file'.disk, log', intact')
    BY <2>1, <2>11, <2>12
  <2>20. Kept(G)'
    BY <2>18, <2>19 DEF Kept
  <2>21. QED
    BY <2>1, <2>20
<1>8. QED
  BY <1>6, <1>7

\* The first record of a file begins at its start.
LEMMA NextStartZero == NextStart(0) = 0
<1>1. IsBlock(0)
  <2>1. 0 \in Nat /\ 0 = BlockSize * 0
    BY Sizes_
  <2>2. QED
    BY <2>1 DEF IsBlock
<1>2. 0 \in Nat /\ 0 <= 0 /\ 0 < 0 + BlockSize
  BY Sizes_
<1>3. 0 % BlockSize = 0 - 0
  BY <1>1, <1>2, InBlock
<1>4. 0 % BlockSize = 0 /\ ~(BlockSize - 0 < HeaderSize)
  BY <1>3, Sizes_
<1>5. QED
  BY <1>4 DEF NextStart

\* A record is put where NextStart says.
LEMMA NextStartPlace ==
    ASSUME NEW F, NEW whole, Layout(F, file.disk, log, whole), NEW s, s = Place(F, Len(F) + 1),
           s.first, s.rec = Len(log) + 1
    PROVE  NextStart(LastEnd) = s.at
<1>1. /\ log \in Seq(Entry) /\ Len(F) \in Nat /\ Len(log) \in Nat
      /\ \A i \in 1 .. Len(F) : FragmentOK(F[i]) /\ F[i] \in Fragment /\ Belongs(F[i], file.disk, log)
  BY LayoutParts
<1>2. CASE Len(F) = 0
  <2>1. s.at = 0 /\ s.rec = 1
    BY <1>2 DEF Place, Origin
  <2>2. Len(log) = 0
    BY <1>1, <2>1
  <2>3. log = << >>
    BY <1>1, <2>2, EmptySeq
  <2>4. QED
    BY <2>1, <2>3, NextStartZero DEF LastEnd
<1>3. CASE Len(F) # 0
  <2> DEFINE f == F[Len(F)]
  <2>1. Len(F) \in 1 .. Len(F) /\ Len(F) + 1 # 1 /\ (Len(F) + 1) - 1 = Len(F)
    BY <1>1, <1>3
  <2>2. s = After(f) /\ FragmentOK(f) /\ f \in Fragment /\ Belongs(f, file.disk, log)
    BY <1>1, <2>1 DEF Place
  <2> HIDE DEF f
  <2>3. f.rec \in Nat \ {0} /\ f.last /\ s.rec = f.rec + 1
    BY <2>2, FragmentFields DEF After
  <2>4. f.rec = Len(log)
    BY <1>1, <2>3
  <2>5. log # << >> /\ f.rec <= Len(log)
    <3>1. Len(log) # 0
      BY <2>3, <2>4
    <3>2. QED
      BY <1>1, <2>4, <3>1
  <2>6. log[Len(log)].end = End(f)
    BY <2>2, <2>3, <2>4, <2>5 DEF Belongs
  <2>7. NextStart(LastEnd) = After(f).at
    BY <2>2, <2>5, <2>6, NextStartIs DEF LastEnd
  <2>8. QED
    BY <2>2, <2>7
<1>4. QED
  BY <1>2, <1>3

\* Nothing taken, all is left.
LEMMA FromZero ==
    ASSUME NEW S, NEW s \in Seq(S)
    PROVE  From(s, 0) = s
<1>1. 0 + 1 = 1
  OBVIOUS
<1>2. SubSeq(s, 1, Len(s)) = s
  BY SubSeqFull
<1>3. QED
  BY <1>1, <1>2 DEF From

\* The invariant of the log.
LogInv == intact \in BOOLEAN /\ \E F : Kept(F)

\* AddRecord, its first turn.
LEMMA AddKeeps ==
    ASSUME WriterInv, LogInv, NEW record \in Seq(Nat), Add(record)
    PROVE  LogInv'
<1>1. PICK F : Kept(F)
  BY DEF LogInv
<1> DEFINE s == Place(F, Len(F) + 1)
<1>2. /\ phase = "open" /\ phase' = "open" /\ status # "adding" /\ AddFragment(record, TRUE) /\ Remember
      /\ current' = [data |-> record, start |-> NextStart(LastEnd)]
  BY DEF Add, AddRecord
<1>3. ASSUME intact
      PROVE  /\ s.first = TRUE /\ s.from <= Len(record) /\ record = From(record, s.from)
             /\ current' = [data |-> record, start |-> IF s.first THEN s.at ELSE s.start]
  <2>1. OpenAt(F) /\ Layout(F, file.disk, log, intact)
    BY <1>1, <1>2, <1>3 DEF Kept
  <2>2. s.first \in BOOLEAN /\ SpotOK(s)
    BY <2>1, NextPlace
  <2>3. s.first /\ s.rec = Len(log) + 1
    BY <1>2, <2>1 DEF OpenAt
  <2>4. s.from = 0
    BY <2>2, <2>3 DEF SpotOK
  <2>5. NextStart(LastEnd) = s.at
    BY <2>1, <2>3, NextStartPlace
  <2>6. Len(record) \in Nat /\ From(record, 0) = record
    BY FromZero, LenProperties
  <2>7. s.from <= Len(record)
    BY <2>4, <2>6
  <2> HIDE DEF s
  <2>8. QED
    BY <1>2, <2>2, <2>3, <2>4, <2>5, <2>6, <2>7
<1>4. intact => /\ s.first = TRUE /\ s.from <= Len(record) /\ record = From(record, s.from)
                /\ ~s.first => record = s.record
                /\ current' = [data |-> record, start |-> IF s.first THEN s.at ELSE s.start]
  BY <1>3
<1>5. intact \in BOOLEAN
  BY DEF LogInv
<1>6. intact' \in BOOLEAN /\ \E G : Kept(G)'
  BY <1>1, <1>2, <1>4, <1>5, TurnKeeps
<1>7. QED
  BY <1>6 DEF LogInv

\* A later turn of its loop.
LEMMA ContinueKeeps ==
    ASSUME WriterInv, LogInv, Continue
    PROVE  LogInv'
<1>1. PICK F : Kept(F)
  BY DEF LogInv
<1> DEFINE s == Place(F, Len(F) + 1)
<1>2. /\ phase = "open" /\ phase' = "open" /\ status = "adding" /\ AddFragment(left, FALSE) /\ Remember
      /\ current' = current
  BY DEF Continue, ContinueRecord
<1>3. PICK data \in Seq(Nat) : data = left
  BY DEF WriterInv, WriterTypeOK
<1>4. AddFragment(data, FALSE)
  BY <1>2, <1>3 DEF AddFragment
<1>5. SpotOK(s) /\ s.first \in BOOLEAN /\ s.record \in Seq(Nat) /\ s.from \in Nat
  BY <1>1, NextPlace DEF Kept
<1>6. PICK record \in Seq(Nat) : record = s.record
  BY <1>5
<1>7. ASSUME intact
      PROVE  /\ s.first = FALSE /\ s.from <= Len(record) /\ data = From(record, s.from)
             /\ current' = [data |-> record, start |-> IF s.first THEN s.at ELSE s.start]
  <2>1. OpenAt(F)
    BY <1>1, <1>2, <1>7 DEF Kept
  <2>2. ~s.first
    BY <1>2, <1>5, <2>1 DEF OpenAt
  <2>3. left = From(s.record, s.from) /\ current = [data |-> s.record, start |-> s.start]
    BY <2>1, <2>2 DEF OpenAt
  <2>4. s.from < Len(s.record)
    BY <1>5, <2>2 DEF SpotOK
  <2> HIDE DEF s
  <2>5. s.from <= Len(record)
    <3>1. Len(record) \in Nat
      BY LenProperties
    <3>2. QED
      BY <1>5, <1>6, <2>4, <3>1
  <2>6. QED
    BY <1>2, <1>3, <1>5, <1>6, <2>2, <2>3, <2>5
<1>8. intact => /\ s.first = FALSE /\ s.from <= Len(record) /\ data = From(record, s.from)
                /\ ~s.first => record = s.record
                /\ current' = [data |-> record, start |-> IF s.first THEN s.at ELSE s.start]
  BY <1>6, <1>7
<1>9. intact \in BOOLEAN
  BY DEF LogInv
<1>10. intact' \in BOOLEAN /\ \E G : Kept(G)'
  BY <1>1, <1>2, <1>4, <1>8, <1>9, TurnKeeps
<1>11. QED
  BY <1>10 DEF LogInv

\* Upto and Before count the first records.
LEMMA UptoIs ==
    ASSUME NEW d, LogOK(d, log), NEW n \in Nat
    PROVE  Upto(n) \in 0 .. Len(log) /\ \A r \in 1 .. Len(log) : r <= Upto(n) <=> log[r].end <= n
<1> DEFINE D == { i \in 1 .. Len(log) : log[i].end <= n }
<1>1. log \in Seq(Entry) /\ Len(log) \in Nat
  BY LenProperties DEF LogOK
<1>2. ASSUME NEW i \in D, NEW j \in 1 .. i PROVE j \in D
  <2>1. i \in 1 .. Len(log) /\ log[i].end <= n /\ j \in 1 .. Len(log) /\ (j = i \/ j < i)
    BY <1>1
  <2>2. /\ log[i].start \in Nat /\ log[i].end \in Nat /\ log[j].end \in Nat
    BY <1>1, <2>1, EntryFields
  <2>3. CASE j < i
    <3>1. log[j].end <= log[i].start /\ log[i].start < log[i].end
      BY <2>1, <2>3 DEF LogOK
    <3>2. log[j].end <= n
      BY <2>1, <2>2, <3>1
    <3>3. QED
      BY <2>1, <3>2
  <2>4. QED
    BY <2>1, <2>3
<1>3. D \in SUBSET (1 .. Len(log)) /\ \A i \in D : 1 .. i \subseteq D
  BY <1>2
<1>4. \A r \in 1 .. Len(log) : r \in D <=> log[r].end <= n
  OBVIOUS
<1>5. Upto(n) = Cardinality(D)
  BY DEF Upto
<1> HIDE DEF D
<1>6. Cardinality(D) \in 0 .. Len(log) /\ D = 1 .. Cardinality(D)
  BY <1>1, <1>3, FirstIndices
<1>7. \A r \in 1 .. Len(log) : r <= Upto(n) <=> r \in D
  BY <1>1, <1>5, <1>6
<1>8. QED
  BY <1>4, <1>5, <1>6, <1>7

\* The records that begin before o are the first Before(o).
LEMMA BeforeIs ==
    ASSUME NEW d, LogOK(d, log), NEW o \in Nat
    PROVE  Before(o) \in 0 .. Len(log) /\ \A r \in 1 .. Len(log) : r <= Before(o) <=> log[r].start < o
<1> DEFINE D == { i \in 1 .. Len(log) : log[i].start < o }
<1>1. log \in Seq(Entry) /\ Len(log) \in Nat
  BY LenProperties DEF LogOK
<1>2. ASSUME NEW i \in D, NEW j \in 1 .. i PROVE j \in D
  <2>1. i \in 1 .. Len(log) /\ log[i].start < o /\ j \in 1 .. Len(log) /\ (j = i \/ j < i)
    BY <1>1
  <2>2. /\ log[i].start \in Nat /\ log[j].start \in Nat /\ log[j].end \in Nat
    BY <1>1, <2>1, EntryFields
  <2>3. CASE j < i
    <3>1. log[j].end <= log[i].start /\ log[j].start < log[j].end
      BY <2>1, <2>3 DEF LogOK
    <3>2. log[j].start < o
      BY <2>1, <2>2, <3>1
    <3>3. QED
      BY <2>1, <3>2
  <2>4. QED
    BY <2>1, <2>3
<1>3. D \in SUBSET (1 .. Len(log)) /\ \A i \in D : 1 .. i \subseteq D
  BY <1>2
<1>4. \A r \in 1 .. Len(log) : r \in D <=> log[r].start < o
  OBVIOUS
<1>5. Before(o) = Cardinality(D)
  BY DEF Before
<1> HIDE DEF D
<1>6. Cardinality(D) \in 0 .. Len(log) /\ D = 1 .. Cardinality(D)
  BY <1>1, <1>3, FirstIndices
<1>7. \A r \in 1 .. Len(log) : r <= Before(o) <=> r \in D
  BY <1>1, <1>5, <1>6
<1>8. QED
  BY <1>4, <1>5, <1>6, <1>7

\* A crash cuts fragments off the end and with them the records they belong to.
LEMMA CrashKeeps ==
    ASSUME WriterInv, LogInv, Crash
    PROVE  LogInv'
<1>1. PICK F : Kept(F)
  BY DEF LogInv
<1>2. PICK n \in file.synced .. Len(file.disk) :
           /\ file' = Opened(SubSeq(file.disk, 1, n))
           /\ log' = SubSeq(log, 1, Upto(n))
  BY DEF Crash
<1>3. phase' = "closed" /\ intact' = intact /\ intact \in BOOLEAN
  BY DEF Crash, LogInv
<1>4. file.disk \in Seq(Nat) /\ file.synced \in Nat /\ Len(file.disk) \in Nat
  BY FileParts DEF WriterInv, WriterTypeOK, FileOK
<1>5. n \in 0 .. Len(file.disk) /\ n \in Nat
  BY <1>4
<1>6. Layout(F, file.disk, log, intact) /\ LogOK(file.disk, log) /\ Len(log) \in Nat /\ log \in Seq(Entry)
  BY <1>1, LayoutParts DEF Kept
<1> DEFINE k == Upto(n)
<1>7. k \in 0 .. Len(log) /\ \A r \in 1 .. Len(log) : r <= k <=> log[r].end <= n
  BY <1>5, <1>6, UptoIs
<1>8. file'.disk = SubSeq(file.disk, 1, n) /\ log' = SubSeq(log, 1, k)
  BY <1>2 DEF Opened
<1> HIDE DEF k
<1>9. CASE intact
  <2>1. Layout(F, file.disk, log, TRUE)
    BY <1>3, <1>6, <1>9
  <2>2. Layout(F, SubSeq(file.disk, 1, n), SubSeq(log, 1, k), TRUE)
    BY <1>5, <1>7, <2>1, LayoutCrash
  <2>3. Layout(F, file'.disk, log', intact')
    BY <1>3, <1>8, <1>9, <2>2
  <2>4. Kept(F)'
    BY <1>3, <2>3 DEF Kept
  <2>5. QED
    BY <1>3, <2>4 DEF LogInv
<1>10. CASE ~intact
  <2>1. PICK G : Layout(G, file.disk, SubSeq(log, 1, k), FALSE)
    BY <1>6, <1>7, LayoutCut
  <2> DEFINE l == SubSeq(log, 1, k)
  <2>2. Len(l) = k /\ \A r \in 1 .. k : l[r] = log[r]
    BY <1>4, <1>6, <1>7, LogFirst
  <2> HIDE DEF l
  <2>3. ASSUME NEW r \in 1 .. Len(l) PROVE l[r].end <= n
    <3>1. r \in 1 .. Len(log) /\ r <= k /\ l[r] = log[r]
      BY <1>6, <1>7, <2>2
    <3>2. QED
      BY <1>7, <3>1
  <2>4. Layout(G, SubSeq(file.disk, 1, n), l, FALSE)
    BY <1>5, <2>1, <2>3, LayoutTruncate DEF l
  <2>5. Layout(G, file'.disk, log', intact')
    BY <1>3, <1>8, <1>10, <2>4 DEF l
  <2>6. Kept(G)'
    BY <1>3, <2>5 DEF Kept
  <2>7. QED
    BY <1>3, <2>6 DEF LogInv
<1>11. QED
  BY <1>9, <1>10

\* Steps that leave the file's disk as it is while the log is intact.
LEMMA DiskKeeps ==
    ASSUME LogInv, file'.disk \in Seq(Nat), Begins(file.disk, file'.disk), log' = log,
           intact' \in BOOLEAN, intact' => intact /\ file'.disk = file.disk,
           (intact' /\ phase' = "open") =>
              phase = "open" /\ status' = status /\ left' = left /\ current' = current
    PROVE  LogInv'
<1>1. PICK F : Kept(F)
  BY DEF LogInv
<1>2. Layout(F, file.disk, log, intact) /\ intact \in BOOLEAN
  BY <1>1 DEF Kept, LogInv
<1>3. CASE intact'
  <2>1. Layout(F, file'.disk, log', intact')
    BY <1>2, <1>3
  <2>2. ASSUME phase' = "open" PROVE OpenAt(F)'
    <3>1. OpenAt(F)
      BY <1>1, <1>3, <2>2 DEF Kept
    <3>2. QED
      BY <1>3, <2>2, <3>1 DEF OpenAt
  <2>3. Kept(F)'
    BY <2>1, <2>2 DEF Kept
  <2>4. QED
    BY <2>3 DEF LogInv
<1>4. CASE ~intact'
  <2>1. PICK G : Layout(G, file'.disk, log, FALSE)
    BY <1>2, LayoutFailed
  <2>2. Layout(G, file'.disk, log', intact')
    BY <1>4, <2>1
  <2>3. Kept(G)'
    BY <1>4, <2>2 DEF Kept
  <2>4. QED
    BY <2>3 DEF LogInv
<1>5. QED
  BY <1>3, <1>4

\* A sync only appends to the disk what was in the buffer.
LEMMA SyncGrows ==
    ASSUME NEW f \in File, NEW faults \in BOOLEAN, NEW r \in Sync(f, faults)
    PROVE  /\ r.file.disk \in Seq(Nat) /\ Begins(f.disk, r.file.disk) /\ r.ok \in BOOLEAN
           /\ f.buf = << >> => r.file.disk = f.disk
<1>1. f.disk \in Seq(Nat) /\ Begins(f.disk, f.disk)
  BY FileParts, BeginsSelf
<1>2. CASE r \in SyncDirFails(f, faults)
  <2>1. r = [file |-> f, ok |-> FALSE]
    BY <1>2 DEF SyncDirFails
  <2>2. QED
    BY <1>1, <2>1
<1>3. CASE \E w \in FlushBuffer(f, faults) : r \in IF w.ok THEN SyncFd(w.file, faults) ELSE {w}
  <2>1. PICK w \in FlushBuffer(f, faults) : r \in IF w.ok THEN SyncFd(w.file, faults) ELSE {w}
    BY <1>3
  <2>2. /\ w.file \in File /\ w.ok \in BOOLEAN /\ Begins(f.disk, w.file.disk)
        /\ f.buf = << >> => w.file.disk = f.disk
    BY FlushLeaves, FlushGrows
  <2>3. w.file.disk \in Seq(Nat)
    BY <2>2, FileParts
  <2>4. CASE ~w.ok
    BY <2>1, <2>2, <2>3, <2>4
  <2>5. CASE w.ok
    <3>1. r = Done([w.file EXCEPT !.synced = Len(w.file.disk)]) \/ r = [file |-> w.file, ok |-> FALSE]
      BY <2>1, <2>5 DEF SyncFd
    <3>2. r.file.disk = w.file.disk /\ r.ok \in BOOLEAN
      <4>1. CASE r = Done([w.file EXCEPT !.synced = Len(w.file.disk)])
        <5> DEFINE v == [w.file EXCEPT !.synced = Len(w.file.disk)]
        <5>1. v.disk = w.file.disk
          BY <2>2 DEF File
        <5> HIDE DEF v
        <5>2. r.file = v /\ r.ok = TRUE
          BY <4>1 DEF Done, v
        <5>3. QED
          BY <5>1, <5>2
      <4>2. CASE r = [file |-> w.file, ok |-> FALSE]
        BY <4>2
      <4>3. QED
        BY <3>1, <4>1, <4>2
    <3>3. QED
      BY <2>2, <2>3, <3>2
  <2>6. QED
    BY <2>2, <2>4, <2>5
<1>4. QED
  BY <1>2, <1>3 DEF Sync

\* Syncing the log.
LEMMA SyncKeeps ==
    ASSUME WriterInv, LogInv, SyncLog
    PROVE  LogInv'
<1>1. PICK r \in Sync(file, faulty) : file' = r.file /\ intact' = (intact /\ r.ok)
  BY DEF SyncLog
<1>2. file \in File /\ faulty \in BOOLEAN /\ intact \in BOOLEAN /\ phase = "open"
  BY DEF WriterInv, WriterTypeOK, FileOK, LogInv, SyncLog
<1>3. /\ r.file.disk \in Seq(Nat) /\ Begins(file.disk, r.file.disk) /\ r.ok \in BOOLEAN
      /\ file.buf = << >> => r.file.disk = file.disk
  BY <1>2, SyncGrows
<1>4. intact => file.buf = << >>
  BY <1>2 DEF WriterInv, OffsetFollowsFile
<1>5. intact' \in BOOLEAN /\ (intact' => intact /\ file'.disk = file.disk)
  BY <1>1, <1>2, <1>3, <1>4
<1>6. log' = log /\ status' = status /\ left' = left /\ current' = current
  BY DEF SyncLog
<1>7. file'.disk \in Seq(Nat) /\ Begins(file.disk, file'.disk)
  BY <1>1, <1>3
<1>8. QED
  BY <1>2, <1>5, <1>6, <1>7, DiskKeeps

\* Closing it.
LEMMA CloseKeeps ==
    ASSUME WriterInv, LogInv, CloseLog
    PROVE  LogInv'
<1>1. PICK r \in Close(file, faulty) : file' = r.file
  BY DEF CloseLog
<1>2. file \in File /\ faulty \in BOOLEAN /\ intact \in BOOLEAN /\ phase = "open"
  BY DEF WriterInv, WriterTypeOK, FileOK, LogInv, CloseLog
<1>3. PICK w \in FlushBuffer(file, faulty) : r.file = w.file
  <2>1. CASE r \in FlushBuffer(file, faulty)
    BY <2>1
  <2>2. CASE r \notin FlushBuffer(file, faulty)
    <3>1. PICK w \in FlushBuffer(file, faulty) : r = [w EXCEPT !.ok = FALSE]
      BY <1>1, <2>2 DEF Close
    <3>2. w = [file |-> w.file, ok |-> w.ok]
      BY <1>2, FlushLeaves
    <3>3. r.file = w.file
      BY <3>1, <3>2
    <3>4. QED
      BY <3>3
  <2>3. QED
    BY <2>1, <2>2
<1>4. /\ w.file \in File /\ Begins(file.disk, w.file.disk)
      /\ file.buf = << >> => w.file.disk = file.disk
  BY <1>2, FlushLeaves, FlushGrows
<1>5. w.file.disk \in Seq(Nat)
  BY <1>4, FileParts
<1>6. intact => file.buf = << >>
  BY <1>2 DEF WriterInv, OffsetFollowsFile
<1>7. intact' = intact /\ log' = log /\ phase' = "closed"
  BY DEF CloseLog, past
<1>8. QED
  BY <1>1, <1>2, <1>3, <1>4, <1>5, <1>6, <1>7, DiskKeeps

\* A writer that goes on with the file: at a torn tail nothing is known of what comes.
LEMMA ReopenKeeps ==
    ASSUME WriterInv, LogInv, Reopen
    PROVE  LogInv'
<1>1. PICK F : Kept(F)
  BY DEF LogInv
<1>2. Layout(F, file.disk, log, intact) /\ intact \in BOOLEAN
  BY <1>1 DEF Kept, LogInv
<1>3. /\ file' = Opened(file.disk) /\ status' = "ok" /\ log' = log /\ phase' = "open"
      /\ intact' = (intact /\ Len(file.disk) <= NextStart(LastEnd))
  BY DEF Reopen, NewWriter
<1>4. file'.disk = file.disk
  BY <1>3 DEF Opened
<1>5. file.disk \in Seq(Nat) /\ log \in Seq(Entry) /\ Len(log) \in Nat /\ LogOK(file.disk, log)
  BY <1>2, LayoutParts
<1>6. Begins(file.disk, file.disk)
  BY <1>5, BeginsSelf
<1>7. PICK G : Layout(G, file.disk, log, FALSE) /\ EndsWith(G, log, Len(log))
  BY <1>2, <1>5, <1>6, LayoutFailed
<1>8. CASE ~intact'
  <2>1. intact' = FALSE
    BY <1>2, <1>3, <1>8
  <2>2. Layout(G, file'.disk, log', intact')
    BY <1>3, <1>4, <1>7, <2>1
  <2>3. Kept(G)'
    BY <2>1, <2>2 DEF Kept
  <2>4. QED
    BY <2>1, <2>3 DEF LogInv
<1>9. CASE intact'
  <2>1. intact' = TRUE /\ Len(file.disk) <= NextStart(LastEnd)
    BY <1>2, <1>3, <1>9
  <2> DEFINE s == Place(G, Len(G) + 1)
             m == Len(G)
  <2>2. /\ m \in Nat /\ G \in Seq(Fragment)
        /\ \A i \in 1 .. m : G[i] \in Fragment /\ Belongs(G[i], file.disk, log)
    BY <1>7, LayoutParts
  <2>3. s.first /\ s.rec = Len(log) + 1
    <3>1. CASE Len(log) = 0
      <4>1. G = << >>
        BY <1>7, <3>1 DEF EndsWith
      <4>2. Len(G) + 1 = 1
        BY <4>1
      <4>3. QED
        BY <3>1, <4>2 DEF Place, Origin
    <3>2. CASE Len(log) # 0
      <4>1. m > 0 /\ G[m].last /\ G[m].rec = Len(log)
        BY <1>7, <3>2 DEF EndsWith
      <4>2. m + 1 # 1 /\ (m + 1) - 1 = m
        BY <2>2, <4>1
      <4>3. s = After(G[m])
        BY <4>2 DEF Place
      <4>4. QED
        BY <4>1, <4>3 DEF After
    <3>3. QED
      BY <3>1, <3>2
  <2>4. NextStart(LastEnd) = s.at
    BY <1>7, <2>3, NextStartPlace
  <2>5. Len(file.disk) <= s.at
    BY <2>1, <2>4
  <2>6. Layout(G, file.disk, log, TRUE)
    BY <1>7, <2>5, LayoutWhole
  <2>7. ASSUME NEW i \in 1 .. m PROVE End(G[i]) <= Len(file.disk)
    <3>1. G[i] \in Fragment /\ Belongs(G[i], file.disk, log) /\ G[i].rec <= Len(log)
      BY <1>7, <2>2 DEF Layout
    <3>2. G[i].rec \in Nat \ {0} /\ End(G[i]) \in Nat
      BY <3>1, FragmentFields
    <3>3. G[i].rec \in 1 .. Len(log)
      BY <1>5, <3>1, <3>2
    <3>4. End(G[i]) <= log[G[i].rec].end /\ log[G[i].rec].end <= Len(file.disk) /\ log[G[i].rec].end \in Nat
      BY <1>5, <3>1, <3>3, EntryFields DEF Belongs, LogOK
    <3>5. Len(file.disk) \in Nat
      BY <1>5, LenProperties
    <3>6. QED
      BY <3>2, <3>4, <3>5
  <2>8. OpenAt(G)'
    <3> HIDE DEF m
    <3>1. \A i \in 1 .. Len(G) : End(G[i]) <= Len(file'.disk)
      BY <1>4, <2>7 DEF m
    <3>2. Len(log') = Len(log) /\ status' # "adding"
      BY <1>3
    <3>3. QED
      BY <2>3, <3>1, <3>2 DEF OpenAt
  <2>9. Layout(G, file'.disk, log', intact')
    BY <1>3, <1>4, <2>1, <2>6
  <2>10. Kept(G)'
    BY <2>8, <2>9 DEF Kept
  <2>11. QED
    BY <2>1, <2>10 DEF LogInv
<1>10. QED
  BY <1>8, <1>9

\* An empty file has no fragments.
LEMMA LogStart ==
    ASSUME Init
    PROVE  LogInv
<1> DEFINE F == << >>
<1>1. /\ file = Opened(<< >>) /\ log = << >> /\ intact = TRUE /\ status = "ok"
  BY DEF Init
<1>2. file.disk = << >>
  BY <1>1 DEF Opened
<1>3. << >> \in Seq(Nat) /\ << >> \in Seq(Entry) /\ << >> \in Seq(Fragment) /\ Len(<< >>) = 0
  OBVIOUS
<1>4. Place(<< >>, Len(<< >>) + 1) = Origin
  BY <1>3 DEF Place
<1>5. LogOK(<< >>, << >>) /\ FragmentsOK(<< >>, << >>, << >>)
  BY <1>3 DEF LogOK, FragmentsOK
<1>6. Layout(<< >>, << >>, << >>, TRUE)
  BY <1>3, <1>4, <1>5 DEF Layout, Origin
<1>7. Layout(<< >>, file.disk, log, intact)
  BY <1>1, <1>2, <1>6
<1>8. OpenAt(<< >>)
  BY <1>1, <1>2, <1>3, <1>4 DEF OpenAt, Origin
<1>9. Kept(<< >>)
  BY <1>7, <1>8 DEF Kept
<1>10. QED
  BY <1>1, <1>9 DEF LogInv

\* LogInv is kept by every step.
LEMMA LogStep ==
    ASSUME WriterInv, LogInv, [Next]_vars
    PROVE  LogInv'
<1>1. ASSUME NEW record \in IF faulty THEN FaultyRecords ELSE Records, Add(record) PROVE LogInv'
  <2>1. record \in Seq(Nat)
    BY RecordsAssumption
  <2>2. QED
    BY <1>1, <2>1, AddKeeps
<1>2. CASE Continue
  BY <1>2, ContinueKeeps
<1>3. CASE SyncLog
  BY <1>3, SyncKeeps
<1>4. CASE CloseLog
  BY <1>4, CloseKeeps
<1>5. CASE Crash
  BY <1>5, CrashKeeps
<1>6. CASE Reopen
  BY <1>6, ReopenKeeps
<1>7. ASSUME UNCHANGED <<writerVars, past>>, phase' = phase \/ phase' = "reading" PROVE LogInv'
  <2>1. /\ file' = file /\ log' = log /\ intact' = intact /\ status' = status /\ left' = left
        /\ current' = current
    BY <1>7 DEF writerVars, past
  <2>2. PICK F : Kept(F)
    BY DEF LogInv
  <2>3. Kept(F)'
    <3>1. OpenAt(F) => OpenAt(F)'
      BY <2>1 DEF OpenAt
    <3>2. phase' = "open" => phase = "open"
      BY <1>7
    <3>3. QED
      BY <2>1, <2>2, <3>1, <3>2 DEF Kept
  <2>4. QED
    BY <2>1, <2>3 DEF LogInv
<1>8. CASE Recover
  BY <1>7, <1>8 DEF Recover
<1>9. CASE Read
  BY <1>7, <1>9 DEF Read
<1>10. CASE ReadFault
  BY <1>7, <1>10 DEF ReadFault
<1>11. CASE UNCHANGED vars
  BY <1>7, <1>11 DEF vars
<1>12. QED
  BY <1>1, <1>2, <1>3, <1>4, <1>5, <1>6, <1>8, <1>9, <1>10, <1>11 DEF Next

=============================================================================
