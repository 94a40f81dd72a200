-------------------------- MODULE RecoveryProofs --------------------------
(***************************************************************************)
(* Proofs about the recovery of a write-ahead log: what a reader returns,  *)
(* misses and reports, and the offset it gives, for logs of any records,   *)
(* cut anywhere by crashes, and any offset to start at.                    *)
(*                                                                         *)
(* WALProofs shows that the disk has the fragments F of a log (Layout).    *)
(* The inductive invariant here, ReaderInv, says how far a reader has      *)
(* come: it is new (Fresh), it has come to the i-th fragment with the      *)
(* bytes that ReadRecord has put together so far (Following),              *)
(* SkipToInitialBlock took it behind all records (Past), it has left the   *)
(* records for what a failed write left behind them (Free), or it has      *)
(* ended (Ended). A fragment that ReadPhysicalRecord gets moves it from    *)
(* the i-th to the next one, and the end of the file can only come once    *)
(* all records are returned.                                               *)
(*                                                                         *)
(* The reader's arithmetic is modulo SizeModulus, so the theorems speak of *)
(* files that are shorter (FileFits): in the code, of less than 2^64       *)
(* bytes.                                                                  *)
(***************************************************************************)
EXTENDS WALProofs

---------------------------------------------------------------------------
(* What the reader reads.                                                  *)

\* The types of the reader's state.
ReaderTypeOK ==
    /\ contents \in Seq(Nat) /\ pos \in Nat /\ buffer \in Seq(Nat) /\ eof \in BOOLEAN
    /\ initial_offset \in Nat /\ resyncing \in BOOLEAN /\ in_fragmented_record \in BOOLEAN
    /\ scratch \in Seq(Nat) /\ out \in Seq(Seq(Nat)) /\ io_error \in BOOLEAN

\* SkipToInitialBlock's block: one that begins less than a header behind the offset.
LEMMA InitialBlockIs ==
    ASSUME initial_offset \in Nat
    PROVE  InitialBlock \in Nat /\ IsBlock(InitialBlock) /\ InitialBlock < initial_offset + HeaderSize
           /\ (initial_offset = 0 => InitialBlock = 0)
<1> DEFINE x == initial_offset % BlockSize
           q == initial_offset \div BlockSize
<1>1. PICK o \in Nat, B \in Nat \ {0}, h \in Nat : o = initial_offset /\ B = BlockSize /\ h = HeaderSize
  BY Sizes_
<1>2. x = o % B /\ q = o \div B /\ 2 <= h /\ h < B
  BY <1>1, Sizes_
<1>3. o % B \in 0 .. B - 1 /\ o \div B \in Nat /\ o = (B * (o \div B)) + (o % B)
  OBVIOUS
<1>4. x \in Nat /\ x < B /\ q \in Nat /\ o = (B * q) + x /\ B * q \in Nat
  BY <1>2, <1>3
<1>5. InitialBlock = IF x > B - (h - 1) THEN o - x + B ELSE o - x
  BY <1>1 DEF InitialBlock
<1> HIDE DEF x, q
<1>6. CASE x > B - (h - 1)
  <2>1. InitialBlock = (B * q) + B /\ (B * q) + B = B * (q + 1) /\ q + 1 \in Nat
    BY <1>4, <1>5, <1>6
  <2>2. InitialBlock \in Nat
    BY <1>4, <2>1
  <2>3. (B * q) + B < o + h
    BY <1>2, <1>4, <1>6
  <2>4. o # 0
    BY <1>2, <1>4, <1>6
  <2>5. QED
    BY <1>1, <2>1, <2>2, <2>3, <2>4 DEF IsBlock
<1>7. CASE ~(x > B - (h - 1))
  <2>1. InitialBlock = B * q
    BY <1>4, <1>5, <1>7
  <2>2. B * q < o + h /\ (o = 0 => B * q = 0)
    BY <1>2, <1>4
  <2>3. QED
    BY <1>1, <1>4, <2>1, <2>2 DEF IsBlock
<1>8. QED
  BY <1>6, <1>7

\* What a read of a block returns.
LEMMA ChunkIs ==
    ASSUME contents \in Seq(Nat), pos \in Nat
    PROVE  /\ Chunk \in Seq(Nat) /\ Len(Chunk) \in Nat /\ Len(Chunk) <= BlockSize
           /\ Len(Chunk) < BlockSize => pos + Len(Chunk) >= Len(contents)
           /\ Len(Chunk) > 0 => pos + Len(Chunk) <= Len(contents)
           /\ \A j \in 1 .. Len(Chunk) : Chunk[j] = contents[pos + j]
<1>1. PICK d \in Seq(Nat), p \in Nat, B \in Nat \ {0} : d = contents /\ p = pos /\ B = BlockSize
  BY Sizes_
<1>2. Len(d) \in Nat
  BY LenProperties
<1> DEFINE e == IF p + B < Len(d) THEN p + B ELSE Len(d)
           c == SubSeq(d, p + 1, e)
<1>3. Chunk = c
  BY <1>1 DEF Chunk
<1>4. e \in Nat /\ e <= Len(d) /\ e <= p + B /\ (e < p + B => e = Len(d))
  BY <1>2
<1> HIDE DEF e
<1>5. \A i \in p + 1 .. e : i \in 1 .. Len(d)
  BY <1>2, <1>4
<1>6. \A i \in p + 1 .. e : d[i] \in Nat
  BY <1>5
<1>7. /\ c \in Seq(Nat) /\ Len(c) = (IF p + 1 <= e THEN e - (p + 1) + 1 ELSE 0)
      /\ \A i \in 1 .. e - (p + 1) + 1 : c[i] = d[(p + 1) + i - 1]
  BY <1>4, <1>6, SubSeqProperties
<1> HIDE DEF c
<1>8. Len(c) \in Nat /\ Len(c) <= B
  BY <1>2, <1>4, <1>7
<1>9. Len(c) < B => p + Len(c) >= Len(d)
  BY <1>2, <1>4, <1>7
<1>10. Len(c) > 0 => p + Len(c) <= Len(d)
  BY <1>2, <1>4, <1>7
<1>11. ASSUME NEW j \in 1 .. Len(c) PROVE c[j] = d[p + j]
  <2>1. j \in 1 .. e - (p + 1) + 1 /\ (p + 1) + j - 1 = p + j
    BY <1>4, <1>7, <1>8
  <2>2. QED
    BY <1>7, <2>1
<1>12. QED
  BY <1>1, <1>3, <1>7, <1>8, <1>9, <1>10, <1>11

\* The physical record's parts are bytes.
LEMMA PhysicalTypes ==
    ASSUME buffer \in Seq(Nat)
    PROVE  ReadPhysicalRecord.buffer \in Seq(Nat) /\ ReadPhysicalRecord.fragment \in Seq(Nat)
<1> DEFINE length == LengthOf(buffer)
           rest == From(buffer, HeaderSize + length)
           Nothing(type) == [type |-> type, fragment |-> << >>, buffer |-> << >>, drop |-> 0]
           n == Len(buffer)
           part == SubSeq(buffer, HeaderSize + 1, HeaderSize + length)
<1>1. n \in Nat /\ HeaderSize \in Nat /\ 2 <= HeaderSize
  BY LenProperties, Sizes_
<1>2. << >> \in Seq(Nat)
  OBVIOUS
<1>3. CASE n < HeaderSize
  <2>1. ReadPhysicalRecord = Nothing(kEof)
    BY <1>1, <1>3 DEF ReadPhysicalRecord
  <2>2. QED
    BY <1>2, <2>1
<1>4. CASE n >= HeaderSize
  <2>1. length \in Nat
    <3>1. HeaderSize - 1 \in 1 .. n
      BY <1>1, <1>4
    <3>2. QED
      BY <3>1 DEF LengthOf
  <2>2. CASE HeaderSize + length > n
    <3>1. ReadPhysicalRecord = IF eof THEN Nothing(kEof)
                               ELSE [Nothing(kBadRecord) EXCEPT !.drop = Len(buffer)]
      <4>1. ~(n < HeaderSize) /\ ~(HeaderSize + length <= n)
        BY <1>1, <1>4, <2>1, <2>2
      <4>2. QED
        BY <1>4, <2>2, <4>1 DEF ReadPhysicalRecord
    <3>2. QED
      BY <1>2, <3>1
  <2>3. CASE HeaderSize + length <= n
    <3>1. ReadPhysicalRecord =
               IF TypeOf(buffer) = kZeroType /\ length = 0 THEN Nothing(kBadRecord)
               ELSE IF Wrap(end_of_buffer_offset - Len(buffer)) < initial_offset
               THEN [Nothing(kBadRecord) EXCEPT !.buffer = rest]
               ELSE [type |-> TypeOf(buffer), fragment |-> part, buffer |-> rest, drop |-> 0]
      <4>1. ~(n < HeaderSize) /\ ~(HeaderSize + length > n)
        BY <1>1, <1>4, <2>1, <2>3
      <4>2. QED
        BY <1>4, <2>3, <4>1 DEF ReadPhysicalRecord
    <3>2. HeaderSize + length \in 0 .. n
      BY <1>1, <2>1, <2>3
    <3>3. rest \in Seq(Nat)
      <4> DEFINE k == HeaderSize + length
      <4>1. k \in 0 .. Len(buffer)
        BY <3>2
      <4> HIDE DEF k
      <4>2. From(buffer, k) \in Seq(Nat)
        BY <4>1, FromIs
      <4>3. QED
        BY <4>2 DEF k
    <3>4. part \in Seq(Nat)
      <4> DEFINE a == HeaderSize + 1
                 k == HeaderSize + length
      <4>1. a \in Nat \ {0} /\ k \in 0 .. Len(buffer)
        BY <1>1, <3>2
      <4> HIDE DEF a, k
      <4>2. \A i \in a .. k : i \in 1 .. Len(buffer)
        BY <1>1, <4>1
      <4>3. \A i \in a .. k : buffer[i] \in Nat
        BY <4>2
      <4>4. SubSeq(buffer, a, k) \in Seq(Nat)
        BY <4>1, <4>3, SubSeqProperties
      <4>5. QED
        BY <4>4 DEF a, k
    <3> HIDE DEF rest, part, length
    <3>5. QED
      BY <1>2, <3>1, <3>3, <3>4
  <2>4. QED
    BY <1>1, <2>1, <2>2, <2>3
<1>5. QED
  BY <1>1, <1>3, <1>4

\* The types of the state of the reader are kept.
LEMMA ReaderTypes ==
    ASSUME ReaderTypeOK, ReaderStep \/ ReaderFault
    PROVE  ReaderTypeOK' /\ contents' = contents /\ initial_offset' = initial_offset
<1> DEFINE P == ReadPhysicalRecord
<1>1. /\ contents \in Seq(Nat) /\ pos \in Nat /\ buffer \in Seq(Nat) /\ eof \in BOOLEAN
      /\ initial_offset \in Nat /\ resyncing \in BOOLEAN /\ in_fragmented_record \in BOOLEAN
      /\ scratch \in Seq(Nat) /\ out \in Seq(Seq(Nat)) /\ io_error \in BOOLEAN
  BY DEF ReaderTypeOK
<1>2. P.buffer \in Seq(Nat) /\ P.fragment \in Seq(Nat)
  BY <1>1, PhysicalTypes
<1>3. Chunk \in Seq(Nat) /\ Len(Chunk) \in Nat
  BY <1>1, ChunkIs
<1>4. InitialBlock \in Nat
  BY <1>1, InitialBlockIs
<1>5. << >> \in Seq(Nat)
  OBVIOUS
<1> HIDE DEF P
<1>6. scratch \o P.fragment \in Seq(Nat)
  BY <1>1, <1>2, ConcatProperties
<1>7. \A x \in Seq(Nat) : Append(out, x) \in Seq(Seq(Nat))
  BY <1>1, AppendProperties
<1>8. CASE Call
  <2>1. pos' \in Nat
    BY <1>1, <1>4, <1>8 DEF Call
  <2>2. QED
    BY <1>1, <1>5, <1>8, <2>1 DEF Call, ReaderTypeOK, fileVars
<1>9. CASE Fill
  <2>1. pos' \in Nat
    BY <1>1, <1>3, <1>9 DEF Fill
  <2>2. eof' \in BOOLEAN
    BY <1>9 DEF Fill
  <2>3. QED
    BY <1>1, <1>3, <1>9, <2>1, <2>2 DEF Fill, ReaderTypeOK, fileVars, fragmentVars
<1>10. ASSUME Turn(P)
       PROVE  /\ contents' = contents /\ initial_offset' = initial_offset /\ pos' = pos /\ eof' = eof
              /\ buffer' \in Seq(Nat) /\ io_error' = io_error
  BY <1>2, <1>10 DEF Turn, fileVars
<1>11. CASE Resync
  <2>1. Turn(P) /\ resyncing' \in BOOLEAN
    BY <1>11 DEF Resync, P
  <2>2. UNCHANGED <<fragmentVars, out>>
    BY <1>11 DEF Resync
  <2>3. QED
    BY <1>1, <1>10, <2>1, <2>2 DEF ReaderTypeOK, fragmentVars
<1>12. CASE ReadFull
  <2>1. Turn(P) /\ resyncing' = FALSE /\ scratch' = << >> /\ out' = Append(out, P.fragment)
        /\ in_fragmented_record' = in_fragmented_record
    BY <1>12 DEF ReadFull, P
  <2>2. QED
    BY <1>1, <1>2, <1>5, <1>7, <1>10, <2>1 DEF ReaderTypeOK
<1>13. CASE ReadFirst
  <2>1. Turn(P) /\ resyncing' = FALSE /\ scratch' = P.fragment /\ out' = out
        /\ in_fragmented_record' = TRUE
    BY <1>13 DEF ReadFirst, P
  <2>2. QED
    BY <1>1, <1>2, <1>10, <2>1 DEF ReaderTypeOK
<1>14. CASE ReadOrphan
  <2>1. Turn(P) /\ UNCHANGED <<resyncing, fragmentVars, out>>
    BY <1>14 DEF ReadOrphan, P
  <2>2. QED
    BY <1>1, <1>10, <2>1 DEF ReaderTypeOK, fragmentVars
<1>15. CASE ReadMiddle
  <2>1. Turn(P) /\ resyncing' = resyncing /\ scratch' = scratch \o P.fragment /\ out' = out
        /\ in_fragmented_record' = in_fragmented_record
    BY <1>15 DEF ReadMiddle, P
  <2>2. QED
    BY <1>1, <1>6, <1>10, <2>1 DEF ReaderTypeOK
<1>16. CASE ReadLast
  <2>1. Turn(P) /\ resyncing' = resyncing /\ scratch' = scratch \o P.fragment
        /\ out' = Append(out, scratch') /\ in_fragmented_record' = in_fragmented_record
    BY <1>16 DEF ReadLast, P
  <2>2. QED
    BY <1>1, <1>6, <1>7, <1>10, <2>1 DEF ReaderTypeOK
<1>17. CASE ReadEof
  <2>1. Turn(P) /\ resyncing' = FALSE /\ scratch' = (IF in_fragmented_record THEN << >> ELSE scratch)
        /\ out' = out /\ in_fragmented_record' = in_fragmented_record
    BY <1>17 DEF ReadEof, P
  <2>2. QED
    BY <1>1, <1>5, <1>10, <2>1 DEF ReaderTypeOK
<1>18. CASE ReadBad
  <2>1. Turn(P) /\ resyncing' = FALSE /\ scratch' = (IF in_fragmented_record THEN << >> ELSE scratch)
        /\ out' = out /\ in_fragmented_record' = FALSE
    BY <1>18 DEF ReadBad, P
  <2>2. QED
    BY <1>1, <1>5, <1>10, <2>1 DEF ReaderTypeOK
<1>19. CASE ReadUnknown
  <2>1. Turn(P) /\ resyncing' = FALSE /\ scratch' = << >> /\ out' = out /\ in_fragmented_record' = FALSE
    BY <1>19 DEF ReadUnknown, P
  <2>2. QED
    BY <1>1, <1>5, <1>10, <2>1 DEF ReaderTypeOK
<1>20. CASE CallSkipFails
  BY <1>1, <1>20 DEF CallSkipFails, ReaderTypeOK, fileVars, fragmentVars
<1>21. CASE FillFails
  BY <1>1, <1>5, <1>21 DEF FillFails, ReaderTypeOK, fileVars, fragmentVars
<1>22. QED
  BY <1>8, <1>9, <1>11, <1>12, <1>13, <1>14, <1>15, <1>16, <1>17, <1>18, <1>19, <1>20, <1>21
  DEF ReaderStep, ReaderFault

\* The buffer buf is what comes before position p of the file d.
Window(buf, d, p) ==
    Len(buf) <= p /\ \A j \in 1 .. Len(buf) : buf[j] = d[(p - Len(buf)) + j]

\* A reader at position p of L bytes, with n of them in its buffer and ended at
\* the end of the file, stands at the place s.
Standing(n, p, ended, s, L) ==
    /\ n >= HeaderSize => /\ p - n = s.at /\ p <= s.base + BlockSize /\ p <= L
                          /\ ended \/ p = s.base + BlockSize
    /\ (n < HeaderSize /\ ~ended) => p = s.base /\ s.at = s.base
    /\ (n < HeaderSize /\ ended) => p < s.at + HeaderSize
    /\ ended => p >= L

\* A reader at the end of a block stands at the same place once it has read the next.
LEMMA StandingFill ==
    ASSUME NEW n \in Nat, NEW p \in Nat, NEW s, SpotOK(s), NEW L \in Nat, Standing(n, p, FALSE, s, L),
           n < HeaderSize, NEW c \in Nat, c <= BlockSize, c < BlockSize => p + c >= L,
           c > 0 => p + c <= L
    PROVE  Standing(c, p + c, c < BlockSize, s, L)
<1>1. s.base \in Nat /\ s.at \in Nat
  BY DEF SpotOK, Spot
<1>2. PICK b \in Nat, a \in Nat, B \in Nat, h \in Nat :
           b = s.base /\ a = s.at /\ B = BlockSize /\ h = HeaderSize /\ h < B /\ 2 <= h
  BY <1>1, Sizes_
<1>3. p = b /\ a = b
  BY <1>2 DEF Standing
<1>4. c >= h => (p + c) - c = a /\ p + c <= b + B /\ p + c <= L /\ (c < B \/ p + c = b + B)
  BY <1>2, <1>3
<1>5. ~(c < h /\ ~(c < B))
  BY <1>2
<1>6. c < h => p + c < a + h
  BY <1>3
<1>7. QED
  BY <1>2, <1>4, <1>5, <1>6 DEF Standing

\* One that takes a whole fragment stands at the place behind it.
LEMMA StandingNext ==
    ASSUME NEW n \in Nat, NEW p \in Nat, NEW ended \in BOOLEAN, NEW s, NEW L \in Nat,
           Standing(n, p, ended, s, L), NEW g, FragmentOK(g), Takes(s, g),
           n >= HeaderSize, HeaderSize + g.size <= n
    PROVE  Standing(n - (HeaderSize + g.size), p, ended, After(g), L) /\ End(g) <= p
<1>1. g.base \in Nat /\ g.at \in Nat /\ g.size \in Nat /\ End(g) <= g.base + BlockSize
      /\ End(g) = g.at + HeaderSize + g.size /\ s.at = g.at /\ s.base = g.base
  BY FragmentFields DEF FragmentOK, End, Takes
<1>2. PICK b \in Nat, a \in Nat, z \in Nat, B \in Nat, h \in Nat :
           b = g.base /\ a = g.at /\ z = g.size /\ B = BlockSize /\ h = HeaderSize /\ h < B /\ 2 <= h
  BY <1>1, Sizes_
<1>3. /\ p - n = a /\ p <= b + B /\ p <= L /\ (ended \/ p = b + B)
      /\ (ended => p >= L) /\ h + z <= n /\ a + h + z <= b + B /\ End(g) = a + h + z
  BY <1>1, <1>2 DEF Standing
<1> DEFINE m == n - (HeaderSize + g.size)
           e == End(g)
<1>4. m = n - (h + z) /\ e = a + h + z
  BY <1>2, <1>3
<1> HIDE DEF m, e
<1>5. m \in Nat /\ e \in Nat /\ p - m = e /\ e <= p /\ e <= b + B
  BY <1>3, <1>4
<1>6. After(g).at = (IF e + h <= b + B THEN e ELSE b + B)
      /\ After(g).base = (IF e + h <= b + B THEN b ELSE b + B)
  BY <1>2 DEF After, Fits, e
<1>7. CASE e + h <= b + B
  <2>1. After(g).at = e /\ After(g).base = b
    BY <1>6, <1>7
  <2>2. m < h => ended
    BY <1>3, <1>5, <1>7
  <2>3. m < h => p < e + h
    BY <1>5
  <2>4. QED
    BY <1>2, <1>3, <1>5, <2>1, <2>2, <2>3 DEF Standing, m, e
<1>8. CASE ~(e + h <= b + B)
  <2>1. After(g).at = b + B /\ After(g).base = b + B
    BY <1>6, <1>8
  <2>2. ~(m >= h)
    BY <1>3, <1>5, <1>8
  <2>3. p < b + B + h
    BY <1>2, <1>3
  <2>4. QED
    BY <1>2, <1>3, <1>5, <2>1, <2>2, <2>3 DEF Standing, m, e
<1>9. QED
  BY <1>7, <1>8

\* A fragment that the buffer has only a part of is cut off by the file's end.
LEMMA StandingCut ==
    ASSUME NEW n \in Nat, NEW p \in Nat, NEW ended \in BOOLEAN, NEW s, NEW L \in Nat,
           Standing(n, p, ended, s, L), NEW g, FragmentOK(g), Takes(s, g),
           ~(HeaderSize + g.size <= n), n >= HeaderSize \/ ended
    PROVE  ended /\ End(g) > L
<1>1. g.base \in Nat /\ g.at \in Nat /\ g.size \in Nat /\ End(g) <= g.base + BlockSize
      /\ End(g) = g.at + HeaderSize + g.size /\ s.at = g.at /\ s.base = g.base
  BY FragmentFields DEF FragmentOK, End, Takes
<1>2. PICK b \in Nat, a \in Nat, z \in Nat, B \in Nat, h \in Nat :
           b = g.base /\ a = g.at /\ z = g.size /\ B = BlockSize /\ h = HeaderSize /\ h < B /\ 2 <= h
  BY <1>1, Sizes_
<1>3. End(g) = a + h + z /\ a + h + z <= b + B /\ ~(h + z <= n)
  BY <1>1, <1>2
<1>4. CASE n >= h
  <2>1. p - n = a /\ (ended \/ p = b + B)
    BY <1>1, <1>2, <1>4 DEF Standing
  <2>2. p < a + h + z
    BY <1>3, <2>1
  <2>3. ended
    BY <1>3, <2>1, <2>2
  <2>4. p >= L
    BY <2>3 DEF Standing
  <2>5. QED
    BY <1>3, <2>2, <2>3, <2>4
<1>5. CASE n < h
  <2>1. ended
    BY <1>2, <1>5
  <2>2. p < a + h /\ p >= L
    BY <1>1, <1>2, <1>5, <2>1 DEF Standing
  <2>3. L < a + h + z
    BY <2>2
  <2>4. QED
    BY <1>3, <2>1, <2>3
<1>6. QED
  BY <1>4, <1>5

\* What is left of a window is a window.
LEMMA WindowNext ==
    ASSUME NEW buf \in Seq(Nat), NEW d, NEW p \in Nat, Window(buf, d, p), NEW k \in 0 .. Len(buf)
    PROVE  /\ Window(From(buf, k), d, p) /\ From(buf, k) \in Seq(Nat) /\ Len(From(buf, k)) = Len(buf) - k
<1> DEFINE r == From(buf, k)
           n == Len(buf)
<1>1. n \in Nat /\ k \in Nat /\ k <= n /\ n <= p
  BY LenProperties DEF Window
<1>2. r \in Seq(Nat) /\ Len(r) = n - k /\ \A j \in 1 .. n - k : r[j] = buf[k + j]
  BY FromIs
<1>3. \A j \in 1 .. n : buf[j] = d[(p - n) + j]
  BY DEF Window
<1> HIDE DEF r, n
<1>4. ASSUME NEW j \in 1 .. Len(r) PROVE r[j] = d[(p - Len(r)) + j]
  <2>1. k + j \in 1 .. n /\ j \in 1 .. n - k /\ (p - n) + (k + j) = (p - Len(r)) + j
    BY <1>1, <1>2
  <2>2. r[j] = d[(p - n) + (k + j)]
    BY <1>2, <1>3, <2>1
  <2>3. QED
    BY <2>1, <2>2
<1>5. Len(r) <= p
  BY <1>1, <1>2
<1>6. QED
  BY <1>2, <1>4, <1>5 DEF Window, r, n

---------------------------------------------------------------------------
(* A reader that follows the fragments.                                    *)

\* How many records are returned once n have been passed, the first k of them
\* because they begin before the initial offset.
Count(n, k) == IF n <= k THEN 0 ELSE n - k

\* The records o are the ones after the first k of lg, in order, and lro is
\* where the last of them begins; and: they are all of these.
HasReturned(o, lro, lg, k) ==
    /\ Len(o) <= Len(lg) - k
    /\ \A j \in 1 .. Len(o) : o[j] = lg[k + j].data
    /\ o # << >> => lro = lg[k + Len(o)].start

ReturnedAll(o, lg, k) ==
    Len(lg) - k <= Len(o) /\ \A j \in 1 .. Len(lg) - k : o[j] = lg[k + j].data

\* What ReadRecord has of the record that goes on at s: its bytes so far, or
\* nothing because it begins before the offset o.
Assembled(fragmented, bytes, begin, resyncs, s, o) ==
    /\ fragmented => ~s.first /\ bytes = SubSeq(s.record, 1, s.from) /\ begin = s.start /\ s.start >= o
    /\ ~fragmented => s.first \/ s.start < o
    /\ resyncs => ~fragmented

Passed == Before(initial_offset)

\* The reader has come to the i-th fragment.
Following(F, i) ==
    /\ i \in 1 .. Len(F) + 1
    /\ Place(F, i).rec <= Len(log) + 1
    /\ Len(out) = Count(Place(F, i).rec - 1, Passed)
    /\ HasReturned(out, last_record_offset, log, Passed)
    /\ end_of_buffer_offset = pos
    /\ Window(buffer, contents, pos)
    /\ Standing(Len(buffer), pos, eof, Place(F, i), Len(contents))
    /\ initial_offset = 0 => reports = 0
    /\ \/ /\ reading = "call"
          /\ Assembled(in_fragmented_record, scratch, prospective_record_offset, resyncing,
                       Place(F, i), initial_offset)
       \/ reading = "idle" /\ Place(F, i).first /\ out # << >>

\* It has not read yet; it has nothing to read, since its offset is behind all
\* records; it has returned all and is in what a failed write left; it is done.
Fresh ==
    /\ reading = "idle" /\ pos = 0 /\ buffer = << >> /\ eof = FALSE /\ out = << >>
    /\ last_record_offset = 0 /\ end_of_buffer_offset = 0 /\ reports = 0

Past ==
    /\ reading = "call" /\ out = << >> /\ Passed = Len(log) /\ Len(buffer) < HeaderSize
    /\ pos >= Len(contents) /\ initial_offset > 0

Free == ~intact /\ reading \in {"idle", "call"} /\ ReturnedAll(out, log, Passed)

Ended ==
    /\ reading = "end"
    /\ intact => /\ HasReturned(out, last_record_offset, log, Passed)
                 /\ (initial_offset = 0 /\ ~io_error) => reports = 0
    /\ ~io_error => ReturnedAll(out, log, Passed)

Reads(F) == Fresh \/ (\E i \in 1 .. Len(F) + 1 : Following(F, i)) \/ Past \/ Free \/ Ended

\* The records passed are the first ones, which begin before the offset.
LEMMA PassedIs ==
    ASSUME NEW d, LogOK(d, log), initial_offset \in Nat
    PROVE  /\ Passed \in 0 .. Len(log) /\ Passed \in Nat /\ Len(log) \in Nat
           /\ \A r \in 1 .. Len(log) : r <= Passed <=> log[r].start < initial_offset
<1>1. log \in Seq(Entry) /\ Len(log) \in Nat
  BY LenProperties DEF LogOK
<1>2. /\ Passed \in 0 .. Len(log)
      /\ \A r \in 1 .. Len(log) : r <= Passed <=> log[r].start < initial_offset
  BY BeforeIs DEF Passed
<1>3. QED
  BY <1>1, <1>2

\* They do not change while the reader reads.
LEMMA PassedSame ==
    ASSUME log' = log, initial_offset' = initial_offset
    PROVE  Passed' = Passed
BY DEF Passed, Before

\* A reader that has passed all records has returned all.
LEMMA AllPassed ==
    ASSUME NEW lg \in Seq(Entry), NEW k \in 0 .. Len(lg), NEW o \in Seq(Seq(Nat)), NEW lro,
           HasReturned(o, lro, lg, k), Len(o) = Count(Len(lg), k)
    PROVE  ReturnedAll(o, lg, k)
<1>1. Len(lg) \in Nat /\ Len(o) \in Nat /\ k \in Nat /\ k <= Len(lg)
  BY LenProperties
<1>2. Len(o) = Len(lg) - k
  BY <1>1 DEF Count
<1>3. QED
  BY <1>1, <1>2 DEF ReturnedAll, HasReturned

\* The place after the fragments of a log is after all its records.
LEMMA LastPlace ==
    ASSUME NEW F, NEW d, NEW lg, NEW whole, Layout(F, d, lg, whole)
    PROVE  Place(F, Len(F) + 1).rec > Len(lg)
<1> DEFINE m == Len(F)
           n == Len(lg)
<1>1. /\ m \in Nat /\ n \in Nat /\ F \in Seq(Fragment)
      /\ \A i \in 1 .. m : F[i] \in Fragment
      /\ FragmentsOK(F, d, lg)
  BY LayoutParts
<1>2. CASE n = 0
  <2>1. SpotOK(Place(F, m + 1))
    <3>1. m + 1 \in 1 .. m + 1
      BY <1>1
    <3>2. QED
      BY <1>1, <3>1, PlaceOK
  <2>2. Place(F, m + 1).rec \in Nat \ {0}
    BY <2>1 DEF SpotOK, Spot
  <2>3. QED
    BY <1>2, <2>2
<1>3. CASE n # 0
  <2>1. n \in 1 .. n
    BY <1>1, <1>3
  <2>2. PICK j \in 1 .. m : F[j].rec = n /\ F[j].last
    BY <1>1, <2>1 DEF FragmentsOK
  <2>3. m \in 1 .. m /\ F[m].rec \in Nat /\ (j = m \/ j < m)
    <3>1. m \in 1 .. m /\ (j = m \/ j < m)
      BY <1>1
    <3>2. QED
      BY <1>1, <3>1, FragmentFields
  <2>4. m + 1 # 1 /\ (m + 1) - 1 = m
    BY <1>1, <2>3
  <2>5. Place(F, m + 1) = After(F[m])
    BY <2>4 DEF Place
  <2>6. Place(F, m + 1).rec = IF F[m].last THEN F[m].rec + 1 ELSE F[m].rec
    BY <2>5 DEF After
  <2>7. CASE j = m
    <3>1. Place(F, m + 1).rec = n + 1
      BY <2>2, <2>6, <2>7
    <3>2. QED
      BY <1>1, <3>1
  <2>8. CASE j < m
    <3>1. InOrder(F[j], F[m])
      BY <1>1, <2>3, <2>8 DEF FragmentsOK
    <3>2. n < F[m].rec
      BY <2>2, <3>1 DEF InOrder
    <3>3. F[m].rec <= Place(F, m + 1).rec /\ Place(F, m + 1).rec \in Nat
      BY <2>3, <2>6
    <3>4. QED
      BY <1>1, <2>3, <3>2, <3>3
  <2>9. QED
    BY <2>3, <2>7, <2>8
<1>4. QED
  BY <1>2, <1>3

\* A reader that has come behind these fragments has returned all.
LEMMA Settle ==
    ASSUME NEW F, Layout(F, contents, log, FALSE), ReaderTypeOK, ~intact, Following(F, Len(F) + 1)
    PROVE  Free
<1> DEFINE m == Place(F, Len(F) + 1).rec
<1>1. /\ LogOK(contents, log) /\ log \in Seq(Entry) /\ Len(F) \in Nat /\ F \in Seq(Fragment)
      /\ FragmentsOK(F, contents, log) /\ initial_offset \in Nat /\ out \in Seq(Seq(Nat))
  BY LayoutParts DEF ReaderTypeOK
<1>2. Passed \in 0 .. Len(log) /\ Len(log) \in Nat
  BY <1>1, PassedIs
<1>3. Len(F) + 1 \in 1 .. Len(F) + 1
  BY <1>1
<1>4. m \in Nat
  <2>1. SpotOK(Place(F, Len(F) + 1))
    BY <1>1, <1>3, PlaceOK
  <2>2. QED
    BY <2>1 DEF SpotOK, Spot
<1>5. m > Len(log) /\ m <= Len(log) + 1
  BY LastPlace DEF Following
<1>6. Len(out) = Count(m - 1, Passed) /\ HasReturned(out, last_record_offset, log, Passed)
      /\ reading \in {"idle", "call"}
  BY DEF Following
<1> HIDE DEF m
<1>7. m - 1 = Len(log)
  BY <1>2, <1>4, <1>5
<1>8. ReturnedAll(out, log, Passed)
  BY <1>1, <1>2, <1>6, <1>7, AllPassed
<1>9. QED
  BY <1>6, <1>8 DEF Free

---------------------------------------------------------------------------
(* A turn of the loop.                                                     *)

\* The buffer has the fragment g at its beginning: the bytes of its header, and
\* what it carries.
Holds(buf, g) ==
    /\ HeaderSize + g.size <= Len(buf)
    /\ buf[HeaderSize - 1] = g.size
    /\ buf[HeaderSize] = FragmentType(g.first, g.last)
    /\ \A j \in 1 .. g.size : buf[HeaderSize + j] = g.record[g.from + j]

\* A buffer that stands at a fragment and has as many bytes holds it.
LEMMA WindowHolds ==
    ASSUME NEW buf \in Seq(Nat), NEW d \in Seq(Nat), NEW p \in Nat, Window(buf, d, p), p <= Len(d),
           NEW g, FragmentOK(g), Written(d, g), p - Len(buf) = g.at, HeaderSize + g.size <= Len(buf)
    PROVE  Holds(buf, g)
<1>1. g.at \in Nat /\ g.size \in Nat
  BY FragmentFields DEF FragmentOK
<1>2. PICK a \in Nat, z \in Nat, h \in Nat, n \in Nat, L \in Nat :
           /\ a = g.at /\ z = g.size /\ h = HeaderSize /\ 2 <= h /\ n = Len(buf) /\ L = Len(d)
  BY <1>1, Sizes_, LenProperties
<1>3. p - n = a /\ p <= L /\ h + z <= n /\ n <= p /\ 2 <= h
  BY <1>2 DEF Window
<1>4. \A j \in 1 .. n : buf[j] = d[a + j]
  BY <1>2, <1>3 DEF Window
<1>5. buf[h - 1] = z
  <2>1. h - 1 \in 1 .. n /\ a + (h - 1) = a + h - 1 /\ a + h - 1 <= L
    BY <1>3
  <2>2. d[a + h - 1] = z
    BY <1>2, <2>1 DEF Written
  <2>3. QED
    BY <1>4, <2>1, <2>2
<1>6. buf[h] = FragmentType(g.first, g.last)
  <2>1. h \in 1 .. n /\ a + h <= L
    BY <1>3
  <2>2. d[a + h] = FragmentType(g.first, g.last)
    BY <1>2, <2>1 DEF Written
  <2>3. QED
    BY <1>4, <2>1, <2>2
<1>7. ASSUME NEW j \in 1 .. z PROVE buf[h + j] = g.record[g.from + j]
  <2>1. h + j \in 1 .. n /\ a + (h + j) = a + h + j /\ a + h + j <= L
    BY <1>3
  <2>2. d[a + h + j] = g.record[g.from + j]
    BY <1>2, <2>1 DEF Written
  <2>3. QED
    BY <1>4, <2>1, <2>2
<1>8. QED
  BY <1>2, <1>3, <1>5, <1>6, <1>7 DEF Holds

\* What the fragment carries.
Carried(g) == SubSeq(g.record, g.from + 1, g.from + g.size)

\* A fragment's part of its record.
LEMMA CarriedIs ==
    ASSUME NEW g, FragmentOK(g)
    PROVE  /\ Carried(g) \in Seq(Nat) /\ Len(Carried(g)) = g.size
           /\ \A j \in 1 .. g.size : Carried(g)[j] = g.record[g.from + j]
<1>1. /\ g.size \in Nat /\ g.from \in Nat /\ g.record \in Seq(Nat) /\ Len(g.record) \in Nat
      /\ g.from + g.size <= Len(g.record)
  BY FragmentFields DEF FragmentOK
<1>2. PICK z \in Nat, k \in Nat, r \in Seq(Nat) : z = g.size /\ k = g.from /\ r = g.record
  BY <1>1
<1>3. k + z <= Len(r) /\ Len(r) \in Nat
  BY <1>1, <1>2
<1> DEFINE a == k + 1
           b == k + z
           c == SubSeq(r, a, b)
<1>4. Carried(g) = c
  BY <1>2 DEF Carried
<1>5. a \in Int /\ b \in Int /\ \A i \in a .. b : i \in 1 .. Len(r)
  BY <1>3
<1>6. \A i \in a .. b : r[i] \in Nat
  BY <1>5
<1>7. b - a + 1 = z /\ (a <= b \/ z = 0)
  OBVIOUS
<1> HIDE DEF a, b
<1>8. /\ c \in Seq(Nat) /\ Len(c) = (IF a <= b THEN b - a + 1 ELSE 0)
      /\ \A i \in 1 .. b - a + 1 : c[i] = r[a + i - 1]
  BY <1>5, <1>6, SubSeqProperties
<1> HIDE DEF c
<1>9. Len(c) = z
  BY <1>5, <1>7, <1>8
<1>10. ASSUME NEW j \in 1 .. z PROVE c[j] = r[k + j]
  <2>1. j \in 1 .. b - a + 1 /\ a + j - 1 = k + j
    BY <1>7 DEF a
  <2>2. QED
    BY <1>8, <2>1
<1>11. QED
  BY <1>2, <1>4, <1>8, <1>9, <1>10

\* The payload in the buffer is that part.
LEMMA HoldsCarried ==
    ASSUME NEW buf \in Seq(Nat), NEW g, FragmentOK(g), Holds(buf, g)
    PROVE  SubSeq(buf, HeaderSize + 1, HeaderSize + g.size) = Carried(g)
<1>1. g.size \in Nat
  BY FragmentFields DEF FragmentOK
<1>2. PICK z \in Nat, h \in Nat : z = g.size /\ h = HeaderSize
  BY <1>1, Sizes_
<1>3. h + z <= Len(buf) /\ Len(buf) \in Nat
  BY <1>2, LenProperties DEF Holds
<1> DEFINE a == h + 1
           b == h + z
           c == SubSeq(buf, a, b)
           e == Carried(g)
<1>4. e \in Seq(Nat) /\ Len(e) = z /\ \A j \in 1 .. z : e[j] = g.record[g.from + j]
  BY <1>2, CarriedIs
<1> HIDE DEF e
<1>5. a \in Int /\ b \in Int /\ \A i \in a .. b : i \in 1 .. Len(buf)
  BY <1>3
<1>6. \A i \in a .. b : buf[i] \in Nat
  BY <1>5
<1>7. b - a + 1 = z /\ (a <= b \/ z = 0)
  OBVIOUS
<1> HIDE DEF a, b
<1>8. /\ c \in Seq(Nat) /\ Len(c) = (IF a <= b THEN b - a + 1 ELSE 0)
      /\ \A i \in 1 .. b - a + 1 : c[i] = buf[a + i - 1]
  BY <1>5, <1>6, SubSeqProperties
<1> HIDE DEF c
<1>9. Len(c) = z
  BY <1>5, <1>7, <1>8
<1>10. ASSUME NEW j \in 1 .. Len(c) PROVE c[j] = e[j]
  <2>1. j \in 1 .. b - a + 1 /\ a + j - 1 = h + j /\ j \in 1 .. z
    BY <1>7, <1>9 DEF a
  <2>2. buf[h + j] = g.record[g.from + j]
    BY <1>2, <2>1 DEF Holds
  <2>3. QED
    BY <1>4, <1>8, <2>1, <2>2
<1>11. c = e
  BY <1>4, <1>8, <1>9, <1>10, SeqEqual
<1>12. QED
  BY <1>2, <1>11 DEF a, b, c, e

\* A fragment is read, or passed over because it begins before the offset.
Consumes(g) ==
    /\ HeaderSize + g.size <= Len(buffer)
    /\ ReadPhysicalRecord.buffer = From(buffer, HeaderSize + g.size)
    /\ ReadPhysicalRecord.drop = 0

Gets(g) ==
    /\ Consumes(g)
    /\ ReadPhysicalRecord.type = FragmentType(g.first, g.last)
    /\ ReadPhysicalRecord.fragment = Carried(g)
    /\ PhysicalRecordOffset(ReadPhysicalRecord) = g.at
    /\ g.at >= initial_offset

Skips(g) ==
    /\ Consumes(g)
    /\ ReadPhysicalRecord.type = kBadRecord
    /\ g.at < initial_offset

\* The types of fragments are none of the codes of an end or a bad record.
LEMMA TypeIs ==
    ASSUME NEW b \in BOOLEAN, NEW e \in BOOLEAN
    PROVE  /\ FragmentType(b, e) # kZeroType /\ FragmentType(b, e) # kEof /\ FragmentType(b, e) # kBadRecord
           /\ FragmentType(b, e) \in {kFullType, kFirstType, kMiddleType, kLastType}
           /\ FragmentType(b, e) = kFullType <=> b /\ e
           /\ FragmentType(b, e) = kFirstType <=> b /\ ~e
           /\ FragmentType(b, e) = kMiddleType <=> ~b /\ ~e
           /\ FragmentType(b, e) = kLastType <=> ~b /\ e
<1> USE DEF FragmentType, kZeroType, kEof, kBadRecord, kMaxRecordType, kFullType, kFirstType, kMiddleType, kLastType
<1>1. CASE b /\ e
  BY <1>1
<1>2. CASE b /\ ~e
  BY <1>2
<1>3. CASE ~b /\ e
  BY <1>3
<1>4. CASE ~b /\ ~e
  BY <1>4
<1>5. QED
  BY <1>1, <1>2, <1>3, <1>4

\* An offset below the modulus is what the code computes.
LEMMA WrapIs ==
    ASSUME NEW n \in Nat, n < SizeModulus
    PROVE  Wrap(n) = n
BY ModulusAssumption DEF Wrap

\* ReadPhysicalRecord at a fragment: the fragment, or kBadRecord when it begins before the offset.
LEMMA ReadsFragment ==
    ASSUME buffer \in Seq(Nat), NEW g, FragmentOK(g), Holds(buffer, g), end_of_buffer_offset \in Nat,
           end_of_buffer_offset - Len(buffer) = g.at, g.at < SizeModulus, initial_offset \in Nat
    PROVE  Gets(g) \/ Skips(g)
<1> DEFINE length == LengthOf(buffer)
           rest == From(buffer, HeaderSize + length)
           Nothing(type) == [type |-> type, fragment |-> << >>, buffer |-> << >>, drop |-> 0]
           n == Len(buffer)
           part == SubSeq(buffer, HeaderSize + 1, HeaderSize + length)
           P == ReadPhysicalRecord
<1>1. /\ g.at \in Nat /\ g.size \in Nat /\ g.first \in BOOLEAN /\ g.last \in BOOLEAN
  BY FragmentFields DEF FragmentOK
<1>2. n \in Nat /\ HeaderSize \in Nat /\ 2 <= HeaderSize
  BY LenProperties, Sizes_
<1>3. length = g.size /\ TypeOf(buffer) = FragmentType(g.first, g.last) /\ HeaderSize + g.size <= n
  BY DEF Holds, LengthOf, TypeOf
<1>4. part = Carried(g)
  BY <1>3, HoldsCarried
<1>5. TypeOf(buffer) # kZeroType
  BY <1>1, <1>3, TypeIs
<1>6. Wrap(end_of_buffer_offset - Len(buffer)) = g.at
  BY <1>1, WrapIs
<1>7. P = IF g.at < initial_offset
          THEN [Nothing(kBadRecord) EXCEPT !.buffer = rest]
          ELSE [type |-> TypeOf(buffer), fragment |-> part, buffer |-> rest, drop |-> 0]
  <2>1. ~(n < HeaderSize) /\ ~(HeaderSize + length > n) /\ n >= HeaderSize /\ HeaderSize + length <= n
    BY <1>1, <1>2, <1>3
  <2>2. QED
    BY <1>5, <1>6, <2>1 DEF ReadPhysicalRecord
<1>8. rest = From(buffer, HeaderSize + g.size)
  BY <1>3
<1> HIDE DEF length, part, rest
<1>9. CASE g.at < initial_offset
  <2>1. P.buffer = rest /\ P.drop = 0 /\ P.type = kBadRecord
    BY <1>7, <1>9
  <2>2. QED
    BY <1>3, <1>8, <1>9, <2>1 DEF Skips, Consumes
<1>10. CASE ~(g.at < initial_offset)
  <2>1. P.buffer = rest /\ P.drop = 0 /\ P.type = FragmentType(g.first, g.last) /\ P.fragment = Carried(g)
    BY <1>3, <1>4, <1>7, <1>10
  <2>2. Len(P.fragment) = g.size
    BY <2>1, CarriedIs
  <2>3. Len(P.buffer) = n - (HeaderSize + g.size)
    <3> DEFINE k == HeaderSize + g.size
    <3>1. k \in 0 .. n
      BY <1>1, <1>2, <1>3
    <3> HIDE DEF k
    <3>2. Len(From(buffer, k)) = n - k
      BY <3>1, FromIs
    <3>3. QED
      BY <1>8, <2>1, <3>2 DEF k
  <2>4. end_of_buffer_offset - Len(P.buffer) - HeaderSize - Len(P.fragment) = g.at
    <3> HIDE DEF n, P
    <3>1. end_of_buffer_offset - n = g.at
      BY DEF n
    <3>2. QED
      BY <1>1, <1>2, <2>2, <2>3, <3>1
  <2>5. PhysicalRecordOffset(P) = g.at
    BY <1>1, <2>4, WrapIs DEF PhysicalRecordOffset
  <2>6. g.at >= initial_offset
    BY <1>1, <1>10
  <2>7. QED
    BY <1>3, <1>8, <2>1, <2>5, <2>6 DEF Gets, Consumes
<1>11. QED
  BY <1>9, <1>10

\* A fragment that the file has only a part of is the end of the file.
LEMMA ReadsEnd ==
    ASSUME buffer \in Seq(Nat),
           \/ Len(buffer) < HeaderSize
           \/ Len(buffer) >= HeaderSize /\ eof /\ LengthOf(buffer) \in Nat
                /\ HeaderSize + LengthOf(buffer) > Len(buffer)
    PROVE  ReadPhysicalRecord.type = kEof
<1>1. Len(buffer) \in Nat /\ HeaderSize \in Nat
  BY LenProperties, Sizes_
<1> DEFINE length == LengthOf(buffer)
           rest == From(buffer, HeaderSize + length)
           Nothing(type) == [type |-> type, fragment |-> << >>, buffer |-> << >>, drop |-> 0]
           P == ReadPhysicalRecord
<1>2. Nothing(kEof).type = kEof
  OBVIOUS
<1>3. CASE Len(buffer) < HeaderSize
  <2>1. P = Nothing(kEof)
    BY <1>1, <1>3 DEF ReadPhysicalRecord
  <2>2. QED
    BY <1>2, <2>1
<1>4. CASE Len(buffer) >= HeaderSize /\ eof /\ length \in Nat /\ HeaderSize + length > Len(buffer)
  <2>1. ~(Len(buffer) < HeaderSize) /\ ~(HeaderSize + length <= Len(buffer))
    <3> HIDE DEF length
    <3>1. QED
      BY <1>1, <1>4
  <2>2. P = IF eof THEN Nothing(kEof) ELSE [Nothing(kBadRecord) EXCEPT !.drop = Len(buffer)]
    BY <1>4, <2>1 DEF ReadPhysicalRecord
  <2>3. QED
    BY <1>2, <1>4, <2>2
<1>5. QED
  BY <1>3, <1>4

\* What a reader that has come to a fragment reads.
LEMMA AtFragment ==
    ASSUME NEW F, NEW whole, Layout(F, contents, log, whole), ReaderTypeOK, NEW i \in 1 .. Len(F),
           Following(F, i), Len(buffer) >= HeaderSize \/ eof, Len(contents) < SizeModulus
    PROVE  \/ Gets(F[i]) \/ Skips(F[i])
           \/ ReadPhysicalRecord.type = kEof /\ Place(F, i).rec > Len(log)
<1> DEFINE s == Place(F, i)
           g == F[i]
           n == Len(buffer)
           L == Len(contents)
<1>1. /\ FragmentOK(g) /\ g \in Fragment /\ Takes(s, g) /\ Written(contents, g)
      /\ Belongs(g, contents, log) /\ LogOK(contents, log) /\ log \in Seq(Entry)
  BY LayoutParts
<1>2. /\ Standing(n, pos, eof, s, L) /\ Window(buffer, contents, pos) /\ end_of_buffer_offset = pos
  BY DEF Following
<1>3. /\ contents \in Seq(Nat) /\ buffer \in Seq(Nat) /\ pos \in Nat /\ eof \in BOOLEAN
      /\ initial_offset \in Nat
  BY DEF ReaderTypeOK
<1>4. n \in Nat /\ L \in Nat /\ HeaderSize \in Nat /\ g.at \in Nat /\ g.size \in Nat /\ g.rec \in Nat \ {0}
      /\ End(g) \in Nat /\ s.at = g.at /\ s.rec = g.rec /\ Len(log) \in Nat /\ 2 <= HeaderSize
  BY <1>1, <1>3, FragmentFields, LenProperties, Sizes_ DEF Takes
<1> HIDE DEF s, g
<1>5. CASE HeaderSize + g.size <= n
  <2>1. n >= HeaderSize
    BY <1>4, <1>5
  <2>2. pos - n = s.at /\ pos <= L
    BY <1>2, <2>1 DEF Standing
  <2>3. Holds(buffer, g)
    BY <1>1, <1>2, <1>3, <1>4, <1>5, <2>2, WindowHolds
  <2>4. end_of_buffer_offset \in Nat /\ end_of_buffer_offset - n = g.at
    BY <1>2, <1>3, <1>4, <2>2
  <2>5. g.at < SizeModulus
    <3>1. PICK a \in Nat, h \in Nat, M \in Nat : a = g.at /\ h = HeaderSize /\ M = SizeModulus
      BY <1>4, ModulusAssumption
    <3>2. pos - n = a /\ pos <= L /\ n >= h /\ L < M
      BY <1>4, <2>1, <2>2, <3>1
    <3> HIDE DEF n, L
    <3>3. a < M
      BY <1>3, <1>4, <3>2
    <3>4. QED
      BY <3>1, <3>3
  <2>6. Gets(g) \/ Skips(g)
    BY <1>1, <1>3, <2>3, <2>4, <2>5, ReadsFragment
  <2>7. QED
    BY <2>6 DEF g
<1>6. CASE ~(HeaderSize + g.size <= n)
  <2>1. eof /\ End(g) > L
    BY <1>1, <1>2, <1>3, <1>4, <1>6, StandingCut
  <2>2. g.rec > Len(log)
    <3>1. SUFFICES ASSUME g.rec <= Len(log) PROVE FALSE
      BY <1>4
    <3> DEFINE r == g.rec
    <3>2. r \in 1 .. Len(log)
      BY <1>4, <3>1
    <3>3. End(g) <= log[r].end
      BY <1>1, <3>1 DEF Belongs
    <3> HIDE DEF r
    <3>4. log[r].end \in Nat /\ log[r].end <= L
      BY <1>1, <3>2, EntryFields DEF LogOK
    <3> HIDE DEF L
    <3>5. QED
      BY <1>4, <2>1, <3>3, <3>4
  <2>3. ReadPhysicalRecord.type = kEof
    <3>1. CASE n < HeaderSize
      BY <1>3, <3>1, ReadsEnd
    <3>2. CASE ~(n < HeaderSize)
      <4>1. n >= HeaderSize
        BY <1>4, <3>2
      <4>2. pos - n = g.at /\ pos <= L
        BY <1>2, <1>4, <4>1 DEF Standing
      <4>3. LengthOf(buffer) = g.size
        <5>1. PICK a \in Nat, h \in Nat : a = g.at /\ h = HeaderSize /\ 2 <= h
          BY <1>4
        <5> DEFINE k == h - 1
        <5>2. k \in 1 .. n /\ (pos - n) + k = a + h - 1 /\ a + h - 1 <= L
          <6>1. pos - n = a /\ n >= h /\ pos <= L /\ 2 <= h
            BY <4>1, <4>2, <5>1
          <6> HIDE DEF n, L
          <6>2. QED
            BY <1>3, <1>4, <6>1
        <5> HIDE DEF k
        <5>3. buffer[k] = contents[a + h - 1]
          BY <1>2, <5>2 DEF Window
        <5>4. contents[a + h - 1] = g.size
          BY <1>1, <5>1, <5>2 DEF Written
        <5>5. QED
          BY <5>1, <5>3, <5>4 DEF LengthOf, k
      <4>4. HeaderSize + LengthOf(buffer) > n /\ LengthOf(buffer) \in Nat
        <5>1. HeaderSize + g.size > n
          BY <1>4, <1>6
        <5>2. QED
          BY <1>4, <4>3, <5>1
      <4>5. QED
        BY <1>3, <2>1, <4>1, <4>4, ReadsEnd
    <3>3. QED
      BY <3>1, <3>2
  <2>4. QED
    BY <1>4, <2>2, <2>3 DEF s
<1>7. QED
  BY <1>5, <1>6

\* What one reads that has come behind the last fragment of a whole log.
LEMMA AtEnd ==
    ASSUME NEW F, Layout(F, contents, log, TRUE), ReaderTypeOK, Following(F, Len(F) + 1),
           Len(buffer) >= HeaderSize \/ eof
    PROVE  ReadPhysicalRecord.type = kEof /\ Place(F, Len(F) + 1).rec > Len(log)
<1> DEFINE s == Place(F, Len(F) + 1)
           n == Len(buffer)
           L == Len(contents)
<1>1. /\ Standing(n, pos, eof, s, L) /\ L <= s.at
  BY DEF Following, Layout
<1>2. /\ contents \in Seq(Nat) /\ buffer \in Seq(Nat) /\ pos \in Nat
  BY DEF ReaderTypeOK
<1>3. SpotOK(s)
  <2>1. F \in Seq(Fragment) /\ Len(F) \in Nat /\ FragmentsOK(F, contents, log)
    BY LayoutParts
  <2>2. Len(F) + 1 \in 1 .. Len(F) + 1
    BY <2>1
  <2>3. QED
    BY <2>1, <2>2, PlaceOK
<1>4. n \in Nat /\ L \in Nat /\ HeaderSize \in Nat /\ 2 <= HeaderSize /\ s.at \in Nat
  BY <1>2, <1>3, LenProperties, Sizes_ DEF SpotOK, Spot
<1>5. n < HeaderSize
  <2>1. SUFFICES ASSUME n >= HeaderSize PROVE FALSE
    BY <1>4
  <2>2. pos - n = s.at /\ pos <= L
    BY <1>1, <2>1 DEF Standing
  <2> HIDE DEF n, s, L
  <2>3. QED
    BY <1>1, <1>2, <1>4, <2>1, <2>2
<1>6. ReadPhysicalRecord.type = kEof
  BY <1>2, <1>5, ReadsEnd
<1>7. QED
  BY <1>6, LastPlace

\* What is so when the reader has consumed the i-th fragment.
Moved(F, i) ==
    /\ i + 1 \in 1 .. Len(F) + 1 /\ Place(F, i + 1) = After(F[i])
    /\ After(F[i]).rec <= Len(log) + 1
    /\ Window(ReadPhysicalRecord.buffer, contents, pos)
    /\ Standing(Len(ReadPhysicalRecord.buffer), pos, eof, After(F[i]), Len(contents))
    /\ F[i].last => F[i].rec <= Len(log)

\* A reader that consumes a fragment has come to the next one.
LEMMA Moves ==
    ASSUME NEW F, NEW whole, Layout(F, contents, log, whole), ReaderTypeOK, NEW i \in 1 .. Len(F),
           Following(F, i), Consumes(F[i])
    PROVE  Moved(F, i)
<1> DEFINE s == Place(F, i)
           g == F[i]
           n == Len(buffer)
           L == Len(contents)
           k == HeaderSize + g.size
<1>1. /\ FragmentOK(g) /\ g \in Fragment /\ Takes(s, g) /\ Len(F) \in Nat
      /\ Belongs(g, contents, log) /\ LogOK(contents, log) /\ log \in Seq(Entry)
  BY LayoutParts
<1>2. /\ Standing(n, pos, eof, s, L) /\ Window(buffer, contents, pos) /\ s.rec <= Len(log) + 1
  BY DEF Following
<1>3. /\ contents \in Seq(Nat) /\ buffer \in Seq(Nat) /\ pos \in Nat /\ eof \in BOOLEAN
  BY DEF ReaderTypeOK
<1>4. n \in Nat /\ L \in Nat /\ HeaderSize \in Nat /\ g.at \in Nat /\ g.size \in Nat /\ g.rec \in Nat \ {0}
      /\ End(g) \in Nat /\ s.rec = g.rec /\ Len(log) \in Nat /\ 2 <= HeaderSize
  BY <1>1, <1>3, FragmentFields, LenProperties, Sizes_ DEF Takes
<1>5. i + 1 \in 1 .. Len(F) + 1 /\ i + 1 # 1 /\ (i + 1) - 1 = i
  BY <1>1
<1>6. Place(F, i + 1) = After(g)
  BY <1>5 DEF Place
<1>7. k <= n /\ ReadPhysicalRecord.buffer = From(buffer, k)
  BY DEF Consumes
<1> HIDE DEF s, g
<1>8. k \in 0 .. n /\ n >= HeaderSize
  BY <1>4, <1>7
<1>9. Standing(n - k, pos, eof, After(g), L) /\ End(g) <= pos
  BY <1>1, <1>2, <1>3, <1>4, <1>7, <1>8, StandingNext
<1>10. pos <= L
  BY <1>2, <1>8 DEF Standing
<1> HIDE DEF k
<1>11. Window(From(buffer, k), contents, pos) /\ Len(From(buffer, k)) = n - k
  BY <1>2, <1>3, <1>8, WindowNext
<1>12. g.last => g.rec <= Len(log)
  <2>1. End(g) <= L
    <3> HIDE DEF n, L
    <3>1. QED
      BY <1>3, <1>4, <1>9, <1>10
  <2>2. ~(End(g) > L)
    <3> HIDE DEF n, L
    <3>1. QED
      BY <1>4, <2>1
  <2>3. ~(g.last /\ g.rec > Len(log))
    BY <1>1, <2>2 DEF Belongs
  <2>4. QED
    BY <1>4, <2>3
<1>13. After(g).rec <= Len(log) + 1
  <2>1. CASE g.last
    <3>1. After(g).rec = g.rec + 1
      BY <2>1 DEF After
    <3>2. QED
      BY <1>4, <1>12, <2>1, <3>1
  <2>2. CASE ~g.last
    <3>1. After(g).rec = g.rec
      BY <2>2 DEF After
    <3>2. QED
      BY <1>2, <1>4, <3>1
  <2>3. QED
    BY <2>1, <2>2
<1>14. QED
  BY <1>5, <1>6, <1>7, <1>9, <1>11, <1>12, <1>13 DEF Moved, g

\* What a turn that consumes it comes to.
LEMMA FollowsOn ==
    ASSUME NEW F, NEW i, Moved(F, i), Following(F, i), Turn(ReadPhysicalRecord), log' = log,
           Len(out') = Count(After(F[i]).rec - 1, Passed),
           HasReturned(out', last_record_offset', log, Passed),
           initial_offset = 0 => reports' = 0,
           \/ reading' = "call" /\ Assembled(in_fragmented_record', scratch', prospective_record_offset',
                                             resyncing', After(F[i]), initial_offset)
           \/ reading' = "idle" /\ F[i].last /\ out' # << >>
    PROVE  Following(F, i + 1)'
<1>1. /\ contents' = contents /\ initial_offset' = initial_offset /\ pos' = pos /\ eof' = eof
      /\ end_of_buffer_offset' = end_of_buffer_offset /\ buffer' = ReadPhysicalRecord.buffer
  BY DEF Turn, fileVars
<1>2. Passed' = Passed
  BY <1>1, PassedSame
<1>3. /\ i + 1 \in 1 .. Len(F) + 1 /\ Place(F, i + 1) = After(F[i])
      /\ After(F[i]).rec <= Len(log) + 1
      /\ Window(buffer', contents', pos')
      /\ Standing(Len(buffer'), pos', eof', After(F[i]), Len(contents'))
  BY <1>1 DEF Moved
<1>4. end_of_buffer_offset' = pos'
  BY <1>1 DEF Following
<1>5. After(F[i]).first = F[i].last
  BY DEF After
<1> DEFINE s == Place(F, i + 1)
<1>6. s = After(F[i])
  BY <1>3
<1> HIDE DEF s
<1>7. /\ s.rec <= Len(log') + 1 /\ Len(out') = Count(s.rec - 1, Passed')
      /\ HasReturned(out', last_record_offset', log', Passed')
      /\ Standing(Len(buffer'), pos', eof', s, Len(contents'))
      /\ initial_offset' = 0 => reports' = 0
  BY <1>1, <1>2, <1>3, <1>6
<1>8. \/ reading' = "call" /\ Assembled(in_fragmented_record', scratch', prospective_record_offset',
                                        resyncing', s, initial_offset')
      \/ reading' = "idle" /\ s.first /\ out' # << >>
  BY <1>1, <1>5, <1>6
<1>9. QED
  BY <1>3, <1>4, <1>7, <1>8 DEF Following, s

\* The records returned after a fragment that no record ends with, or one of a
\* record before the offset.
LEMMA PassesOver ==
    ASSUME NEW F, NEW whole, Layout(F, contents, log, whole), ReaderTypeOK, NEW i \in 1 .. Len(F),
           Following(F, i), Moved(F, i), F[i].last => F[i].start < initial_offset
    PROVE  Len(out) = Count(After(F[i]).rec - 1, Passed)
<1> DEFINE g == F[i]
           r == g.rec
           K == Passed
<1>1. /\ g \in Fragment /\ Takes(Place(F, i), g) /\ Belongs(g, contents, log) /\ LogOK(contents, log)
  BY LayoutParts
<1>2. initial_offset \in Nat
  BY DEF ReaderTypeOK
<1>3. /\ K \in Nat /\ Len(log) \in Nat /\ \A q \in 1 .. Len(log) : q <= K <=> log[q].start < initial_offset
  BY <1>1, <1>2, PassedIs
<1>4. r \in Nat \ {0} /\ Place(F, i).rec = r
  BY <1>1, FragmentFields DEF Takes
<1>5. Len(out) = Count(r - 1, K)
  BY <1>4 DEF Following
<1>6. CASE ~g.last
  <2>1. After(g).rec = r
    BY <1>6 DEF After
  <2>2. QED
    BY <1>5, <2>1
<1>7. CASE g.last
  <2>1. r <= Len(log) /\ g.start < initial_offset
    BY <1>7 DEF Moved
  <2>2. r \in 1 .. Len(log)
    BY <1>3, <1>4, <2>1
  <2>3. log[r].start = g.start
    BY <1>1, <2>1 DEF Belongs
  <2>4. r <= K
    BY <1>3, <2>1, <2>2, <2>3
  <2>5. After(g).rec = r + 1
    BY <1>7 DEF After
  <2> HIDE DEF r, K
  <2>6. Count(r - 1, K) = 0 /\ Count((r + 1) - 1, K) = 0
    BY <1>3, <1>4, <2>4 DEF Count
  <2>7. QED
    BY <1>5, <2>5, <2>6 DEF K
<1>8. QED
  BY <1>6, <1>7

\* The records returned with the one that a fragment is the last of.
LEMMA ReturnsIt ==
    ASSUME NEW F, NEW whole, Layout(F, contents, log, whole), ReaderTypeOK, NEW i \in 1 .. Len(F),
           Following(F, i), Moved(F, i), F[i].last, F[i].start >= initial_offset
    PROVE  /\ Len(Append(out, F[i].record)) = Count(After(F[i]).rec - 1, Passed)
           /\ HasReturned(Append(out, F[i].record), F[i].start, log, Passed)
           /\ Append(out, F[i].record) # << >>
<1> DEFINE g == F[i]
           r == g.rec
           K == Passed
           e == Append(out, g.record)
           n == Len(out)
<1>1. /\ g \in Fragment /\ Takes(Place(F, i), g) /\ Belongs(g, contents, log) /\ LogOK(contents, log)
  BY LayoutParts
<1>2. initial_offset \in Nat /\ out \in Seq(Seq(Nat)) /\ n \in Nat
  BY LenProperties DEF ReaderTypeOK
<1>3. /\ K \in Nat /\ Len(log) \in Nat /\ \A q \in 1 .. Len(log) : q <= K <=> log[q].start < initial_offset
  BY <1>1, <1>2, PassedIs
<1>4. r \in Nat \ {0} /\ Place(F, i).rec = r /\ g.start \in Nat /\ g.record \in Seq(Nat)
  BY <1>1, FragmentFields DEF Takes
<1>5. n = Count(r - 1, K) /\ HasReturned(out, last_record_offset, log, K)
  BY <1>4 DEF Following
<1>6. r <= Len(log)
  BY DEF Moved
<1>7. r \in 1 .. Len(log)
  BY <1>3, <1>4, <1>6
<1>8. log[r].start = g.start /\ log[r].data = g.record
  BY <1>1, <1>6 DEF Belongs
<1>9. ~(r <= K)
  <2>1. ~(g.start < initial_offset)
    BY <1>2, <1>4
  <2>2. QED
    BY <1>3, <1>7, <1>8, <2>1
<1>10. After(g).rec = r + 1
  BY DEF After
<1>11. e \in Seq(Seq(Nat)) /\ Len(e) = n + 1 /\ e[n + 1] = g.record /\ \A j \in 1 .. n : e[j] = out[j]
  BY <1>2, <1>4, AppendProperties
<1> HIDE DEF e, r, K, g
<1>12. n = (r - 1) - K /\ Count((r + 1) - 1, K) = r - K /\ n + 1 = r - K
  <2> HIDE DEF n
  <2>1. n = (r - 1) - K
    BY <1>3, <1>4, <1>5, <1>9 DEF Count
  <2>2. Count((r + 1) - 1, K) = r - K
    BY <1>3, <1>4, <1>9 DEF Count
  <2>3. QED
    BY <1>3, <1>4, <2>1, <2>2
<1>13. K + (n + 1) = r /\ n + 1 <= Len(log) - K
  <2> HIDE DEF n
  <2>1. QED
    BY <1>2, <1>3, <1>4, <1>6, <1>12
<1>14. ASSUME NEW j \in 1 .. Len(e) PROVE e[j] = log[K + j].data
  <2>1. j \in 1 .. n \/ j = n + 1
    <3> HIDE DEF n
    <3>1. QED
      BY <1>2, <1>11
  <2>2. CASE j \in 1 .. n
    BY <1>5, <1>11, <2>2 DEF HasReturned
  <2>3. CASE j = n + 1
    BY <1>8, <1>11, <1>13, <2>3
  <2>4. QED
    BY <2>1, <2>2, <2>3
<1>15. HasReturned(e, g.start, log, K)
  BY <1>8, <1>11, <1>13, <1>14 DEF HasReturned
<1>16. Len(e) = Count(After(g).rec - 1, K)
  BY <1>10, <1>11, <1>12
<1>17. e # << >>
  <2>1. Len(e) # 0
    BY <1>2, <1>11
  <2>2. QED
    BY <2>1
<1>18. QED
  BY <1>15, <1>16, <1>17 DEF e, g, K

\* The first bytes of a record with the ones of its next fragment.
LEMMA CarriedOn ==
    ASSUME NEW g, FragmentOK(g)
    PROVE  /\ SubSeq(g.record, 1, g.from) \o Carried(g) = SubSeq(g.record, 1, g.from + g.size)
           /\ g.last => SubSeq(g.record, 1, g.from + g.size) = g.record
           /\ g.first => Carried(g) = SubSeq(g.record, 1, g.from + g.size)
<1>1. /\ g.size \in Nat /\ g.from \in Nat /\ g.record \in Seq(Nat) /\ Len(g.record) \in Nat
      /\ g.from + g.size <= Len(g.record) /\ (g.last => g.from + g.size = Len(g.record))
      /\ (g.first => g.from = 0)
  BY FragmentFields DEF FragmentOK
<1>2. PICK z \in Nat, k \in Nat, r \in Seq(Nat) : z = g.size /\ k = g.from /\ r = g.record
  BY <1>1
<1>3. k + z <= Len(r) /\ Len(r) \in Nat
  BY <1>1, <1>2
<1>4. 1 \in 1 .. Len(r) + 1 /\ k \in 1 - 1 .. Len(r) /\ k + z \in k .. Len(r)
  BY <1>3
<1> DEFINE m == k + z
<1>5. m \in k .. Len(r)
  BY <1>4
<1> HIDE DEF m
<1>6. SubSeq(r, 1, k) \o SubSeq(r, k + 1, m) = SubSeq(r, 1, m)
  BY <1>4, <1>5, ConcatAdjacentSubSeq
<1>7. g.last => SubSeq(r, 1, m) = r
  <2>1. SubSeq(r, 1, Len(r)) = r
    BY SubSeqFull
  <2>2. g.last => m = Len(r)
    BY <1>1, <1>2 DEF m
  <2>3. QED
    BY <2>1, <2>2
<1>8. g.first => SubSeq(r, k + 1, m) = SubSeq(r, 1, m)
  <2>1. g.first => k + 1 = 1
    BY <1>1, <1>2
  <2>2. QED
    BY <2>1
<1>9. QED
  BY <1>2, <1>6, <1>7, <1>8 DEF m, Carried

\* What is known at the i-th fragment, in a call.
LEMMA AtCall ==
    ASSUME NEW F, NEW whole, Layout(F, contents, log, whole), ReaderTypeOK, NEW i \in 1 .. Len(F),
           Following(F, i), reading = "call"
    PROVE  /\ FragmentOK(F[i]) /\ F[i].first \in BOOLEAN /\ F[i].last \in BOOLEAN
           /\ F[i].at \in Nat /\ F[i].start \in Nat /\ F[i].start <= F[i].at /\ initial_offset \in Nat
           /\ in_fragmented_record =>
                /\ ~F[i].first /\ scratch = SubSeq(F[i].record, 1, F[i].from)
                /\ prospective_record_offset = F[i].start /\ F[i].start >= initial_offset
           /\ ~in_fragmented_record => F[i].first \/ F[i].start < initial_offset
           /\ resyncing => ~in_fragmented_record
           /\ F[i].first => F[i].start = F[i].at
           /\ After(F[i]).first = F[i].last /\ After(F[i]).start = F[i].start
           /\ After(F[i]).record = F[i].record /\ (~F[i].last => After(F[i]).from = F[i].from + F[i].size)
           /\ initial_offset = 0 => reports = 0
           /\ HasReturned(out, last_record_offset, log, Passed)
<1> DEFINE s == Place(F, i)
           g == F[i]
<1>1. /\ FragmentOK(g) /\ g \in Fragment /\ Takes(s, g)
  BY LayoutParts
<1>2. /\ g.first \in BOOLEAN /\ g.last \in BOOLEAN /\ g.at \in Nat /\ g.start \in Nat /\ g.start <= g.at
      /\ g.first => g.start = g.at
  BY <1>1, FragmentFields DEF FragmentOK
<1>3. initial_offset \in Nat
  BY DEF ReaderTypeOK
<1>4. Assembled(in_fragmented_record, scratch, prospective_record_offset, resyncing, s, initial_offset)
      /\ (initial_offset = 0 => reports = 0) /\ HasReturned(out, last_record_offset, log, Passed)
  BY DEF Following
<1>5. /\ g.first = s.first /\ g.from = s.from /\ (~s.first => g.start = s.start /\ g.record = s.record)
  BY <1>1 DEF Takes
<1> HIDE DEF s, g
<1>6. in_fragmented_record =>
        /\ ~g.first /\ scratch = SubSeq(g.record, 1, g.from)
        /\ prospective_record_offset = g.start /\ g.start >= initial_offset
  BY <1>4, <1>5 DEF Assembled
<1>7. ~in_fragmented_record => g.first \/ g.start < initial_offset
  BY <1>4, <1>5 DEF Assembled
<1>8. resyncing => ~in_fragmented_record
  BY <1>4 DEF Assembled
<1>9. /\ After(g).first = g.last /\ After(g).start = g.start /\ After(g).record = g.record
      /\ (~g.last => After(g).from = g.from + g.size)
  BY DEF After
<1>10. QED
  BY <1>1, <1>2, <1>3, <1>4, <1>6, <1>7, <1>8, <1>9 DEF g

\* A turn that gets a fragment.
LEMMA GetsFollows ==
    ASSUME NEW F, NEW whole, Layout(F, contents, log, whole), ReaderTypeOK, NEW i \in 1 .. Len(F),
           Following(F, i), reading = "call", Gets(F[i]), log' = log,
           \/ Resync \/ ReadFull \/ ReadFirst \/ ReadOrphan \/ ReadMiddle \/ ReadLast
           \/ ReadEof \/ ReadBad \/ ReadUnknown
    PROVE  Following(F, i + 1)'
<1> DEFINE g == F[i]
           P == ReadPhysicalRecord
           a == After(g)
<1>1. Moved(F, i)
  BY Moves DEF Gets
<1>2. /\ FragmentOK(g) /\ g.first \in BOOLEAN /\ g.last \in BOOLEAN
      /\ g.at \in Nat /\ g.start \in Nat /\ g.start <= g.at /\ initial_offset \in Nat
      /\ in_fragmented_record =>
           /\ ~g.first /\ scratch = SubSeq(g.record, 1, g.from)
           /\ prospective_record_offset = g.start /\ g.start >= initial_offset
      /\ ~in_fragmented_record => g.first \/ g.start < initial_offset
      /\ resyncing => ~in_fragmented_record
      /\ g.first => g.start = g.at
      /\ a.first = g.last /\ a.start = g.start
      /\ a.record = g.record /\ (~g.last => a.from = g.from + g.size)
      /\ initial_offset = 0 => reports = 0
      /\ HasReturned(out, last_record_offset, log, Passed)
  BY AtCall
<1>3. /\ P.type = FragmentType(g.first, g.last) /\ P.fragment = Carried(g)
      /\ PhysicalRecordOffset(P) = g.at /\ g.at >= initial_offset
  BY DEF Gets
<1>4. /\ P.type # kEof /\ P.type # kBadRecord
      /\ P.type \in {kFullType, kFirstType, kMiddleType, kLastType}
      /\ P.type = kFullType <=> g.first /\ g.last
      /\ P.type = kFirstType <=> g.first /\ ~g.last
      /\ P.type = kMiddleType <=> ~g.first /\ ~g.last
      /\ P.type = kLastType <=> ~g.first /\ g.last
  BY <1>2, <1>3, TypeIs
<1>5. /\ SubSeq(g.record, 1, g.from) \o Carried(g) = SubSeq(g.record, 1, g.from + g.size)
      /\ g.last => SubSeq(g.record, 1, g.from + g.size) = g.record
      /\ g.first => Carried(g) = SubSeq(g.record, 1, g.from + g.size)
  BY <1>2, CarriedOn
<1>6. (g.last => g.start < initial_offset) => Len(out) = Count(a.rec - 1, Passed)
  BY <1>1, PassesOver
<1>7. (g.last /\ g.start >= initial_offset) =>
        /\ Len(Append(out, g.record)) = Count(a.rec - 1, Passed)
        /\ HasReturned(Append(out, g.record), g.start, log, Passed)
        /\ Append(out, g.record) # << >>
  BY <1>1, ReturnsIt
<1>8. ASSUME Turn(P), Len(out') = Count(a.rec - 1, Passed),
             HasReturned(out', last_record_offset', log, Passed),
             initial_offset = 0 => reports' = 0,
             \/ reading' = "call" /\ Assembled(in_fragmented_record', scratch', prospective_record_offset',
                                               resyncing', a, initial_offset)
             \/ reading' = "idle" /\ g.last /\ out' # << >>
      PROVE  Following(F, i + 1)'
  BY <1>1, <1>8, FollowsOn
<1> HIDE DEF g, P, a
<1>9. CASE ReadFull
  <2>1. /\ Turn(P) /\ P.type = kFullType /\ reports' = CutOff(P) /\ last_record_offset' = g.at
        /\ out' = Append(out, P.fragment) /\ reading' = "idle"
    BY <1>3, <1>9 DEF ReadFull, P
  <2>2. g.first /\ g.last
    BY <1>4, <2>1
  <2>3. g.start = g.at /\ ~in_fragmented_record /\ out' = Append(out, g.record) /\ g.start >= initial_offset
    BY <1>2, <1>3, <1>5, <2>1, <2>2
  <2>4. reports' = reports
    BY <2>1, <2>3 DEF CutOff
  <2>5. /\ Len(out') = Count(a.rec - 1, Passed) /\ HasReturned(out', last_record_offset', log, Passed)
        /\ out' # << >>
    BY <1>7, <2>1, <2>2, <2>3
  <2>6. QED
    BY <1>2, <1>8, <2>1, <2>2, <2>4, <2>5
<1>10. CASE ReadFirst
  <2>1. /\ Turn(P) /\ P.type = kFirstType /\ reports' = CutOff(P) /\ prospective_record_offset' = g.at
        /\ scratch' = P.fragment /\ in_fragmented_record' = TRUE /\ resyncing' = FALSE
        /\ last_record_offset' = last_record_offset /\ reading' = reading /\ out' = out
    BY <1>3, <1>10 DEF ReadFirst, P
  <2>2. g.first /\ ~g.last
    BY <1>4, <2>1
  <2>3. g.start = g.at /\ ~in_fragmented_record /\ g.start >= initial_offset
    BY <1>2, <1>3, <2>2
  <2>4. reports' = reports
    BY <2>1, <2>3 DEF CutOff
  <2>5. /\ Len(out') = Count(a.rec - 1, Passed) /\ HasReturned(out', last_record_offset', log, Passed)
    BY <1>2, <1>6, <2>1, <2>2
  <2>6. Assembled(in_fragmented_record', scratch', prospective_record_offset', resyncing', a, initial_offset)
    BY <1>2, <1>3, <1>5, <2>1, <2>2, <2>3 DEF Assembled
  <2>7. QED
    BY <1>2, <1>8, <2>1, <2>4, <2>5, <2>6
<1>11. CASE ReadMiddle
  <2>1. /\ Turn(P) /\ P.type = kMiddleType /\ in_fragmented_record
        /\ scratch' = scratch \o P.fragment
        /\ resyncing' = resyncing /\ in_fragmented_record' = in_fragmented_record
        /\ prospective_record_offset' = prospective_record_offset
        /\ last_record_offset' = last_record_offset /\ reading' = reading /\ out' = out /\ reports' = reports
    BY <1>11 DEF ReadMiddle, P
  <2>2. ~g.first /\ ~g.last
    BY <1>4, <2>1
  <2>3. scratch' = SubSeq(a.record, 1, a.from)
    BY <1>2, <1>3, <1>5, <2>1, <2>2
  <2>4. Assembled(in_fragmented_record', scratch', prospective_record_offset', resyncing', a, initial_offset)
    BY <1>2, <2>1, <2>2, <2>3 DEF Assembled
  <2>5. /\ Len(out') = Count(a.rec - 1, Passed) /\ HasReturned(out', last_record_offset', log, Passed)
    BY <1>2, <1>6, <2>1, <2>2
  <2>6. QED
    BY <1>2, <1>8, <2>1, <2>4, <2>5
<1>12. CASE ReadLast
  <2>1. /\ Turn(P) /\ P.type = kLastType /\ in_fragmented_record
        /\ scratch' = scratch \o P.fragment /\ out' = Append(out, scratch')
        /\ last_record_offset' = prospective_record_offset /\ reading' = "idle" /\ reports' = reports
    BY <1>12 DEF ReadLast, P
  <2>2. ~g.first /\ g.last
    BY <1>4, <2>1
  <2>3. scratch' = g.record /\ last_record_offset' = g.start /\ g.start >= initial_offset
    BY <1>2, <1>3, <1>5, <2>1, <2>2
  <2>4. /\ Len(out') = Count(a.rec - 1, Passed) /\ HasReturned(out', last_record_offset', log, Passed)
        /\ out' # << >>
    BY <1>7, <2>1, <2>2, <2>3
  <2>5. QED
    BY <1>2, <1>8, <2>1, <2>2, <2>4
<1>13. ASSUME Turn(P), P.type \in {kMiddleType, kLastType}, ~in_fragmented_record,
              UNCHANGED <<last_record_offset, fragmentVars, reading, out>>
       PROVE  Following(F, i + 1)'
  <2>1. ~g.first
    BY <1>4, <1>13
  <2>2. g.start < initial_offset /\ initial_offset # 0
    BY <1>2, <1>13, <2>1
  <2>3. /\ Len(out') = Count(a.rec - 1, Passed) /\ HasReturned(out', last_record_offset', log, Passed)
    BY <1>2, <1>6, <1>13, <2>2
  <2>4. in_fragmented_record' = in_fragmented_record /\ reading' = "call"
    BY <1>13 DEF fragmentVars
  <2>5. Assembled(in_fragmented_record', scratch', prospective_record_offset', resyncing', a, initial_offset)
    BY <1>2, <1>13, <2>2, <2>4 DEF Assembled
  <2>6. QED
    BY <1>8, <1>13, <2>2, <2>3, <2>4, <2>5
<1>14. CASE Resync
  <2>1. Turn(P) /\ P.type \in {kMiddleType, kLastType} /\ resyncing
        /\ UNCHANGED <<last_record_offset, fragmentVars, reading, out>>
    BY <1>14 DEF Resync, Resyncs, P
  <2>2. QED
    BY <1>2, <1>13, <2>1
<1>15. CASE ReadOrphan
  <2>1. Turn(P) /\ P.type \in {kMiddleType, kLastType} /\ ~in_fragmented_record
        /\ UNCHANGED <<last_record_offset, fragmentVars, reading, out>>
    BY <1>15 DEF ReadOrphan, P
  <2>2. QED
    BY <1>13, <2>1
<1>16. ~ReadEof /\ ~ReadBad /\ ~ReadUnknown
  BY <1>4 DEF ReadEof, ReadBad, ReadUnknown, P
<1>17. QED
  BY <1>9, <1>10, <1>11, <1>12, <1>14, <1>15, <1>16

\* A turn that passes over a fragment that lies before the offset.
LEMMA SkipsFollows ==
    ASSUME NEW F, NEW whole, Layout(F, contents, log, whole), ReaderTypeOK, NEW i \in 1 .. Len(F),
           Following(F, i), reading = "call", Skips(F[i]), log' = log,
           \/ Resync \/ ReadFull \/ ReadFirst \/ ReadOrphan \/ ReadMiddle \/ ReadLast
           \/ ReadEof \/ ReadBad \/ ReadUnknown
    PROVE  Following(F, i + 1)'
<1> DEFINE g == F[i]
           P == ReadPhysicalRecord
           a == After(g)
<1>1. Moved(F, i)
  BY Moves DEF Skips
<1>2. /\ g.at \in Nat /\ g.start \in Nat /\ g.start <= g.at /\ initial_offset \in Nat
      /\ a.start = g.start /\ HasReturned(out, last_record_offset, log, Passed)
  BY AtCall
<1>3. P.type = kBadRecord /\ g.at < initial_offset
  BY DEF Skips
<1>4. g.start < initial_offset /\ initial_offset # 0
  BY <1>2, <1>3
<1>5. Len(out) = Count(a.rec - 1, Passed)
  BY <1>1, <1>4, PassesOver
<1>6. ReadBad
  <2>1. P.type \notin {kFullType, kFirstType, kMiddleType, kLastType, kEof}
    BY <1>3 DEF kBadRecord, kEof, kMaxRecordType, kFullType, kFirstType, kMiddleType, kLastType
  <2>2. ~Resync /\ ~ReadFull /\ ~ReadFirst /\ ~ReadOrphan /\ ~ReadMiddle /\ ~ReadLast /\ ~ReadEof
    BY <2>1 DEF Resync, Resyncs, ReadFull, ReadFirst, ReadOrphan, ReadMiddle, ReadLast, ReadEof
  <2>3. ~ReadUnknown
    BY <1>3 DEF ReadUnknown
  <2>4. QED
    BY <2>2, <2>3
<1>7. /\ Turn(P) /\ resyncing' = FALSE /\ in_fragmented_record' = FALSE /\ reading' = "call"
      /\ out' = out /\ last_record_offset' = last_record_offset
  BY <1>6 DEF ReadBad
<1> HIDE DEF a, P
<1>8. Assembled(in_fragmented_record', scratch', prospective_record_offset', resyncing', a, initial_offset)
  BY <1>2, <1>4, <1>7 DEF Assembled
<1>9. QED
  BY <1>1, <1>2, <1>4, <1>5, <1>7, <1>8, FollowsOn DEF a, P

---------------------------------------------------------------------------
(* Where a reader begins.                                                  *)

\* Two blocks, one before the other.
LEMMA BlocksApart ==
    ASSUME NEW a \in Nat, NEW b \in Nat, IsBlock(a), IsBlock(b), a < b
    PROVE  a + BlockSize <= b
<1>1. PICK p \in Nat : a = BlockSize * p
  BY DEF IsBlock
<1>2. PICK q \in Nat : b = BlockSize * q
  BY DEF IsBlock
<1>3. PICK B \in Nat \ {0} : B = BlockSize
  BY Sizes_
<1>4. p < q
  <2>1. SUFFICES ASSUME q <= p PROVE FALSE
    OBVIOUS
  <2>2. PICK t \in Nat : p = q + t
    <3>1. p - q \in Nat /\ p = q + (p - q)
      BY <2>1
    <3>2. QED
      BY <3>1
  <2>3. a = (B * q) + (B * t) /\ B * t \in Nat /\ b = B * q /\ B * q \in Nat
    BY <1>1, <1>2, <1>3, <2>2
  <2>4. QED
    BY <2>3
<1>5. PICK t \in Nat : q = p + 1 + t
  <2>1. q - p - 1 \in Nat /\ q = p + 1 + (q - p - 1)
    BY <1>4
  <2>2. QED
    BY <2>1
<1>6. b = (B * p) + B + (B * t) /\ B * t \in Nat /\ a = B * p /\ B * p \in Nat
  BY <1>1, <1>2, <1>3, <1>5
<1>7. QED
  BY <1>3, <1>6

\* A fragment in a block before the one that a reader with offset o skips to
\* begins before the offset.
LEMMA BeforeOffset ==
    ASSUME NEW g, FragmentOK(g), NEW b \in Nat, IsBlock(b), NEW o \in Nat, b < o + HeaderSize, g.base < b
    PROVE  g.base + BlockSize <= b /\ g.at < o /\ g.start < o /\ g.at < b
<1>1. /\ g.base \in Nat /\ g.at \in Nat /\ g.size \in Nat /\ g.start \in Nat /\ IsBlock(g.base)
      /\ g.at + HeaderSize + g.size <= g.base + BlockSize /\ g.start <= g.at
  BY FragmentFields DEF FragmentOK, End
<1>2. g.base + BlockSize <= b
  BY <1>1, BlocksApart
<1>3. PICK c \in Nat, a \in Nat, z \in Nat, s \in Nat, h \in Nat, B \in Nat :
           /\ c = g.base /\ a = g.at /\ z = g.size /\ s = g.start /\ h = HeaderSize /\ B = BlockSize
  BY <1>1, Sizes_
<1>4. a + h + z <= c + B /\ s <= a /\ c + B <= b /\ b < o + h /\ 2 <= h
  BY <1>1, <1>2, <1>3, Sizes_
<1>5. a < o /\ s < o /\ a < b
  BY <1>4
<1>6. QED
  BY <1>2, <1>3, <1>5

\* A record of the log begins with some fragment.
LEMMA RecordFragment ==
    ASSUME NEW F, NEW d, NEW lg, NEW whole, Layout(F, d, lg, whole), NEW r \in 1 .. Len(lg)
    PROVE  \E j \in 1 .. Len(F) : /\ FragmentOK(F[j]) /\ F[j].rec = r /\ lg[r].start = F[j].start
                                  /\ End(F[j]) = lg[r].end
<1>1. /\ Len(lg) \in Nat /\ FragmentsOK(F, d, lg)
      /\ \A i \in 1 .. Len(F) : FragmentOK(F[i]) /\ Belongs(F[i], d, lg)
  BY LayoutParts
<1>2. PICK j \in 1 .. Len(F) : F[j].rec = r /\ F[j].last
  BY <1>1 DEF FragmentsOK
<1>3. r <= Len(lg)
  BY <1>1
<1>4. lg[r].start = F[j].start /\ End(F[j]) = lg[r].end
  BY <1>1, <1>2, <1>3 DEF Belongs
<1>5. QED
  BY <1>1, <1>2, <1>4

\* A reader that skips over the whole file has no record to return.
LEMMA SkipsAll ==
    ASSUME NEW F, NEW d, NEW lg, NEW whole, Layout(F, d, lg, whole), NEW b \in Nat, NEW o \in Nat,
           b < o + HeaderSize, b >= Len(d), NEW r \in 1 .. Len(lg)
    PROVE  lg[r].start < o
<1>1. LogOK(d, lg) /\ lg \in Seq(Entry) /\ Len(d) \in Nat
  BY LayoutParts
<1>2. PICK j \in 1 .. Len(F) : /\ FragmentOK(F[j]) /\ F[j].rec = r /\ lg[r].start = F[j].start
                               /\ End(F[j]) = lg[r].end
  BY RecordFragment
<1>3. lg[r].end <= Len(d)
  BY <1>1 DEF LogOK
<1>4. /\ F[j].at \in Nat /\ F[j].size \in Nat /\ F[j].start \in Nat /\ F[j].start <= F[j].at
  BY <1>2, FragmentFields DEF FragmentOK
<1>5. F[j].at + HeaderSize + F[j].size <= Len(d)
  BY <1>2, <1>3 DEF End
<1>6. PICK a \in Nat, z \in Nat, s \in Nat, h \in Nat, L \in Nat :
           /\ a = F[j].at /\ z = F[j].size /\ s = F[j].start /\ h = HeaderSize /\ L = Len(d)
  BY <1>1, <1>4, Sizes_
<1>7. a + h + z <= L /\ s <= a /\ L <= b /\ b < o + h
  BY <1>1, <1>4, <1>5, <1>6
<1>8. s < o
  BY <1>7
<1>9. QED
  BY <1>2, <1>6, <1>8

\* The place it skips to: the i-th fragment begins its block, and the records
\* before it begin before the offset; or all do, in front of a failed write.
SkippedTo(F, lg, b, o, i) ==
    /\ Place(F, i).base = b /\ Place(F, i).at = b
    /\ Place(F, i).rec <= Len(lg) + 1
    /\ Place(F, i).first \/ Place(F, i).start < o
    /\ \A r \in 1 .. Len(lg) : r < Place(F, i).rec => lg[r].start < o

\* The block of SkipToInitialBlock begins with a fragment, or is behind all records.
LEMMA SkipsTo ==
    ASSUME NEW F, NEW d, NEW lg, NEW whole, Layout(F, d, lg, whole), NEW b \in Nat, NEW o \in Nat,
           IsBlock(b), b < o + HeaderSize, b < Len(d)
    PROVE  \/ \E i \in 1 .. Len(F) + 1 : SkippedTo(F, lg, b, o, i)
           \/ ~whole /\ \A r \in 1 .. Len(lg) : lg[r].start < o
<1> DEFINE m == Len(F)
           T == { i \in 1 .. m + 1 : Place(F, i).base >= b }
<1>1. /\ m \in Nat /\ Len(d) \in Nat /\ Len(lg) \in Nat /\ F \in Seq(Fragment) /\ FragmentsOK(F, d, lg)
      /\ LogOK(d, lg) /\ lg \in Seq(Entry)
      /\ \A i \in 1 .. m : /\ FragmentOK(F[i]) /\ F[i] \in Fragment /\ Takes(Place(F, i), F[i])
                           /\ Belongs(F[i], d, lg)
  BY LayoutParts
<1>2. \A i \in 1 .. m + 1 : SpotOK(Place(F, i)) /\ Place(F, i).base \in Nat /\ Place(F, i).at \in Nat
  <2>1. \A i \in 1 .. m + 1 : SpotOK(Place(F, i))
    BY <1>1, PlaceOK
  <2>2. QED
    BY <2>1 DEF SpotOK, Spot
<1>3. CASE T = {}
  <2>1. \A i \in 1 .. m + 1 : Place(F, i).base < b
    BY <1>2, <1>3
  <2>2. ~whole
    <3>1. SUFFICES ASSUME whole PROVE FALSE
      OBVIOUS
    <3> DEFINE s == Place(F, m + 1)
    <3>2. m + 1 \in 1 .. m + 1
      BY <1>1
    <3>3. SpotOK(s) /\ s.base \in Nat /\ s.at \in Nat /\ s.base < b
      BY <1>2, <2>1, <3>2
    <3>4. s.base + BlockSize <= b
      BY <3>3, BlocksApart DEF SpotOK
    <3>5. s.at + HeaderSize <= s.base + BlockSize
      BY <3>3 DEF SpotOK
    <3>6. Len(d) <= s.at
      BY <3>1 DEF Layout
    <3> HIDE DEF s
    <3>7. QED
      BY <1>1, <3>3, <3>4, <3>5, <3>6, Sizes_
  <2>3. ASSUME NEW r \in 1 .. Len(lg) PROVE lg[r].start < o
    <3>1. PICK j \in 1 .. m : FragmentOK(F[j]) /\ F[j].rec = r /\ lg[r].start = F[j].start
      BY RecordFragment
    <3>2. j \in 1 .. m + 1
      BY <1>1
    <3>3. F[j].base < b
      BY <1>1, <2>1, <3>2 DEF Takes
    <3>4. F[j].start < o
      BY <3>1, <3>3, BeforeOffset
    <3>5. QED
      BY <3>1, <3>4
  <2>4. QED
    BY <2>2, <2>3
<1>4. CASE T # {}
  <2>1. T \in SUBSET Nat
    BY <1>1
  <2>2. PICK i \in T : \A y \in T : i <= y
    BY <1>4, <2>1, LeastNat
  <2> DEFINE s == Place(F, i)
  <2>3. i \in 1 .. m + 1 /\ s.base >= b /\ s.base \in Nat
    BY <1>2, <2>2
  <2>4. CASE i = 1
    <3>1. s = Origin
      BY <2>4 DEF Place
    <3>2. s.base = 0 /\ s.at = 0 /\ s.rec = 1 /\ s.first
      BY <3>1 DEF Origin
    <3> HIDE DEF s
    <3>3. b = 0
      BY <2>3, <3>2
    <3>4. 1 <= Len(lg) + 1 /\ \A r \in 1 .. Len(lg) : ~(r < 1)
      BY <1>1
    <3>5. SkippedTo(F, lg, b, o, i)
      BY <3>2, <3>3, <3>4 DEF SkippedTo, s
    <3>6. QED
      BY <2>3, <3>5
  <2>5. CASE i # 1
    <3> DEFINE g == F[i - 1]
    <3>1. i - 1 \in 1 .. m /\ i - 1 \in 1 .. m + 1 /\ i - 1 < i
      BY <1>1, <2>3, <2>5
    <3>2. s = After(g)
      BY <2>5 DEF Place
    <3>3. FragmentOK(g) /\ g \in Fragment /\ Takes(Place(F, i - 1), g) /\ Belongs(g, d, lg)
      BY <1>1, <3>1
    <3>4. g.base < b
      <4>1. i - 1 \notin T
        BY <2>2, <3>1
      <4>2. Place(F, i - 1).base < b
        BY <1>2, <3>1, <4>1
      <4>3. QED
        BY <3>3, <4>2 DEF Takes
    <3>5. g.base + BlockSize <= b /\ g.at < o /\ g.start < o /\ g.at < b
      BY <3>3, <3>4, BeforeOffset
    <3>6. /\ g.base \in Nat /\ g.at \in Nat /\ g.rec \in Nat \ {0} /\ g.start \in Nat /\ End(g) \in Nat
          /\ End(g) <= g.base + BlockSize /\ g.last \in BOOLEAN
      BY <3>3, FragmentFields DEF FragmentOK
    <3>7. /\ s.base = (IF Fits(g) THEN g.base ELSE g.base + BlockSize)
          /\ s.at = (IF Fits(g) THEN End(g) ELSE g.base + BlockSize)
          /\ s.start = g.start /\ s.rec = IF g.last THEN g.rec + 1 ELSE g.rec
      BY <3>2 DEF After
    <3> HIDE DEF s, g
    <3>8. ~Fits(g)
      BY <2>3, <3>4, <3>6, <3>7
    <3>9. s.base = b /\ s.at = b
      <4>1. s.base = g.base + BlockSize /\ s.at = g.base + BlockSize
        BY <3>7, <3>8
      <4>2. QED
        BY <2>3, <3>5, <3>6, <4>1, Sizes_
    <3>10. s.rec <= Len(lg) + 1
      <4>1. CASE g.last
        <5>1. ~(End(g) > Len(d))
          BY <1>1, <3>5, <3>6, Sizes_
        <5>2. ~(g.rec > Len(lg))
          BY <3>3, <4>1, <5>1 DEF Belongs
        <5>3. QED
          BY <1>1, <3>6, <3>7, <4>1, <5>2
      <4>2. CASE ~g.last
        <5>1. ~(g.at >= Len(d))
          BY <1>1, <3>5, <3>6
        <5>2. ~(g.rec > Len(lg) + 1)
          BY <3>3, <5>1 DEF Belongs
        <5>3. QED
          BY <1>1, <3>6, <3>7, <4>2, <5>2
      <4>3. QED
        BY <4>1, <4>2
    <3>11. ASSUME NEW r \in 1 .. Len(lg), r < s.rec PROVE lg[r].start < o
      <4>1. r <= g.rec
        BY <3>6, <3>7, <3>11
      <4>2. CASE r = g.rec
        <5>1. g.rec <= Len(lg)
          BY <1>1, <4>2
        <5>2. lg[r].start = g.start
          BY <3>3, <4>2, <5>1 DEF Belongs
        <5>3. QED
          BY <3>5, <5>2
      <4>3. CASE r # g.rec
        <5>1. r < g.rec
          BY <3>6, <4>1, <4>3
        <5>2. lg[r].end <= g.start
          BY <3>3, <5>1 DEF Belongs
        <5>3. lg[r].start < lg[r].end /\ lg[r].start \in Nat /\ lg[r].end \in Nat
          BY <1>1, EntryFields DEF LogOK
        <5>4. QED
          BY <3>5, <3>6, <5>2, <5>3
      <4>4. QED
        BY <4>2, <4>3
    <3>12. SkippedTo(F, lg, b, o, i)
      BY <3>5, <3>7, <3>9, <3>10, <3>11 DEF SkippedTo, s
    <3>13. QED
      BY <2>3, <3>12
  <2>6. QED
    BY <2>4, <2>5
<1>5. QED
  BY <1>3, <1>4

---------------------------------------------------------------------------
(* The steps of a reader.                                                  *)

Turns ==
    \/ Resync \/ ReadFull \/ ReadFirst \/ ReadOrphan \/ ReadMiddle \/ ReadLast
    \/ ReadEof \/ ReadBad \/ ReadUnknown

\* What the turns of ReadRecord's loop have in common.
LEMMA TurnsAre ==
    ASSUME Turns
    PROVE  /\ Turn(ReadPhysicalRecord) /\ reading = "call" /\ (Len(buffer) >= HeaderSize \/ eof)
           /\ ReadPhysicalRecord.type = kEof => ReadEof
<1>1. Turn(ReadPhysicalRecord)
  BY DEF Turns, Resync, ReadFull, ReadFirst, ReadOrphan, ReadMiddle, ReadLast, ReadEof, ReadBad, ReadUnknown
<1>2. reading = "call" /\ (Len(buffer) >= HeaderSize \/ eof)
  BY <1>1 DEF Turn
<1>3. ASSUME ReadPhysicalRecord.type = kEof PROVE ReadEof
  <2> DEFINE P == ReadPhysicalRecord
  <2>1. P.type \notin {kFullType, kFirstType, kMiddleType, kLastType, kBadRecord}
    BY <1>3 DEF kBadRecord, kEof, kMaxRecordType, kFullType, kFirstType, kMiddleType, kLastType
  <2>2. ~Resync /\ ~ReadFull /\ ~ReadFirst /\ ~ReadOrphan /\ ~ReadMiddle /\ ~ReadLast /\ ~ReadBad
    BY <2>1 DEF Resync, Resyncs, ReadFull, ReadFirst, ReadOrphan, ReadMiddle, ReadLast, ReadBad
  <2>3. ~ReadUnknown
    BY <1>3 DEF ReadUnknown
  <2>4. QED
    BY <2>2, <2>3 DEF Turns
<1>4. QED
  BY <1>1, <1>2, <1>3

\* The first call, without an offset.
LEMMA FirstCall ==
    ASSUME NEW F, NEW whole, Layout(F, contents, log, whole), ReaderTypeOK, Fresh, Call,
           initial_offset = 0, log' = log
    PROVE  1 \in 1 .. Len(F) + 1 /\ Following(F, 1)'
<1>1. /\ reading = "idle" /\ pos = 0 /\ buffer = << >> /\ eof = FALSE /\ out = << >>
      /\ last_record_offset = 0 /\ end_of_buffer_offset = 0 /\ reports = 0
  BY DEF Fresh
<1>2. /\ LogOK(contents, log) /\ Len(F) \in Nat /\ Len(contents) \in Nat
  BY LayoutParts
<1>3. Passed \in Nat /\ Len(log) \in Nat /\ Passed <= Len(log)
  BY <1>2, PassedIs
<1>4. /\ pos' = 0 /\ end_of_buffer_offset' = 0 /\ in_fragmented_record' = FALSE /\ reading' = "call"
      /\ contents' = contents /\ initial_offset' = initial_offset /\ buffer' = << >> /\ eof' = FALSE
      /\ last_record_offset' = 0 /\ out' = << >> /\ reports' = 0
  <2>1. ~(last_record_offset < initial_offset)
    BY <1>1
  <2>2. QED
    BY <1>1, <2>1 DEF Call, fileVars
<1>5. Passed' = Passed
  BY <1>4, PassedSame
<1>6. Place(F, 1) = Origin /\ Len(<< >>) = 0
  BY DEF Place
<1>7. Origin.rec = 1 /\ Origin.base = 0 /\ Origin.at = 0 /\ Origin.first = TRUE
  BY DEF Origin
<1>8. Standing(0, 0, FALSE, Origin, Len(contents)) /\ Window(<< >>, contents, 0)
  BY <1>7, Sizes_ DEF Standing, Window
<1>9. Count(1 - 1, Passed) = 0
  BY <1>3 DEF Count
<1>10. HasReturned(<< >>, 0, log, Passed)
  BY <1>3 DEF HasReturned
<1>11. Assembled(FALSE, scratch', prospective_record_offset', resyncing', Origin, initial_offset)
  BY <1>7 DEF Assembled
<1>12. 1 \in 1 .. Len(F) + 1 /\ 1 <= Len(log) + 1
  BY <1>2, <1>3
<1>13. Following(F, 1)'
  BY <1>4, <1>5, <1>6, <1>7, <1>8, <1>9, <1>10, <1>11, <1>12 DEF Following
<1>14. QED
  BY <1>12, <1>13

\* The first call with an offset: SkipToInitialBlock.
LEMMA SkipCall ==
    ASSUME NEW F, Layout(F, contents, log, intact), intact \in BOOLEAN, ReaderTypeOK, Fresh, Call,
           initial_offset > 0, log' = log, intact' = intact
    PROVE  Reads(F)'
<1> DEFINE b == InitialBlock
           o == initial_offset
           K == Passed
<1>1. /\ reading = "idle" /\ pos = 0 /\ buffer = << >> /\ eof = FALSE /\ out = << >>
      /\ last_record_offset = 0 /\ end_of_buffer_offset = 0 /\ reports = 0
  BY DEF Fresh
<1>2. /\ LogOK(contents, log) /\ Len(F) \in Nat /\ Len(contents) \in Nat /\ Len(log) \in Nat
  BY LayoutParts
<1>3. o \in Nat
  BY DEF ReaderTypeOK
<1>4. /\ K \in Nat /\ K \in 0 .. Len(log) /\ \A r \in 1 .. Len(log) : r <= K <=> log[r].start < o
  BY <1>2, <1>3, PassedIs
<1>5. b \in Nat /\ IsBlock(b) /\ b < o + HeaderSize
  BY <1>3, InitialBlockIs
<1>6. /\ pos' = b /\ end_of_buffer_offset' = b /\ in_fragmented_record' = FALSE /\ reading' = "call"
      /\ contents' = contents /\ initial_offset' = o /\ buffer' = << >> /\ eof' = FALSE
      /\ last_record_offset' = 0 /\ out' = << >>
  <2>1. last_record_offset < initial_offset
    BY <1>1, <1>3
  <2> HIDE DEF b
  <2>2. pos + b = b
    BY <1>1, <1>5
  <2>3. QED
    BY <1>1, <2>1, <2>2 DEF Call, fileVars, b
<1>7. Passed' = K
  BY <1>6, PassedSame
<1> HIDE DEF b, K
<1>8. (\A r \in 1 .. Len(log) : log[r].start < o) => K = Len(log)
  <2>1. SUFFICES ASSUME \A r \in 1 .. Len(log) : log[r].start < o PROVE K = Len(log)
    OBVIOUS
  <2>2. CASE Len(log) = 0
    BY <1>4, <2>2
  <2>3. CASE Len(log) # 0
    <3>1. Len(log) \in 1 .. Len(log)
      BY <1>2, <2>3
    <3>2. Len(log) <= K
      BY <1>4, <2>1, <3>1
    <3>3. QED
      BY <1>2, <1>4, <3>2
  <2>4. QED
    BY <2>2, <2>3
<1>9. CASE b >= Len(contents)
  <2>1. \A r \in 1 .. Len(log) : log[r].start < o
    BY <1>3, <1>5, <1>9, SkipsAll
  <2>2. K = Len(log)
    BY <1>8, <2>1
  <2>3. Len(<< >>) < HeaderSize
    BY Sizes_
  <2>4. Past'
    BY <1>6, <1>7, <1>9, <2>2, <2>3 DEF Past
  <2>5. QED
    BY <2>4 DEF Reads
<1>10. CASE ~(b >= Len(contents))
  <2>1. b < Len(contents)
    BY <1>2, <1>5, <1>10
  <2>2. \/ \E i \in 1 .. Len(F) + 1 : SkippedTo(F, log, b, o, i)
        \/ ~intact /\ \A r \in 1 .. Len(log) : log[r].start < o
    BY <1>3, <1>5, <2>1, SkipsTo
  <2>3. CASE ~intact /\ \A r \in 1 .. Len(log) : log[r].start < o
    <3>1. K = Len(log)
      BY <1>8, <2>3
    <3>2. ReturnedAll(<< >>, log, K)
      <4>1. Len(<< >>) = 0 /\ Len(log) - K = 0 /\ 1 .. 0 = {}
        BY <1>2, <3>1
      <4>2. QED
        BY <4>1 DEF ReturnedAll
    <3>3. Free'
      BY <1>6, <1>7, <2>3, <3>2 DEF Free
    <3>4. QED
      BY <3>3 DEF Reads
  <2>4. ASSUME NEW i \in 1 .. Len(F) + 1, SkippedTo(F, log, b, o, i) PROVE Following(F, i)'
    <3> DEFINE s == Place(F, i)
    <3>1. /\ s.base = b /\ s.at = b /\ s.rec <= Len(log) + 1 /\ (s.first \/ s.start < o)
          /\ \A r \in 1 .. Len(log) : r < s.rec => log[r].start < o
      BY <2>4 DEF SkippedTo
    <3>2. s.rec \in Nat \ {0}
      <4>1. F \in Seq(Fragment) /\ FragmentsOK(F, contents, log)
        BY LayoutParts
      <4>2. SpotOK(s)
        BY <4>1, PlaceOK
      <4>3. QED
        BY <4>2 DEF SpotOK, Spot
    <3> HIDE DEF s
    <3>3. s.rec - 1 <= K
      <4>1. CASE s.rec = 1
        BY <1>4, <4>1
      <4>2. CASE s.rec # 1
        <5> DEFINE r == s.rec - 1
        <5>1. r \in 1 .. Len(log) /\ r < s.rec
          BY <1>2, <3>1, <3>2, <4>2
        <5> HIDE DEF r
        <5>2. log[r].start < o
          BY <3>1, <5>1
        <5>3. r <= K
          BY <1>4, <5>1, <5>2
        <5>4. QED
          BY <5>3 DEF r
      <4>3. QED
        BY <4>1, <4>2
    <3>4. Count(s.rec - 1, K) = 0 /\ Len(<< >>) = 0
      BY <3>3 DEF Count
    <3>5. HasReturned(<< >>, 0, log, K)
      BY <1>2, <1>4 DEF HasReturned
    <3>6. Standing(0, b, FALSE, s, Len(contents)) /\ Window(<< >>, contents, b)
      BY <1>5, <3>1, Sizes_ DEF Standing, Window
    <3>7. Assembled(FALSE, scratch', prospective_record_offset', resyncing', s, o)
      BY <3>1 DEF Assembled
    <3>8. o # 0
      BY <1>3
    <3>9. QED
      BY <1>6, <1>7, <3>1, <3>4, <3>5, <3>6, <3>7, <3>8 DEF Following, s
  <2>5. QED
    BY <2>2, <2>3, <2>4 DEF Reads
<1>11. QED
  BY <1>9, <1>10

\* A later call: LastRecordOffset is not before the offset, so nothing is skipped.
LEMMA LaterCall ==
    ASSUME NEW F, NEW whole, Layout(F, contents, log, whole), ReaderTypeOK,
           NEW i \in 1 .. Len(F) + 1, Following(F, i), reading = "idle", log' = log
    PROVE  ~(last_record_offset < initial_offset) /\ (Call => Following(F, i)')
<1> DEFINE s == Place(F, i)
           K == Passed
           r == K + Len(out)
<1>1. /\ LogOK(contents, log) /\ log \in Seq(Entry)
  BY LayoutParts
<1>2. initial_offset \in Nat /\ out \in Seq(Seq(Nat)) /\ Len(out) \in Nat
  BY LenProperties DEF ReaderTypeOK
<1>3. /\ K \in Nat /\ Len(log) \in Nat /\ \A q \in 1 .. Len(log) : q <= K <=> log[q].start < initial_offset
  BY <1>1, <1>2, PassedIs
<1>4. s.first /\ out # << >> /\ HasReturned(out, last_record_offset, log, K)
  BY DEF Following
<1>5. Len(out) # 0
  BY <1>2, <1>4, EmptySeq
<1>6. last_record_offset = log[r].start /\ Len(out) <= Len(log) - K
  BY <1>4 DEF HasReturned
<1>7. r \in 1 .. Len(log) /\ ~(r <= K)
  <2> HIDE DEF K
  <2>1. QED
    BY <1>2, <1>3, <1>5, <1>6
<1>8. ~(last_record_offset < initial_offset)
  BY <1>3, <1>6, <1>7
<1>9. ASSUME Call PROVE Following(F, i)'
  <2>1. /\ pos' = pos /\ end_of_buffer_offset' = end_of_buffer_offset /\ in_fragmented_record' = FALSE
        /\ reading' = "call" /\ contents' = contents /\ initial_offset' = initial_offset
        /\ buffer' = buffer /\ eof' = eof /\ last_record_offset' = last_record_offset /\ out' = out
        /\ reports' = reports
    BY <1>8, <1>9 DEF Call, fileVars
  <2>2. Passed' = Passed
    BY <2>1, PassedSame
  <2>3. Assembled(FALSE, scratch', prospective_record_offset', resyncing', s, initial_offset)
    BY <1>4 DEF Assembled
  <2>4. QED
    BY <2>1, <2>2, <2>3 DEF Following
<1>10. QED
  BY <1>8, <1>9

\* A block is read.
LEMMA FillFollows ==
    ASSUME NEW F, NEW whole, Layout(F, contents, log, whole), ReaderTypeOK,
           NEW i \in 1 .. Len(F) + 1, Following(F, i), Fill, log' = log
    PROVE  Following(F, i)'
<1> DEFINE s == Place(F, i)
           c == Len(Chunk)
           L == Len(contents)
<1>1. contents \in Seq(Nat) /\ pos \in Nat /\ buffer \in Seq(Nat) /\ L \in Nat /\ Len(buffer) \in Nat
  BY LenProperties DEF ReaderTypeOK
<1>2. /\ Chunk \in Seq(Nat) /\ c \in Nat /\ c <= BlockSize
      /\ c < BlockSize => pos + c >= L
      /\ c > 0 => pos + c <= L
      /\ \A j \in 1 .. c : Chunk[j] = contents[pos + j]
  BY <1>1, ChunkIs
<1>3. SpotOK(s)
  <2>1. F \in Seq(Fragment) /\ FragmentsOK(F, contents, log)
    BY LayoutParts
  <2>2. QED
    BY <2>1, PlaceOK
<1>4. /\ buffer' = Chunk /\ pos' = pos + c /\ end_of_buffer_offset' = end_of_buffer_offset + c
      /\ eof' = (c < BlockSize) /\ contents' = contents /\ initial_offset' = initial_offset
      /\ last_record_offset' = last_record_offset /\ resyncing' = resyncing
      /\ in_fragmented_record' = in_fragmented_record /\ scratch' = scratch
      /\ prospective_record_offset' = prospective_record_offset
      /\ reading' = reading /\ out' = out /\ reports' = reports
      /\ Len(buffer) < HeaderSize /\ ~eof
  BY DEF Fill, fileVars, fragmentVars
<1>5. Passed' = Passed
  BY <1>4, PassedSame
<1>6. Standing(Len(buffer), pos, FALSE, s, L) /\ end_of_buffer_offset = pos
  <2>1. eof = FALSE
    BY <1>4 DEF ReaderTypeOK
  <2>2. QED
    BY <2>1 DEF Following
<1> HIDE DEF s, c, L
<1>7. Standing(c, pos + c, c < BlockSize, s, L)
  BY <1>1, <1>2, <1>3, <1>4, <1>6, StandingFill
<1>8. Window(Chunk, contents, pos + c)
  <2>1. (pos + c) - c = pos /\ c <= pos + c
    BY <1>1, <1>2
  <2>2. QED
    BY <1>2, <2>1 DEF Window, c
<1>9. /\ Standing(Len(buffer'), pos', eof', s, Len(contents')) /\ Window(buffer', contents', pos')
      /\ end_of_buffer_offset' = pos'
  BY <1>4, <1>6, <1>7, <1>8 DEF c, L
<1>10. QED
  BY <1>4, <1>5, <1>9 DEF Following, s

\* The end of the file comes after all records.
LEMMA EofEnds ==
    ASSUME NEW F, NEW i \in 1 .. Len(F) + 1, LogOK(contents, log), ReaderTypeOK, Following(F, i),
           Place(F, i).rec > Len(log), Place(F, i).rec \in Nat, ReadEof, log' = log, intact' = intact
    PROVE  Ended'
<1> DEFINE m == Place(F, i).rec
<1>1. log \in Seq(Entry) /\ out \in Seq(Seq(Nat)) /\ initial_offset \in Nat
  BY DEF LogOK, ReaderTypeOK
<1>2. Passed \in 0 .. Len(log) /\ Len(log) \in Nat
  BY <1>1, PassedIs
<1>3. /\ m <= Len(log) + 1 /\ Len(out) = Count(m - 1, Passed)
      /\ HasReturned(out, last_record_offset, log, Passed) /\ (initial_offset = 0 => reports = 0)
  BY DEF Following
<1> HIDE DEF m
<1>4. m - 1 = Len(log)
  BY <1>2, <1>3 DEF m
<1>5. ReturnedAll(out, log, Passed)
  BY <1>1, <1>2, <1>3, <1>4, AllPassed
<1>6. /\ reading' = "end" /\ out' = out /\ last_record_offset' = last_record_offset
      /\ reports' = reports /\ initial_offset' = initial_offset
  BY DEF ReadEof, Turn, fileVars
<1>7. Passed' = Passed
  BY <1>6, PassedSame
<1>8. QED
  BY <1>3, <1>5, <1>6, <1>7 DEF Ended

\* A turn of a reader that follows the fragments.
LEMMA TurnsFollow ==
    ASSUME NEW F, Layout(F, contents, log, intact), intact \in BOOLEAN, ReaderTypeOK,
           NEW i \in 1 .. Len(F) + 1, Following(F, i), Turns, log' = log, intact' = intact,
           Len(contents) < SizeModulus, i = Len(F) + 1 => intact
    PROVE  Reads(F)'
<1>1. /\ LogOK(contents, log) /\ Len(F) \in Nat /\ F \in Seq(Fragment) /\ FragmentsOK(F, contents, log)
  BY LayoutParts
<1>2. /\ Turn(ReadPhysicalRecord) /\ reading = "call" /\ (Len(buffer) >= HeaderSize \/ eof)
      /\ ReadPhysicalRecord.type = kEof => ReadEof
  BY TurnsAre
<1>3. Place(F, i).rec \in Nat
  <2>1. SpotOK(Place(F, i))
    BY <1>1, PlaceOK
  <2>2. QED
    BY <2>1 DEF SpotOK, Spot
<1>4. ASSUME ReadPhysicalRecord.type = kEof, Place(F, i).rec > Len(log) PROVE Reads(F)'
  <2>1. Ended'
    BY <1>1, <1>2, <1>3, <1>4, EofEnds
  <2>2. QED
    BY <2>1 DEF Reads
<1>5. CASE i = Len(F) + 1
  <2>1. intact = TRUE
    BY <1>5
  <2>2. Layout(F, contents, log, TRUE) /\ Following(F, Len(F) + 1)
    BY <1>5, <2>1
  <2>3. ReadPhysicalRecord.type = kEof /\ Place(F, Len(F) + 1).rec > Len(log)
    BY <1>2, <2>2, AtEnd
  <2>4. QED
    BY <1>4, <1>5, <2>3
<1>6. CASE i # Len(F) + 1
  <2>1. i \in 1 .. Len(F)
    BY <1>1, <1>6
  <2>2. i + 1 \in 1 .. Len(F) + 1
    BY <1>1, <2>1
  <2>3. \/ Gets(F[i]) \/ Skips(F[i])
        \/ ReadPhysicalRecord.type = kEof /\ Place(F, i).rec > Len(log)
    BY <1>2, <2>1, AtFragment
  <2>4. CASE Gets(F[i])
    <3>1. Following(F, i + 1)'
      BY <1>2, <2>1, <2>4, GetsFollows DEF Turns
    <3>2. QED
      BY <2>2, <3>1 DEF Reads
  <2>5. CASE Skips(F[i])
    <3>1. Following(F, i + 1)'
      BY <1>2, <2>1, <2>5, SkipsFollows DEF Turns
    <3>2. QED
      BY <2>2, <3>1 DEF Reads
  <2>6. QED
    BY <1>4, <2>3, <2>4, <2>5
<1>7. QED
  BY <1>5, <1>6

\* A reader that has nothing to read.
LEMMA PastStays ==
    ASSUME LogOK(contents, log), ReaderTypeOK, Past, Fill \/ Turns, log' = log, intact' = intact
    PROVE  Past' \/ Ended'
<1>1. /\ reading = "call" /\ out = << >> /\ Passed = Len(log) /\ Len(buffer) < HeaderSize
      /\ pos >= Len(contents) /\ initial_offset > 0
  BY DEF Past
<1>2. contents \in Seq(Nat) /\ pos \in Nat /\ buffer \in Seq(Nat) /\ Len(contents) \in Nat
      /\ initial_offset \in Nat /\ Len(log) \in Nat
  BY LenProperties DEF ReaderTypeOK, LogOK
<1>3. CASE Fill
  <2>1. /\ Len(Chunk) \in Nat /\ Len(Chunk) > 0 => pos + Len(Chunk) <= Len(contents)
    BY <1>2, ChunkIs
  <2> DEFINE c == Len(Chunk)
  <2>2. c = 0
    <3> HIDE DEF c
    <3>1. c \in Nat /\ (c > 0 => pos + c <= Len(contents))
      BY <2>1 DEF c
    <3>2. QED
      BY <1>1, <1>2, <3>1
  <2>3. Len(buffer') = 0 /\ pos' = pos + 0
    BY <1>3, <2>2 DEF Fill
  <2>4. /\ reading' = "call" /\ out' = << >> /\ contents' = contents /\ initial_offset' = initial_offset
    BY <1>1, <1>3 DEF Fill, fileVars
  <2>5. Passed' = Passed
    BY <2>4, PassedSame
  <2>6. Len(buffer') < HeaderSize /\ pos' >= Len(contents')
    BY <1>1, <1>2, <2>3, <2>4, Sizes_
  <2>7. Past'
    BY <1>1, <2>4, <2>5, <2>6 DEF Past
  <2>8. QED
    BY <2>7
<1>4. CASE Turns
  <2>1. ReadPhysicalRecord.type = kEof
    BY <1>1, <1>2, ReadsEnd
  <2>2. ReadEof
    BY <1>4, <2>1, TurnsAre
  <2>3. /\ reading' = "end" /\ out' = << >> /\ initial_offset' = initial_offset
    BY <1>1, <2>2 DEF ReadEof, Turn, fileVars
  <2>4. Passed' = Len(log)
    BY <1>1, <2>3, PassedSame
  <2>5. Len(<< >>) = 0 /\ Len(log) - Len(log) = 0 /\ 1 .. 0 = {} /\ initial_offset # 0
    BY <1>1, <1>2
  <2>6. HasReturned(<< >>, last_record_offset', log, Len(log)) /\ ReturnedAll(<< >>, log, Len(log))
    BY <2>5 DEF HasReturned, ReturnedAll
  <2>7. Ended'
    BY <2>3, <2>4, <2>5, <2>6 DEF Ended
  <2>8. QED
    BY <2>7
<1>5. QED
  BY <1>3, <1>4

\* What is returned stays returned.
LEMMA AllStays ==
    ASSUME NEW o \in Seq(Seq(Nat)), NEW x \in Seq(Nat), NEW lg \in Seq(Entry), NEW k \in 0 .. Len(lg),
           ReturnedAll(o, lg, k)
    PROVE  ReturnedAll(Append(o, x), lg, k)
<1> DEFINE e == Append(o, x)
<1>1. Len(o) \in Nat /\ Len(lg) \in Nat /\ k \in Nat
  BY LenProperties
<1>2. Len(e) = Len(o) + 1 /\ \A j \in 1 .. Len(o) : e[j] = o[j]
  BY AppendProperties
<1>3. Len(lg) - k <= Len(o) /\ \A j \in 1 .. Len(lg) - k : o[j] = lg[k + j].data
  BY DEF ReturnedAll
<1> HIDE DEF e
<1>4. ASSUME NEW j \in 1 .. Len(lg) - k PROVE e[j] = lg[k + j].data
  <2>1. j \in 1 .. Len(o)
    BY <1>1, <1>3
  <2>2. QED
    BY <1>2, <1>3, <2>1
<1>5. Len(lg) - k <= Len(e)
  BY <1>1, <1>2, <1>3
<1>6. QED
  BY <1>4, <1>5 DEF ReturnedAll, e

\* A reader in what a failed write left may return anything after the records.
LEMMA FreeStays ==
    ASSUME LogOK(contents, log), ReaderTypeOK, Free, Call \/ Fill \/ Turns, log' = log, intact' = intact
    PROVE  Free' \/ Ended'
<1> DEFINE P == ReadPhysicalRecord
<1>1. ~intact /\ reading \in {"idle", "call"} /\ ReturnedAll(out, log, Passed)
  BY DEF Free
<1>2. /\ out \in Seq(Seq(Nat)) /\ buffer \in Seq(Nat) /\ scratch \in Seq(Nat) /\ initial_offset \in Nat
      /\ log \in Seq(Entry)
  BY DEF ReaderTypeOK, LogOK
<1>3. Passed \in 0 .. Len(log)
  BY <1>2, PassedIs
<1>4. P.fragment \in Seq(Nat)
  BY <1>2, PhysicalTypes
<1> HIDE DEF P
<1>5. scratch \o P.fragment \in Seq(Nat)
  BY <1>2, <1>4, ConcatProperties
<1>6. initial_offset' = initial_offset /\ reading' \in {"idle", "call", "end"}
  <2>1. CASE Call
    BY <2>1 DEF Call, fileVars
  <2>2. CASE Fill
    BY <2>2 DEF Fill, fileVars
  <2>3. CASE Turns
    <3>1. Turn(P) /\ reading = "call"
      BY <2>3, TurnsAre DEF P
    <3>2. reading' \in {"idle", "end", reading}
      BY <2>3 DEF Turns, Resync, ReadFull, ReadFirst, ReadOrphan, ReadMiddle, ReadLast, ReadEof, ReadBad, ReadUnknown
    <3>3. QED
      BY <3>1, <3>2 DEF Turn, fileVars
  <2>4. QED
    BY <2>1, <2>2, <2>3
<1>7. out' = out \/ \E x \in Seq(Nat) : out' = Append(out, x)
  <2>1. CASE ReadFull
    BY <1>4, <2>1 DEF ReadFull, P
  <2>2. CASE ReadLast
    BY <1>5, <2>2 DEF ReadLast, P
  <2>3. CASE Call \/ Fill \/ Resync \/ ReadFirst \/ ReadOrphan \/ ReadMiddle \/ ReadEof \/ ReadBad \/ ReadUnknown
    BY <2>3 DEF Call, Fill, Resync, ReadFirst, ReadOrphan, ReadMiddle, ReadEof, ReadBad, ReadUnknown
  <2>4. QED
    BY <2>1, <2>2, <2>3 DEF Turns
<1>8. ReturnedAll(out', log, Passed)
  BY <1>1, <1>2, <1>3, <1>7, AllStays
<1>9. Passed' = Passed
  BY <1>6, PassedSame
<1>10. ~intact' /\ ReturnedAll(out', log', Passed')
  BY <1>1, <1>8, <1>9
<1>11. QED
  BY <1>6, <1>10 DEF Free, Ended

\* A read or a seek fails.
LEMMA FaultEnds ==
    ASSUME NEW F, Layout(F, contents, log, intact), ReaderTypeOK, Reads(F), ReaderFault,
           log' = log, intact' = intact
    PROVE  Ended'
<1>1. /\ reading' = "end" /\ io_error' = TRUE /\ out' = out /\ last_record_offset' = last_record_offset
      /\ initial_offset' = initial_offset
  BY DEF ReaderFault, CallSkipFails, FillFails, fileVars
<1>2. reading # "end"
  BY DEF ReaderFault, CallSkipFails, FillFails
<1>3. Passed' = Passed
  BY <1>1, PassedSame
<1>4. intact => HasReturned(out, last_record_offset, log, Passed)
  <2>1. LogOK(contents, log) /\ initial_offset \in Nat
    BY LayoutParts DEF ReaderTypeOK
  <2>2. Passed \in 0 .. Len(log) /\ Len(log) \in Nat
    BY <2>1, PassedIs
  <2>3. ASSUME out = << >> PROVE HasReturned(out, last_record_offset, log, Passed)
    <3>1. Len(out) = 0 /\ 0 <= Len(log) - Passed
      BY <2>2, <2>3
    <3>2. QED
      BY <2>3, <3>1 DEF HasReturned
  <2>4. CASE Fresh
    BY <2>3, <2>4 DEF Fresh
  <2>5. CASE \E i \in 1 .. Len(F) + 1 : Following(F, i)
    BY <2>5 DEF Following
  <2>6. CASE Past
    BY <2>3, <2>6 DEF Past
  <2>7. CASE Free
    BY <2>7 DEF Free
  <2>8. ~Ended
    BY <1>2 DEF Ended
  <2>9. QED
    BY <2>4, <2>5, <2>6, <2>7, <2>8 DEF Reads
<1>5. QED
  BY <1>1, <1>3, <1>4 DEF Ended

\* Every step of the reader keeps Reads.
LEMMA ReadsStep ==
    ASSUME NEW F, Layout(F, contents, log, intact), intact \in BOOLEAN, ReaderTypeOK, Reads(F),
           ReaderStep \/ ReaderFault, log' = log, intact' = intact, Len(contents) < SizeModulus
    PROVE  Reads(F)'
<1>1. /\ LogOK(contents, log) /\ Len(F) \in Nat
  BY LayoutParts
<1>2. Call \/ Fill \/ Turns \/ ReaderFault
  BY DEF ReaderStep, Turns
<1>3. CASE ReaderFault
  BY <1>3, FaultEnds DEF Reads
<1>4. ASSUME Call \/ Fill \/ Turns PROVE Reads(F)'
  <2>1. (Call => reading = "idle") /\ (Fill => reading = "call") /\ (Turns => reading = "call")
    BY TurnsAre DEF Call, Fill
  <2>2. CASE Fresh
    <3>1. reading = "idle"
      BY <2>2 DEF Fresh
    <3>2. Call
      BY <1>4, <2>1, <3>1
    <3>3. initial_offset = 0 \/ initial_offset > 0
      BY DEF ReaderTypeOK
    <3>4. CASE initial_offset = 0
      <4>1. 1 \in 1 .. Len(F) + 1 /\ Following(F, 1)'
        BY <2>2, <3>2, <3>4, FirstCall
      <4>2. QED
        BY <4>1 DEF Reads
    <3>5. CASE initial_offset > 0
      BY <2>2, <3>2, <3>5, SkipCall
    <3>6. QED
      BY <3>3, <3>4, <3>5
  <2>3. CASE Past
    <3>1. reading = "call"
      BY <2>3 DEF Past
    <3>2. Fill \/ Turns
      BY <1>4, <2>1, <3>1
    <3>3. Past' \/ Ended'
      BY <1>1, <2>3, <3>2, PastStays
    <3>4. QED
      BY <3>3 DEF Reads
  <2>4. CASE Free
    <3>1. Free' \/ Ended'
      BY <1>1, <1>4, <2>4, FreeStays
    <3>2. QED
      BY <3>1 DEF Reads
  <2>5. ~Ended
    BY <1>4, <2>1 DEF Ended
  <2>6. ASSUME NEW i \in 1 .. Len(F) + 1, Following(F, i) PROVE Reads(F)'
    <3>1. CASE Call
      <4>1. Following(F, i)'
        BY <2>1, <2>6, <3>1, LaterCall
      <4>2. QED
        BY <4>1 DEF Reads
    <3>2. CASE Fill
      <4>1. Following(F, i)'
        BY <2>6, <3>2, FillFollows
      <4>2. QED
        BY <4>1 DEF Reads
    <3>3. CASE Turns /\ (i = Len(F) + 1 => intact)
      BY <2>6, <3>3, TurnsFollow
    <3>4. CASE Turns /\ i = Len(F) + 1 /\ ~intact
      <4>1. Layout(F, contents, log, FALSE) /\ Following(F, Len(F) + 1)
        <5>1. intact = FALSE
          BY <3>4
        <5>2. QED
          BY <2>6, <3>4, <5>1
      <4>2. Free
        BY <3>4, <4>1, Settle
      <4>3. QED
        BY <2>4, <4>2
    <3>5. QED
      BY <1>4, <3>1, <3>2, <3>3, <3>4
  <2>7. QED
    BY <2>2, <2>3, <2>4, <2>5, <2>6 DEF Reads
<1>5. QED
  BY <1>2, <1>3, <1>4

---------------------------------------------------------------------------
(* Recovery.                                                               *)

\* How far the reader has come; ReaderInit before there is one.
ReaderInv ==
    /\ phase # "reading" => ReaderInit
    /\ phase = "reading" => /\ contents = file.disk /\ ReaderTypeOK
                            /\ \E F : Layout(F, contents, log, intact) /\ Reads(F)

\* Offsets in the file are numbers of the code's 64 bits.
FileFits == Len(file.disk) < SizeModulus

\* A new reader, over the file as it is.
LEMMA RecoverBegins ==
    ASSUME WriterInv, LogInv, ReaderInv, Recover
    PROVE  ReaderInv'
<1>1. PICK offset \in IF faulty THEN FaultyOffsets ELSE InitialOffsets : OpenReader(file.disk, offset)
  BY DEF Recover
<1>2. offset \in Nat
  BY <1>1, OffsetsAssumption
<1>3. phase = "closed" /\ phase' = "reading" /\ file' = file /\ log' = log /\ intact' = intact
  BY DEF Recover, writerVars, past
<1>4. PICK F : Layout(F, file.disk, log, intact)
  BY DEF LogInv, Kept
<1>5. ReaderInit
  BY <1>3 DEF ReaderInv
<1>6. /\ contents' = file.disk /\ reading' = "idle" /\ initial_offset' = offset /\ resyncing' = (offset > 0)
      /\ pos' = 0 /\ buffer' = << >> /\ eof' = FALSE /\ last_record_offset' = 0 /\ end_of_buffer_offset' = 0
      /\ in_fragmented_record' = FALSE /\ scratch' = << >> /\ out' = << >> /\ reports' = 0
      /\ io_error' = FALSE
  BY <1>1, <1>5 DEF OpenReader, ReaderInit, fragmentVars
<1>7. /\ << >> \in Seq(Nat) /\ << >> \in Seq(Seq(Nat)) /\ file.disk \in Seq(Nat) /\ (offset > 0) \in BOOLEAN
  BY <1>4, LayoutParts
<1>8. ReaderTypeOK'
  BY <1>2, <1>6, <1>7 DEF ReaderTypeOK
<1>9. Fresh'
  BY <1>6 DEF Fresh
<1>10. Layout(F, contents', log', intact')
  BY <1>3, <1>4, <1>6
<1>11. Reads(F)'
  BY <1>9 DEF Reads
<1>12. contents' = file'.disk
  BY <1>3, <1>6
<1>13. QED
  BY <1>3, <1>8, <1>10, <1>11, <1>12 DEF ReaderInv

\* ReaderInv is kept by every step.
LEMMA ReaderStays ==
    ASSUME WriterInv, LogInv, ReaderInv, FileFits, [Next]_vars
    PROVE  ReaderInv'
<1>1. ASSUME readerVars' = readerVars, phase # "reading", phase' # "reading" PROVE ReaderInv'
  <2>1. ReaderInit
    BY <1>1 DEF ReaderInv
  <2>2. ReaderInit'
    BY <1>1, <2>1 DEF ReaderInit, readerVars
  <2>3. QED
    BY <1>1, <2>2 DEF ReaderInv
<1>2. ASSUME NEW record \in IF faulty THEN FaultyRecords ELSE Records, Add(record) PROVE ReaderInv'
  BY <1>1, <1>2 DEF Add
<1>3. CASE Continue
  BY <1>1, <1>3 DEF Continue
<1>4. CASE SyncLog
  BY <1>1, <1>4 DEF SyncLog
<1>5. CASE CloseLog
  BY <1>1, <1>5 DEF CloseLog
<1>6. CASE Crash
  BY <1>1, <1>6 DEF Crash
<1>7. CASE Reopen
  BY <1>1, <1>7 DEF Reopen
<1>8. CASE Recover
  BY <1>8, RecoverBegins
<1>9. CASE Read \/ ReadFault
  <2>1. /\ phase = "reading" /\ phase' = phase /\ file' = file /\ log' = log /\ intact' = intact
        /\ ReaderStep \/ ReaderFault
    BY <1>9 DEF Read, ReadFault, writerVars, past
  <2>2. contents = file.disk /\ ReaderTypeOK
    BY <2>1 DEF ReaderInv
  <2>3. PICK F : Layout(F, contents, log, intact) /\ Reads(F)
    BY <2>1 DEF ReaderInv
  <2>4. ReaderTypeOK' /\ contents' = contents
    BY <2>1, <2>2, ReaderTypes
  <2>5. Len(contents) < SizeModulus /\ intact \in BOOLEAN
    BY <2>2 DEF FileFits, LogInv
  <2>6. Reads(F)'
    BY <2>1, <2>2, <2>3, <2>5, ReadsStep
  <2>7. Layout(F, contents', log', intact') /\ contents' = file'.disk
    BY <2>1, <2>2, <2>3, <2>4
  <2>8. QED
    BY <2>1, <2>4, <2>6, <2>7 DEF ReaderInv
<1>10. CASE UNCHANGED vars
  <2>1. CASE phase # "reading"
    BY <1>1, <1>10, <2>1 DEF vars
  <2>2. CASE phase = "reading"
    <3>1. /\ phase' = phase /\ file' = file /\ log' = log /\ intact' = intact /\ readerVars' = readerVars
      BY <1>10 DEF vars, writerVars, past
    <3>2. contents = file.disk /\ ReaderTypeOK
      BY <2>2 DEF ReaderInv
    <3>3. PICK F : Layout(F, contents, log, intact) /\ Reads(F)
      BY <2>2 DEF ReaderInv
    <3>4. /\ contents' = contents /\ pos' = pos /\ buffer' = buffer /\ eof' = eof
          /\ last_record_offset' = last_record_offset /\ end_of_buffer_offset' = end_of_buffer_offset
          /\ initial_offset' = initial_offset /\ resyncing' = resyncing
          /\ in_fragmented_record' = in_fragmented_record /\ scratch' = scratch
          /\ prospective_record_offset' = prospective_record_offset /\ reading' = reading
          /\ out' = out /\ reports' = reports /\ io_error' = io_error
      BY <3>1 DEF readerVars
    <3>5. ReaderTypeOK'
      BY <3>2, <3>4 DEF ReaderTypeOK
    <3>6. Passed' = Passed
      BY <3>1, <3>4, PassedSame
    <3>7. Reads(F)'
      <4>1. Fresh => Fresh'
        BY <3>4 DEF Fresh
      <4>2. \A i : Following(F, i) => Following(F, i)'
        BY <3>1, <3>4, <3>6 DEF Following
      <4>3. Past => Past'
        BY <3>1, <3>4, <3>6 DEF Past
      <4>4. Free => Free'
        BY <3>1, <3>4, <3>6 DEF Free
      <4>5. Ended => Ended'
        BY <3>1, <3>4, <3>6 DEF Ended
      <4>6. QED
        BY <3>3, <4>1, <4>2, <4>3, <4>4, <4>5 DEF Reads
    <3>8. QED
      BY <2>2, <3>1, <3>2, <3>3, <3>4, <3>5, <3>7 DEF ReaderInv
  <2>3. QED
    BY <2>1, <2>2
<1>11. QED
  BY <1>2, <1>3, <1>4, <1>5, <1>6, <1>7, <1>8, <1>9, <1>10 DEF Next

\* A sequence that another one begins with.
LEMMA PrefixIs ==
    ASSUME NEW S, NEW s \in Seq(S), NEW t \in Seq(S), Len(s) <= Len(t), \A j \in 1 .. Len(s) : s[j] = t[j]
    PROVE  IsPrefixOf(s, t)
<1> DEFINE n == Len(s)
           p == SubSeq(t, 1, n)
<1>1. Len(t) \in Nat /\ n \in Nat /\ n \in 0 .. Len(t)
  BY LenProperties
<1>2. p \in Seq(S) /\ Len(p) = n /\ \A j \in 1 .. n : p[j] = t[j]
  <2> HIDE DEF n
  <2>1. QED
    BY <1>1, FirstPart
<1> HIDE DEF p
<1>3. s = p
  BY <1>2, SeqEqual
<1>4. QED
  BY <1>3 DEF IsPrefixOf, p

\* The records that a reader is expected to return: those not passed.
LEMMA ExpectedIs ==
    ASSUME NEW d, LogOK(d, log), initial_offset \in Nat
    PROVE  /\ Expected \in Seq(Seq(Nat)) /\ Len(Expected) = Len(log) - Passed
           /\ \A j \in 1 .. Len(log) - Passed : Expected[j] = log[Passed + j].data
<1>1. /\ Passed \in Nat /\ Passed \in 0 .. Len(log) /\ Len(log) \in Nat /\ log \in Seq(Entry)
  BY PassedIs DEF LogOK
<1> DEFINE K == Passed
           n == Len(log) - K
           x == [i \in 1 .. n |-> log[K + i].data]
<1>2. Expected = x
  BY DEF Expected, Passed
<1> HIDE DEF K
<1>3. n \in Nat /\ \A i \in 1 .. n : K + i \in 1 .. Len(log)
  BY <1>1 DEF K
<1>4. \A i \in 1 .. n : log[K + i].data \in Seq(Nat)
  BY <1>1, <1>3, EntryFields
<1> HIDE DEF n
<1>5. x \in [1 .. n -> Seq(Nat)]
  BY <1>4
<1>6. x \in Seq(Seq(Nat)) /\ Len(x) = n
  <2> HIDE DEF x
  <2>1. QED
    BY <1>3, <1>5
<1>7. QED
  BY <1>2, <1>6 DEF n, K

\* What recovery shows of the properties.
LEMMA RecoveryShows ==
    ASSUME LogInv, ReaderInv
    PROVE  ReturnsWhatWasAdded /\ ReturnsAllAcknowledged /\ TornTailIsSilent /\ LastOffsetExact
<1>1. PICK d : LogOK(d, log)
  BY LayoutParts DEF LogInv, Kept
<1>2. CASE phase # "reading"
  <2>1. ReaderInit
    BY <1>2 DEF ReaderInv
  <2>2. out = << >> /\ reading = "closed" /\ reports = 0 /\ initial_offset = 0
    BY <2>1 DEF ReaderInit
  <2>3. /\ Expected \in Seq(Seq(Nat))
    BY <1>1, <2>2, ExpectedIs
  <2>4. << >> \in Seq(Seq(Nat)) /\ Len(<< >>) = 0 /\ Len(Expected) \in Nat
    BY <2>3, LenProperties
  <2>5. IsPrefixOf(<< >>, Expected)
    <3> DEFINE s == << >>
               e == Expected
    <3>1. /\ s \in Seq(Seq(Nat)) /\ e \in Seq(Seq(Nat)) /\ Len(s) <= Len(e)
          /\ \A j \in 1 .. Len(s) : s[j] = e[j]
      BY <2>3, <2>4
    <3> HIDE DEF s, e
    <3>2. IsPrefixOf(s, e)
      BY <3>1, PrefixIs
    <3>3. QED
      BY <3>2 DEF s, e
  <2>6. QED
    BY <2>2, <2>5 DEF ReturnsWhatWasAdded, ReturnsAllAcknowledged, TornTailIsSilent, LastOffsetExact
<1>3. CASE phase = "reading"
  <2> DEFINE K == Passed
             e == Expected
  <2>1. ReaderTypeOK
    BY <1>3 DEF ReaderInv
  <2>2. PICK F : Reads(F)
    BY <1>3 DEF ReaderInv
  <2>3. out \in Seq(Seq(Nat)) /\ initial_offset \in Nat /\ Len(out) \in Nat
    BY <2>1, LenProperties DEF ReaderTypeOK
  <2>4. /\ e \in Seq(Seq(Nat)) /\ Len(e) = Len(log) - K
        /\ \A j \in 1 .. Len(log) - K : e[j] = log[K + j].data
    BY <1>1, <2>3, ExpectedIs
  <2>5. K \in Nat /\ K \in 0 .. Len(log) /\ Len(log) \in Nat
    BY <1>1, <2>3, PassedIs
  <2>6. intact => HasReturned(out, last_record_offset, log, K)
    <3>1. ASSUME out = << >> PROVE HasReturned(out, last_record_offset, log, K)
      <4>1. Len(out) = 0 /\ 0 <= Len(log) - K
        BY <2>5, <3>1
      <4>2. QED
        BY <3>1, <4>1 DEF HasReturned
    <3>2. CASE Fresh
      BY <3>1, <3>2 DEF Fresh
    <3>3. CASE \E i \in 1 .. Len(F) + 1 : Following(F, i)
      BY <3>3 DEF Following
    <3>4. CASE Past
      BY <3>1, <3>4 DEF Past
    <3>5. CASE Free
      BY <3>5 DEF Free
    <3>6. CASE Ended
      BY <3>6 DEF Ended
    <3>7. QED
      BY <2>2, <3>2, <3>3, <3>4, <3>5, <3>6 DEF Reads
  <2>7. (reading = "end" /\ ~io_error) => ReturnedAll(out, log, K)
    BY <2>2 DEF Reads, Fresh, Following, Past, Free, Ended
  <2>8. (intact /\ initial_offset = 0 /\ ~io_error) => reports = 0
    <3>1. CASE Fresh
      BY <3>1 DEF Fresh
    <3>2. CASE \E i \in 1 .. Len(F) + 1 : Following(F, i)
      BY <3>2 DEF Following
    <3>3. CASE Past
      <4>1. initial_offset # 0
        BY <2>3, <3>3 DEF Past
      <4>2. QED
        BY <4>1
    <3>4. CASE Free
      BY <3>4 DEF Free
    <3>5. CASE Ended
      BY <3>5 DEF Ended
    <3>6. QED
      BY <2>2, <3>1, <3>2, <3>3, <3>4, <3>5 DEF Reads
  <2> HIDE DEF K, e
  <2>9. ReturnsWhatWasAdded
    <3>1. SUFFICES ASSUME intact PROVE IsPrefixOf(out, e)
      BY DEF ReturnsWhatWasAdded, e
    <3>2. Len(out) <= Len(log) - K /\ \A j \in 1 .. Len(out) : out[j] = log[K + j].data
      BY <2>6, <3>1 DEF HasReturned
    <3>3. \A j \in 1 .. Len(out) : j \in 1 .. Len(log) - K
      BY <2>3, <2>5, <3>2
    <3>4. \A j \in 1 .. Len(out) : out[j] = e[j]
      BY <2>4, <3>2, <3>3
    <3>5. QED
      BY <2>3, <2>4, <3>2, <3>4, PrefixIs
  <2>10. ReturnsAllAcknowledged
    <3>1. SUFFICES ASSUME reading = "end", ~io_error PROVE IsPrefixOf(e, out)
      BY DEF ReturnsAllAcknowledged, e
    <3>2. Len(log) - K <= Len(out) /\ \A j \in 1 .. Len(log) - K : out[j] = log[K + j].data
      BY <2>7, <3>1 DEF ReturnedAll
    <3>3. \A j \in 1 .. Len(e) : e[j] = out[j]
      BY <2>4, <3>2
    <3>4. QED
      BY <2>3, <2>4, <3>2, <3>3, PrefixIs
  <2>11. TornTailIsSilent
    BY <2>8 DEF TornTailIsSilent
  <2>12. LastOffsetExact
    <3>1. SUFFICES ASSUME intact, out # << >>
                   PROVE  \E i \in 1 .. Len(log) : /\ log[i].start = last_record_offset
                                                   /\ log[i].data = out[Len(out)]
      BY DEF LastOffsetExact
    <3>2. /\ Len(out) <= Len(log) - K /\ \A j \in 1 .. Len(out) : out[j] = log[K + j].data
          /\ last_record_offset = log[K + Len(out)].start
      BY <2>6, <3>1 DEF HasReturned
    <3>3. Len(out) # 0
      BY <2>3, <3>1, EmptySeq
    <3> DEFINE r == K + Len(out)
    <3>4. r \in 1 .. Len(log) /\ Len(out) \in 1 .. Len(out)
      BY <2>3, <2>5, <3>2, <3>3
    <3>5. log[r].data = out[Len(out)]
      BY <3>2, <3>4
    <3>6. QED
      BY <3>2, <3>4, <3>5
  <2>13. QED
    BY <2>9, <2>10, <2>11, <2>12
<1>4. QED
  BY <1>2, <1>3

\* The fragments of the log lie on the disk, in every state of every run.
LEMMA LogInductive == Spec => []LogInv
<1>1. Init => LogInv
  BY LogStart
<1>2. WriterInv /\ LogInv /\ [Next]_vars => LogInv'
  BY LogStep
<1>3. QED
  BY <1>1, <1>2, WriterInductive, PTL DEF Spec

\* ... and a reader follows them.
LEMMA ReaderInductive == Spec /\ []FileFits => []ReaderInv
<1>1. Init => ReaderInv
  BY DEF Init, ReaderInv
<1>2. WriterInv /\ LogInv /\ ReaderInv /\ FileFits /\ [Next]_vars => ReaderInv'
  BY ReaderStays
<1>3. QED
  BY <1>1, <1>2, WriterInductive, LogInductive, PTL DEF Spec

\* In a log without a failed write or a fragment behind a torn one a reader from any
\* initial offset returns only what AddRecord was given, in that order and without
\* gaps: for records of any bytes, any sizes of blocks, buffers and headers, any
\* number of crashes, each with any cut of the bytes not synced.
THEOREM RecoveryIsSound == Spec /\ []FileFits => []ReturnsWhatWasAdded
<1>1. LogInv /\ ReaderInv => ReturnsWhatWasAdded
  BY RecoveryShows
<1>2. QED
  BY <1>1, LogInductive, ReaderInductive, PTL

\* A reader that comes to the end of the file has returned every record that AddRecord
\* acknowledged before any failed write and no crash took, from the initial offset
\* on; what a failed write leaves behind those records does not hide them.
THEOREM RecoveryIsComplete == Spec /\ []FileFits => []ReturnsAllAcknowledged
<1>1. LogInv /\ ReaderInv => ReturnsAllAcknowledged
  BY RecoveryShows
<1>2. QED
  BY <1>1, LogInductive, ReaderInductive, PTL

\* Where a crash cut a record off, ReadRecord says end of file and reports no
\* corruption, whatever the number of bytes that are left of it.
THEOREM TornTailIsNotReported == Spec /\ []FileFits => []TornTailIsSilent
<1>1. LogInv /\ ReaderInv => TornTailIsSilent
  BY RecoveryShows
<1>2. QED
  BY <1>1, LogInductive, ReaderInductive, PTL

\* LastRecordOffset is the offset at which AddRecord began the record returned last,
\* behind the trailer of a block if there is one.
THEOREM LastRecordOffsetIsExact == Spec /\ []FileFits => []LastOffsetExact
<1>1. LogInv /\ ReaderInv => LastOffsetExact
  BY RecoveryShows
<1>2. QED
  BY <1>1, LogInductive, ReaderInductive, PTL

=============================================================================
