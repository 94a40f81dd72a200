-------------------------- MODULE FunctionsProofs --------------------------
(***************************************************************************)
(* The parts that depend on nothing but their callers, for every value of  *)
(* their constants: the arena, the shortened keys of an index, the Bloom   *)
(* filters, the logger and the checksum.                                   *)
(*                                                                         *)
(* Each part has its inductive invariant, the lemmas about its operators   *)
(* and the theorem of the property that the run checks on small inputs.    *)
(***************************************************************************)
EXTENDS Arena, Separators, BloomFilter, Crc32c, Logger,
        DataInduction, SequenceTheorems, TLAPS

\* Leaves cite the assumptions they need.
HIDE UndefinedAssumption
HIDE FormatsAssumption
HIDE HeaderAssumption
HIDE FilterAssumption
HIDE WidthsAssumption
HIDE RadixAssumption
HIDE PowersAssumption
HIDE SizesAssumption
HIDE AddressesAssumption
HIDE BlockSizeAssumption
HIDE PiecesAssumption

---------------------------------------------------------------------------
(* The arena gives no byte twice.                                          *)
(*                                                                         *)
(* RegionsDisjoint alone is not inductive: what the next call returns      *)
(* depends on the rest of the current block, which has to lie in a block   *)
(* and apart from every piece, and a new block is only known to be apart   *)
(* from the other blocks.                                                  *)

Block == [start : Nat, size : Nat]
Region == [start : Nat, size : Nat \ {0}, aligned : BOOLEAN]

ArenaTypeOK ==
    /\ alloc_ptr \in Nat /\ alloc_bytes_remaining \in Nat
    /\ blocks \in Seq(Block)
    /\ regions \in Seq(Region)

\* The rest of the current block.
Rest == [start |-> alloc_ptr, size |-> alloc_bytes_remaining]

RestIsFree ==
    alloc_bytes_remaining > 0 =>
        /\ \E b \in 1 .. Len(blocks) : Within(Rest, blocks[b])
        /\ \A i \in 1 .. Len(regions) : Apart(regions[i], Rest)

ArenaInv == ArenaTypeOK /\ RestIsFree /\ RegionsDisjoint

---------------------------------------------------------------------------
(* Append leaves what was there and puts the element last.                 *)
LEMMA AppendIsLast ==
    ASSUME NEW S, NEW q \in Seq(S), NEW e \in S
    PROVE  /\ Append(q, e) \in Seq(S)
           /\ Len(Append(q, e)) = Len(q) + 1
           /\ \A i \in 1 .. Len(q) : Append(q, e)[i] = q[i]
           /\ Append(q, e)[Len(q) + 1] = e
  BY AppendProperties

\* What lies in a piece of memory is apart from all that the piece is apart from.
LEMMA WithinApart ==
    ASSUME NEW a, NEW b, NEW c, a.start \in Nat, a.size \in Nat, b.start \in Nat, b.size \in Nat,
           c.start \in Nat, c.size \in Nat, Within(a, b), Apart(c, b)
    PROVE  Apart(a, c) /\ Apart(c, a)
  BY DEF Within, Apart

(* The start and the size of an allocated region are numbers.              *)
LEMMA RegionFields ==
    ASSUME ArenaTypeOK, NEW i \in 1 .. Len(regions)
    PROVE  regions[i].start \in Nat /\ regions[i].size \in Nat
<1>1. regions[i] \in Region
  BY DEF ArenaTypeOK
<1>2. QED
  BY <1>1 DEF Region

\* A piece that lies in a block, apart from all others, may be returned.
LEMMA ReturnKeepsDisjoint ==
    ASSUME ArenaTypeOK, RegionsDisjoint,
           NEW place \in Nat, NEW bytes \in Nat \ {0}, NEW aligned \in BOOLEAN,
           ReturnPiece(place, bytes, aligned),
           blocks' \in Seq(Block), Len(blocks) <= Len(blocks'),
           \A b \in 1 .. Len(blocks) : blocks'[b] = blocks[b],
           aligned => place % 8 = 0,
           \E b \in 1 .. Len(blocks') : Within([start |-> place, size |-> bytes], blocks'[b]),
           \A i \in 1 .. Len(regions) : Apart(regions[i], [start |-> place, size |-> bytes])
    PROVE  /\ RegionsDisjoint' /\ regions' \in Seq(Region)
           /\ Len(regions') = Len(regions) + 1
           /\ \A i \in 1 .. Len(regions) : regions'[i] = regions[i]
           /\ regions'[Len(regions) + 1] = [start |-> place, size |-> bytes, aligned |-> aligned]
<1> DEFINE r == [start |-> place, size |-> bytes, aligned |-> aligned]
<1>1. r \in Region
  BY DEF Region
<1>2. regions' = Append(regions, r)
  BY DEF ReturnPiece
<1> HIDE DEF r
<1>3. /\ regions' \in Seq(Region)
      /\ Len(regions) \in Nat /\ Len(regions') = Len(regions) + 1
      /\ \A i \in 1 .. Len(regions) : regions'[i] = regions[i]
      /\ regions'[Len(regions) + 1] = r
  BY <1>1, <1>2, AppendIsLast DEF ArenaTypeOK
<1>4. r.start = place /\ r.size = bytes /\ r.aligned = aligned
  BY DEF r
<1>5. Len(blocks) \in Nat /\ Len(blocks') \in Nat
  BY DEF ArenaTypeOK
<1>6. ASSUME NEW i \in 1 .. Len(regions')
      PROVE  /\ regions'[i].aligned => regions'[i].start % 8 = 0
             /\ \E b \in 1 .. Len(blocks') : Within(regions'[i], blocks'[b])
  <2>1. CASE i = Len(regions) + 1
    BY <2>1, <1>3, <1>4 DEF Within
  <2>2. CASE i \in 1 .. Len(regions)
    <3>1. regions'[i] = regions[i]
      BY <2>2, <1>3
    <3>2. PICK b \in 1 .. Len(blocks) : Within(regions[i], blocks[b])
      BY <2>2 DEF RegionsDisjoint
    <3>3. b \in 1 .. Len(blocks') /\ blocks'[b] = blocks[b]
      BY <1>5
    <3>4. QED
      BY <2>2, <3>1, <3>2, <3>3 DEF RegionsDisjoint
  <2>3. QED
    BY <2>1, <2>2, <1>3
<1>7. ASSUME NEW i \in 1 .. Len(regions), NEW j \in 1 .. Len(regions), i # j
      PROVE  Apart(regions'[i], regions'[j])
  BY <1>3, <1>7 DEF RegionsDisjoint
<1>8. ASSUME NEW i \in 1 .. Len(regions)
      PROVE  Apart(regions'[i], r) /\ Apart(r, regions'[i])
  <2>1. Apart(regions[i], [start |-> place, size |-> bytes])
    OBVIOUS
  <2>2. QED
    BY <2>1, <1>3, <1>4 DEF Apart
<1>9. ASSUME NEW i \in 1 .. Len(regions'), NEW j \in 1 .. Len(regions'), i # j
      PROVE  Apart(regions'[i], regions'[j])
  <2>1. CASE i \in 1 .. Len(regions) /\ j \in 1 .. Len(regions)
    BY <2>1, <1>7, <1>9
  <2>2. CASE i = Len(regions) + 1
    BY <2>2, <1>3, <1>8, <1>9
  <2>3. CASE j = Len(regions) + 1
    BY <2>3, <1>3, <1>8, <1>9
  <2>4. QED
    BY <2>1, <2>2, <2>3, <1>3
<1>10. QED
  BY <1>3, <1>6, <1>9 DEF RegionsDisjoint, r

---------------------------------------------------------------------------
\* The next bytes of the current block.
LEMMA TakePreserves ==
    ASSUME ArenaInv, NEW bytes \in Sizes, NEW slop \in Nat, NEW aligned \in BOOLEAN,
           bytes + slop <= alloc_bytes_remaining, aligned => (alloc_ptr + slop) % 8 = 0,
           Take(bytes, slop, aligned)
    PROVE  ArenaInv'
<1>1. bytes \in Nat \ {0}
  BY SizesAssumption
<1>2. alloc_ptr \in Nat /\ alloc_bytes_remaining \in Nat /\ alloc_bytes_remaining > 0
  BY <1>1 DEF ArenaInv, ArenaTypeOK
<1>3. /\ blocks' = blocks /\ blocks \in Seq(Block)
      /\ ReturnPiece(alloc_ptr + slop, bytes, aligned)
      /\ alloc_ptr' = alloc_ptr + bytes + slop
      /\ alloc_bytes_remaining' = alloc_bytes_remaining - (bytes + slop)
  BY DEF Take, ArenaInv, ArenaTypeOK
<1> DEFINE piece == [start |-> alloc_ptr + slop, size |-> bytes]
<1>4. PICK b \in 1 .. Len(blocks) : Within(Rest, blocks[b])
  BY <1>2 DEF ArenaInv, RestIsFree
<1>5. blocks[b] \in Block
  BY <1>3, <1>4
<1>6. Within(piece, blocks[b])
  BY <1>1, <1>2, <1>4, <1>5 DEF Within, Rest, Block
<1>7. ASSUME NEW i \in 1 .. Len(regions) PROVE Apart(regions[i], piece)
  <2>1. regions[i] \in Region
    BY DEF ArenaInv, ArenaTypeOK
  <2>2. Apart(regions[i], Rest)
    BY <1>2 DEF ArenaInv, RestIsFree
  <2>3. QED
    BY <2>1, <2>2, <1>1, <1>2 DEF Apart, Rest, Region
<1>8. \E c \in 1 .. Len(blocks') : Within(piece, blocks'[c])
  BY <1>3, <1>6
<1>9. /\ RegionsDisjoint' /\ regions' \in Seq(Region)
      /\ Len(regions') = Len(regions) + 1
      /\ \A i \in 1 .. Len(regions) : regions'[i] = regions[i]
      /\ regions'[Len(regions) + 1] = [start |-> alloc_ptr + slop, size |-> bytes, aligned |-> aligned]
  <2>1. alloc_ptr + slop \in Nat
    BY <1>2
  <2>2. Len(blocks) <= Len(blocks') /\ \A c \in 1 .. Len(blocks) : blocks'[c] = blocks[c]
    BY <1>3
  <2>3. ArenaTypeOK /\ RegionsDisjoint
    BY DEF ArenaInv
  <2>4. QED
    BY <1>1, <1>3, <1>7, <1>8, <2>1, <2>2, <2>3, ReturnKeepsDisjoint
<1>10. ArenaTypeOK'
  BY <1>1, <1>2, <1>3, <1>9 DEF ArenaTypeOK
<1>11. RestIsFree'
  <2> SUFFICES ASSUME alloc_bytes_remaining' > 0 PROVE RestIsFree'
    BY DEF RestIsFree
  <2>1. Within(Rest', blocks'[b])
    BY <1>1, <1>2, <1>3, <1>4, <1>5 DEF Within, Rest, Block
  <2>2. ASSUME NEW i \in 1 .. Len(regions') PROVE Apart(regions'[i], Rest')
    <3>0. Len(regions) \in Nat
      BY DEF ArenaInv, ArenaTypeOK
    <3>1. CASE i = Len(regions) + 1
      BY <3>1, <1>1, <1>2, <1>3, <1>9 DEF Apart, Rest
    <3>2. CASE i \in 1 .. Len(regions)
      <4>1. regions[i] \in Region /\ Apart(regions[i], Rest) /\ regions'[i] = regions[i]
        BY <3>2, <1>2, <1>9 DEF ArenaInv, RestIsFree, ArenaTypeOK
      <4>2. QED
        <5>1. regions[i].start \in Nat /\ regions[i].size \in Nat
          BY <4>1 DEF Region
        <5>2. /\ Rest.start = alloc_ptr /\ Rest.size = alloc_bytes_remaining
              /\ Rest'.start = alloc_ptr' /\ Rest'.size = alloc_bytes_remaining'
          BY DEF Rest
        <5>3. \/ regions[i].start + regions[i].size <= alloc_ptr
              \/ alloc_ptr + alloc_bytes_remaining <= regions[i].start
          BY <4>1, <5>2 DEF Apart
        <5>4. \/ regions[i].start + regions[i].size <= alloc_ptr'
              \/ alloc_ptr' + alloc_bytes_remaining' <= regions[i].start
          <6>1. /\ alloc_ptr \in Nat /\ alloc_bytes_remaining \in Nat
                /\ alloc_ptr' \in Nat /\ alloc_bytes_remaining' \in Nat
                /\ alloc_ptr <= alloc_ptr'
                /\ alloc_ptr' + alloc_bytes_remaining' = alloc_ptr + alloc_bytes_remaining
            BY <1>1, <1>2, <1>3
          <6>2. CASE regions[i].start + regions[i].size <= alloc_ptr
            <7>1. regions[i].start + regions[i].size <= alloc_ptr'
              BY <5>1, <6>1, <6>2
            <7>2. QED
              BY <7>1
          <6>3. CASE alloc_ptr + alloc_bytes_remaining <= regions[i].start
            <7>1. alloc_ptr' + alloc_bytes_remaining' <= regions[i].start
              BY <5>1, <6>1, <6>3
            <7>2. QED
              BY <7>1
          <6>4. QED
            BY <5>3, <6>2, <6>3
        <5>5. QED
          BY <4>1, <5>2, <5>4 DEF Apart
    <3>3. QED
      BY <3>0, <3>1, <3>2, <1>9
  <2>3. QED
    BY <1>3, <1>4, <2>1, <2>2 DEF RestIsFree
<1>12. QED
  BY <1>9, <1>10, <1>11 DEF ArenaInv

\* A new block, from which the piece is taken: the whole of it, or its front.
LEMMA FallbackPreserves ==
    ASSUME ArenaInv, NEW bytes \in Sizes, NEW aligned \in BOOLEAN, AllocateFallback(bytes, aligned)
    PROVE  ArenaInv'
<1>1. bytes \in Nat \ {0} /\ kBlockSize \in Nat \ {0}
  BY SizesAssumption, BlockSizeAssumption
<1>2. ArenaTypeOK /\ RegionsDisjoint
  BY DEF ArenaInv
<1>3. PICK a \in Addresses, size \in Nat :
        /\ AllocateNewBlock([start |-> a, size |-> size])
        /\ ReturnPiece(a, bytes, aligned)
        /\ bytes <= size
        /\ \/ bytes = size /\ alloc_ptr' = alloc_ptr /\ alloc_bytes_remaining' = alloc_bytes_remaining
           \/ alloc_ptr' = a + bytes /\ alloc_bytes_remaining' = size - bytes
  <2>1. CASE bytes > kBlockSize \div 4
    BY <2>1, <1>1 DEF AllocateFallback
  <2>2. CASE bytes <= kBlockSize \div 4
    <3>1. bytes <= kBlockSize
      BY <2>2, <1>1
    <3>2. QED
      BY <2>2, <3>1, <1>1 DEF AllocateFallback
  <2>3. QED
    BY <2>1, <2>2, <1>1
<1> DEFINE block == [start |-> a, size |-> size]
           piece == [start |-> a, size |-> bytes]
<1>4. a \in Nat \ {0} /\ a % 8 = 0
  BY AddressesAssumption
<1>5. block \in Block /\ block.start = a /\ block.size = size
  BY <1>4 DEF Block
<1>6. /\ blocks' = Append(blocks, block)
      /\ \A c \in 1 .. Len(blocks) : Apart(block, blocks[c])
  BY <1>3 DEF AllocateNewBlock
<1>7. /\ blocks' \in Seq(Block) /\ Len(blocks) \in Nat /\ Len(blocks') = Len(blocks) + 1
      /\ \A c \in 1 .. Len(blocks) : blocks'[c] = blocks[c]
      /\ blocks'[Len(blocks) + 1] = block
  BY <1>2, <1>5, <1>6, AppendIsLast DEF ArenaTypeOK
<1>8. ASSUME NEW c \in 1 .. Len(blocks), NEW inside, inside.start \in Nat, inside.size \in Nat, Within(inside, blocks[c])
      PROVE  Apart(inside, block)
  <2>1. blocks[c] \in Block
    BY <1>2 DEF ArenaTypeOK
  <2>2. blocks[c].start \in Nat /\ blocks[c].size \in Nat /\ Apart(block, blocks[c])
    BY <2>1, <1>6 DEF Block
  <2>3. QED
    BY <2>2, <1>4, <1>5, <1>8, WithinApart
<1>9. ASSUME NEW i \in 1 .. Len(regions) PROVE Apart(regions[i], block) /\ Apart(regions[i], piece)
  <2>1. PICK c \in 1 .. Len(blocks) : Within(regions[i], blocks[c])
    BY <1>2 DEF RegionsDisjoint
  <2>2. regions[i].start \in Nat /\ regions[i].size \in Nat
    BY <1>2, RegionFields
  <2>3. Apart(regions[i], block)
    BY <2>1, <2>2, <1>8
  <2>4. QED
    BY <2>2, <2>3, <1>1, <1>3, <1>4, <1>5 DEF Apart
<1>10. \E c \in 1 .. Len(blocks') : Within(piece, blocks'[c])
  <2>1. Within(piece, block)
    BY <1>1, <1>3, <1>4, <1>5 DEF Within
  <2>2. Len(blocks) + 1 \in 1 .. Len(blocks')
    BY <1>7
  <2>3. QED
    BY <2>1, <2>2, <1>7
<1>11. /\ RegionsDisjoint' /\ regions' \in Seq(Region)
       /\ Len(regions') = Len(regions) + 1
       /\ \A i \in 1 .. Len(regions) : regions'[i] = regions[i]
       /\ regions'[Len(regions) + 1] = [start |-> a, size |-> bytes, aligned |-> aligned]
  BY <1>1, <1>2, <1>3, <1>4, <1>7, <1>9, <1>10, ReturnKeepsDisjoint
<1>12. ArenaTypeOK'
  BY <1>1, <1>2, <1>3, <1>4, <1>7, <1>11 DEF ArenaTypeOK
<1>13. RestIsFree'
  <2> SUFFICES ASSUME alloc_bytes_remaining' > 0 PROVE RestIsFree'
    BY DEF RestIsFree
  <2>0. Len(regions) \in Nat
    BY <1>2 DEF ArenaTypeOK
  <2>1. CASE alloc_ptr' = alloc_ptr /\ alloc_bytes_remaining' = alloc_bytes_remaining /\ bytes = size
    <3>1. Rest' = Rest /\ alloc_bytes_remaining > 0 /\ Rest.start \in Nat /\ Rest.size \in Nat
      BY <2>1, <1>2 DEF Rest, ArenaTypeOK
    <3>2. PICK c \in 1 .. Len(blocks) : Within(Rest, blocks[c])
      BY <3>1 DEF ArenaInv, RestIsFree
    <3>3. c \in 1 .. Len(blocks') /\ Within(Rest', blocks'[c])
      BY <3>1, <3>2, <1>7
    <3>4. Apart(Rest, block)
      BY <3>1, <3>2, <1>8
    <3>5. ASSUME NEW i \in 1 .. Len(regions') PROVE Apart(regions'[i], Rest')
      <4>1. CASE i = Len(regions) + 1
        BY <4>1, <3>1, <3>4, <2>1, <1>4, <1>5, <1>11 DEF Apart
      <4>2. CASE i \in 1 .. Len(regions)
        BY <4>2, <3>1, <1>11 DEF ArenaInv, RestIsFree
      <4>3. QED
        BY <4>1, <4>2, <2>0, <1>11
    <3>6. QED
      BY <3>3, <3>5 DEF RestIsFree
  <2>2. CASE alloc_ptr' = a + bytes /\ alloc_bytes_remaining' = size - bytes
    <3>1. Rest'.start = a + bytes /\ Rest'.size = size - bytes
      BY <2>2 DEF Rest
    <3>2. Within(Rest', block)
      BY <3>1, <1>1, <1>3, <1>4, <1>5 DEF Within
    <3>3. Len(blocks) + 1 \in 1 .. Len(blocks') /\ Within(Rest', blocks'[Len(blocks) + 1])
      BY <3>2, <1>7
    <3>4. ASSUME NEW i \in 1 .. Len(regions') PROVE Apart(regions'[i], Rest')
      <4>1. CASE i = Len(regions) + 1
        BY <4>1, <3>1, <1>1, <1>4, <1>11 DEF Apart
      <4>2. CASE i \in 1 .. Len(regions)
        <5>1. regions[i].start \in Nat /\ regions[i].size \in Nat
          BY <4>2, <1>2, RegionFields
        <5>2. Apart(regions[i], block) /\ regions'[i] = regions[i]
          BY <4>2, <1>9, <1>11
        <5>3. QED
          BY <5>1, <5>2, <3>1, <1>1, <1>3, <1>4, <1>5 DEF Apart
      <4>3. QED
        BY <4>1, <4>2, <2>0, <1>11
    <3>5. QED
      BY <3>3, <3>4 DEF RestIsFree
  <2>3. QED
    BY <2>1, <2>2, <1>3
<1>14. QED
  BY <1>11, <1>12, <1>13 DEF ArenaInv

\* Skipping Slop bytes reaches a multiple of 8.
LEMMA SlopAligns ==
    ASSUME alloc_ptr \in Nat
    PROVE  Slop \in Nat /\ (alloc_ptr + Slop) % 8 = 0
  BY DEF Slop

(* ArenaInv holds in every state of every run of the arena.                *)
LEMMA ArenaInductive == ArenaSpec => []ArenaInv
<1>1. ArenaInit => ArenaInv
  <2>1. << >> \in Seq(Block) /\ << >> \in Seq(Region)
    BY EmptySeq
  <2>2. QED
    BY <2>1 DEF ArenaInit, ArenaInv, ArenaTypeOK, RestIsFree, RegionsDisjoint
<1>2. ArenaInv /\ [ArenaNext]_arenaVars => ArenaInv'
  <2> SUFFICES ASSUME ArenaInv, [ArenaNext]_arenaVars PROVE ArenaInv'
    OBVIOUS
  <2>1. CASE UNCHANGED arenaVars
    BY <2>1 DEF arenaVars, ArenaInv, ArenaTypeOK, RestIsFree, Rest, RegionsDisjoint
  <2>2. ASSUME NEW bytes \in Sizes, Allocate(bytes) PROVE ArenaInv'
    <3>1. CASE bytes <= alloc_bytes_remaining
      <4>1. bytes + 0 <= alloc_bytes_remaining
        BY <3>1, SizesAssumption
      <4>2. Take(bytes, 0, FALSE)
        BY <3>1, <2>2 DEF Allocate
      <4>3. QED
        BY <4>1, <4>2, TakePreserves
    <3>2. CASE ~(bytes <= alloc_bytes_remaining)
      BY <3>2, <2>2, FallbackPreserves DEF Allocate
    <3>3. QED
      BY <3>1, <3>2
  <2>3. ASSUME NEW bytes \in Sizes, AllocateAligned(bytes) PROVE ArenaInv'
    <3>1. Slop \in Nat /\ (alloc_ptr + Slop) % 8 = 0
      BY SlopAligns DEF ArenaInv, ArenaTypeOK
    <3>2. CASE bytes + Slop <= alloc_bytes_remaining
      <4>1. Take(bytes, Slop, TRUE)
        BY <3>2, <2>3 DEF AllocateAligned
      <4>2. QED
        BY <3>1, <3>2, <4>1, TakePreserves
    <3>3. CASE ~(bytes + Slop <= alloc_bytes_remaining)
      BY <3>3, <2>3, FallbackPreserves DEF AllocateAligned
    <3>4. QED
      BY <3>2, <3>3
  <2>4. QED
    BY <2>1, <2>2, <2>3 DEF ArenaNext
<1>3. QED
  BY <1>1, <1>2, PTL DEF ArenaSpec

\* For any block size, any sizes asked for in any order and any addresses that
\* new returns: no byte is given twice, every piece lies in a block, and the
\* aligned ones are aligned.
THEOREM NoByteTwice == ArenaSpec => []RegionsDisjoint
<1>1. ArenaInv => RegionsDisjoint
  BY DEF ArenaInv
<1>2. QED
  BY <1>1, ArenaInductive, PTL

---------------------------------------------------------------------------
(* Separators divide the keys as start does.                               *)
(*                                                                         *)
(* All that has to stay true of the two keys is that each is a user key    *)
(* and a tag: the tag's value never matters, for a key that is replaced    *)
(* has another user key.                                                   *)

\* An internal key: a user key and some tag.
IsInternalKey(k) == \E u \in Seq(Nat) : \E v : k = u \o EncodeFixed(v, Fixed64)

KeysInv == IsInternalKey(start) /\ IsInternalKey(limit)

---------------------------------------------------------------------------
\* DiffIndex is the place of a first difference, behind bytes that are the same.
LEMMA DiffIndexIs ==
    ASSUME NEW a \in Seq(Nat), NEW b \in Seq(Nat)
    PROVE  /\ DiffIndex(a, b) \in Nat \ {0}
           /\ \A j \in 1 .. DiffIndex(a, b) - 1 : j <= Len(a) /\ j <= Len(b) /\ a[j] = b[j]
<1> DEFINE D == { i \in 1 .. Len(a) : i <= Len(b) /\ \A j \in 1 .. i : a[j] = b[j] /\ a[j] < Radix }
<1>1. Len(a) \in Nat /\ Len(b) \in Nat
  BY LenProperties
<1>2. D \in SUBSET (1 .. Len(a)) /\ \A i \in D : 1 .. i \subseteq D
  <2>1. ASSUME NEW i \in D, NEW j \in 1 .. i PROVE j \in D
    <3>1. j \in 1 .. Len(a) /\ j <= Len(b) /\ 1 .. j \subseteq 1 .. i
      BY <1>1
    <3>2. QED
      BY <3>1
  <2>2. QED
    BY <2>1
<1>3. Cardinality(D) \in 0 .. Len(a) /\ D = 1 .. Cardinality(D)
  <2> HIDE DEF D
  <2>1. QED
    BY <1>1, <1>2, FirstIndices
<1>4. DiffIndex(a, b) = 1 + Cardinality(D)
  BY DEF DiffIndex
<1>5. \A j \in D : j <= Len(a) /\ j <= Len(b) /\ a[j] = b[j]
  BY <1>1
<1> HIDE DEF D
<1>6. DiffIndex(a, b) \in Nat \ {0} /\ DiffIndex(a, b) - 1 = Cardinality(D)
  BY <1>1, <1>3, <1>4
<1>7. QED
  BY <1>3, <1>5, <1>6

\* Strings with the same first n bytes.
LEMMA SameStart ==
    ASSUME NEW a \in Seq(Nat), NEW b \in Seq(Nat), NEW n \in Nat, n <= Len(a), n <= Len(b),
           \A j \in 1 .. n : a[j] = b[j]
    PROVE  SubSeq(a, 1, n) = SubSeq(b, 1, n)
<1>1. (\A j \in 1 .. n : a[j] \in Nat) /\ (\A j \in 1 .. n : b[j] \in Nat)
  <2>1. Len(a) \in Nat /\ Len(b) \in Nat
    BY LenProperties
  <2>2. QED
    BY <2>1, ElementOfSeq
<1>2. /\ SubSeq(a, 1, n) \in Seq(Nat) /\ Len(SubSeq(a, 1, n)) = n
      /\ \A i \in 1 .. n : SubSeq(a, 1, n)[i] = a[i]
  BY <1>1, SubSeqProperties
<1>3. /\ SubSeq(b, 1, n) \in Seq(Nat) /\ Len(SubSeq(b, 1, n)) = n
      /\ \A i \in 1 .. n : SubSeq(b, 1, n)[i] = b[i]
  BY <1>1, SubSeqProperties
<1> DEFINE s == SubSeq(a, 1, n)
           t == SubSeq(b, 1, n)
<1> HIDE DEF s, t
<1>4. s \in Seq(Nat) /\ t \in Seq(Nat) /\ Len(s) = Len(t) /\ \A i \in 1 .. Len(s) : s[i] = t[i]
  BY <1>2, <1>3 DEF s, t
<1>5. s = t
  BY <1>4, SeqEqual
<1>6. QED
  BY <1>5 DEF s, t

\* A string is before another that has a larger byte behind the same ones.
LEMMA LargerByte ==
    ASSUME NEW a \in Seq(Nat), NEW b \in Seq(Nat), NEW d \in Nat \ {0}, d <= Len(a), d <= Len(b),
           \A j \in 1 .. d - 1 : a[j] = b[j], a[d] < b[d]
    PROVE  Lexicographic(a, b)
<1>1. Len(a) \in Nat /\ Len(b) \in Nat
  BY LenProperties
<1> DEFINE n == d - 1
<1>2. n \in 0 .. Len(a) /\ n \in Nat /\ n <= Len(a) /\ n < Len(b) /\ n <= Len(b) /\ n + 1 = d
  BY <1>1
<1> HIDE DEF n
<1>3. \A j \in 1 .. n : a[j] = b[j]
  BY DEF n
<1>4. SubSeq(a, 1, n) = SubSeq(b, 1, n)
  BY <1>2, <1>3, SameStart
<1>5. QED
  BY <1>2, <1>4 DEF Lexicographic

\* Shortened leaves the bytes before the last and increments that.
LEMMA ShortenedIs ==
    ASSUME NEW key \in Seq(Nat), NEW d \in 1 .. Len(key)
    PROVE  /\ Shortened(key, d) \in Seq(Nat) /\ Len(Shortened(key, d)) = d
           /\ \A j \in 1 .. d - 1 : Shortened(key, d)[j] = key[j]
           /\ Shortened(key, d)[d] = key[d] + 1
           /\ Lexicographic(key, Shortened(key, d)) /\ d <= Len(key)
<1> DEFINE head == SubSeq(key, 1, d - 1)
           e == key[d] + 1
<1>1. Len(key) \in Nat /\ d \in Nat \ {0} /\ d <= Len(key) /\ key[d] \in Nat
  BY LenProperties, ElementOfSeq
<1>2. \A j \in 1 .. d - 1 : key[j] \in Nat
  BY <1>1, ElementOfSeq
<1>3. head \in Seq(Nat) /\ Len(head) = d - 1 /\ \A j \in 1 .. d - 1 : head[j] = key[j]
  BY <1>1, <1>2, SubSeqProperties
<1>4. e \in Nat /\ key[d] < e
  BY <1>1
<1> HIDE DEF head, e
<1>5. /\ Append(head, e) \in Seq(Nat) /\ Len(Append(head, e)) = d
      /\ \A j \in 1 .. d - 1 : Append(head, e)[j] = key[j]
      /\ Append(head, e)[d] = e
  BY <1>1, <1>3, <1>4, AppendProperties
<1>6. Lexicographic(key, Append(head, e))
  <2> DEFINE s == Append(head, e)
  <2> HIDE DEF s
  <2>1. s \in Seq(Nat) /\ Len(s) = d /\ s[d] = e /\ \A j \in 1 .. d - 1 : key[j] = s[j]
    BY <1>5 DEF s
  <2>2. Lexicographic(key, s)
    <3>1. /\ d \in Nat \ {0} /\ d <= Len(key) /\ d <= Len(s) /\ key[d] < s[d]
      BY <1>1, <1>4, <2>1
    <3>2. s \in Seq(Nat) /\ \A j \in 1 .. d - 1 : key[j] = s[j]
      BY <2>1
    <3> QED
      BY <3>1, <3>2, LargerByte
  <2>3. QED
    BY <2>2 DEF s
<1>7. Shortened(key, d) = Append(head, e)
  BY DEF Shortened, head, e
<1>8. QED
  BY <1>1, <1>5, <1>6, <1>7 DEF e

\* What FindShortestSeparator makes of a user key: itself, or a shorter one behind
\* it and before the limit.
LEMMA UserSeparator ==
    ASSUME NEW a \in Seq(Nat), NEW b \in Seq(Nat)
    PROVE  /\ FindShortestSeparator(a, b) \in Seq(Nat)
           /\ Len(FindShortestSeparator(a, b)) <= Len(a)
           /\ \/ FindShortestSeparator(a, b) = a
              \/ /\ Lexicographic(a, FindShortestSeparator(a, b))
                 /\ Lexicographic(FindShortestSeparator(a, b), b)
                 /\ a # b
<1> DEFINE d == DiffIndex(a, b)
           short == FindShortestSeparator(a, b)
<1>1. Len(a) \in Nat /\ Len(b) \in Nat
  BY LenProperties
<1>2. d \in Nat \ {0} /\ \A j \in 1 .. d - 1 : j <= Len(a) /\ j <= Len(b) /\ a[j] = b[j]
  BY DiffIndexIs
<1> HIDE DEF d
<1>3. CASE d <= Len(a) /\ d <= Len(b) /\ a[d] < LastByte /\ a[d] + 1 < b[d]
  <2>1. short = Shortened(a, d)
    BY <1>3 DEF FindShortestSeparator, d
  <2> HIDE DEF short
  <2>2. d \in 1 .. Len(a) /\ d \in 1 .. Len(b)
    BY <1>1, <1>2, <1>3
  <2>3. /\ short \in Seq(Nat) /\ Len(short) = d /\ \A j \in 1 .. d - 1 : short[j] = a[j]
        /\ short[d] = a[d] + 1 /\ Lexicographic(a, short)
    BY <2>1, <2>2, ShortenedIs
  <2>4. \A j \in 1 .. d - 1 : short[j] = b[j]
    BY <1>2, <2>3
  <2>5. Lexicographic(short, b)
    <3>1. d <= Len(short) /\ short[d] < b[d]
      BY <1>1, <1>2, <1>3, <2>3
    <3>2. QED
      BY <1>2, <1>3, <2>3, <2>4, <3>1, LargerByte
  <2>6. a # b
    <3>1. a[d] \in Nat
      BY <2>2, ElementOfSeq
    <3>2. QED
      BY <1>3, <3>1
  <2>7. QED
    BY <1>3, <2>3, <2>5, <2>6 DEF short
<1>4. CASE ~(d <= Len(a) /\ d <= Len(b) /\ a[d] < LastByte /\ a[d] + 1 < b[d])
  <2>1. short = a
    BY <1>4 DEF FindShortestSeparator, d
  <2>2. QED
    BY <1>1, <2>1
<1>5. QED
  BY <1>3, <1>4

\* What FindShortSuccessor makes of a user key.
LEMMA UserSuccessor ==
    ASSUME NEW a \in Seq(Nat)
    PROVE  /\ FindShortSuccessor(a) \in Seq(Nat)
           /\ Len(FindShortSuccessor(a)) <= Len(a)
           /\ FindShortSuccessor(a) = a \/ Lexicographic(a, FindShortSuccessor(a))
<1> DEFINE D == { i \in 1 .. Len(a) : \A j \in 1 .. i : a[j] = LastByte }
           d == 1 + Cardinality(D)
<1>1. Len(a) \in Nat
  BY LenProperties
<1>2. D \in SUBSET (1 .. Len(a)) /\ \A i \in D : 1 .. i \subseteq D
  <2>1. ASSUME NEW i \in D, NEW j \in 1 .. i PROVE j \in D
    <3>1. j \in 1 .. Len(a) /\ 1 .. j \subseteq 1 .. i
      BY <1>1
    <3>2. QED
      BY <3>1
  <2>2. QED
    BY <2>1
<1>3. FindShortSuccessor(a) = IF d > Len(a) THEN a ELSE Shortened(a, d)
  BY DEF FindShortSuccessor
<1> HIDE DEF D
<1>4. d \in Nat \ {0}
  BY <1>1, <1>2, FirstIndices
<1> HIDE DEF d
<1>5. CASE d > Len(a)
  BY <1>1, <1>3, <1>5
<1>6. CASE ~(d > Len(a))
  <2>1. d \in 1 .. Len(a)
    BY <1>1, <1>4, <1>6
  <2>2. QED
    BY <1>3, <1>6, <2>1, ShortenedIs
<1>7. QED
  BY <1>5, <1>6

---------------------------------------------------------------------------
\* The user key and the length of an internal key.
LEMMA UserKeyOf ==
    ASSUME NEW u \in Seq(Nat), NEW v
    PROVE  /\ ExtractUserKey(u \o EncodeFixed(v, Fixed64)) = u
           /\ Len(u \o EncodeFixed(v, Fixed64)) = Len(u) + Fixed64
<1> DEFINE tag == EncodeFixed(v, Fixed64)
           S == Nat \cup { tag[i] : i \in 1 .. Fixed64 }
           k == u \o tag
<1>1. Fixed64 \in Nat /\ Len(u) \in Nat
  BY WidthsAssumption, LenProperties
<1>2. tag \in Seq(S) /\ Len(tag) = Fixed64
  <2>1. tag \in [1 .. Fixed64 -> { tag[i] : i \in 1 .. Fixed64 }]
    BY DEF EncodeFixed
  <2> HIDE DEF tag
  <2>2. tag \in [1 .. Fixed64 -> S]
    BY <2>1
  <2> HIDE DEF S
  <2>3. QED
    BY <1>1, <2>2, SeqDef
<1>3. u \in Seq(S)
  BY SeqDef
<1> HIDE DEF tag, S
<1>4. k \in Seq(S) /\ Len(k) = Len(u) + Fixed64 /\ \A i \in 1 .. Len(u) : k[i] = u[i]
  <2>1. /\ k \in Seq(S) /\ Len(k) = Len(u) + Len(tag)
        /\ \A i \in 1 .. Len(u) + Len(tag) : k[i] = IF i <= Len(u) THEN u[i] ELSE tag[i - Len(u)]
    BY <1>2, <1>3, ConcatProperties
  <2> HIDE DEF k
  <2>2. QED
    BY <1>1, <1>2, <2>1
<1>5. Len(k) - Fixed64 = Len(u)
  BY <1>1, <1>4
<1>6. SubSeq(k, 1, Len(u)) = u
  <2>1. CASE Len(u) = 0
    <3>1. u = << >>
      BY <2>1, EmptySeq
    <3>2. SubSeq(k, 1, 0) = << >>
      BY SubSeqEmpty
    <3>3. QED
      BY <2>1, <3>1, <3>2
  <2>2. CASE Len(u) # 0
    <3>1. Len(u) \in 1 .. Len(u) /\ 1 \in 1 .. Len(u)
      BY <1>1, <2>2
    <3>2. SubSeq(u \o tag, 1, Len(u)) = SubSeq(u, 1, Len(u))
      BY <1>2, <1>3, <3>1, SubSeqOfConcat1
    <3>3. SubSeq(u, 1, Len(u)) = u
      BY SubSeqFull
    <3>4. QED
      BY <3>2, <3>3
  <2>3. QED
    BY <2>1, <2>2
<1>7. QED
  BY <1>4, <1>5, <1>6 DEF ExtractUserKey, tag

\* The parts of an internal key.
LEMMA InternalKeyParts ==
    ASSUME NEW k, IsInternalKey(k)
    PROVE  ExtractUserKey(k) \in Seq(Nat) /\ Len(k) = Len(ExtractUserKey(k)) + Fixed64
BY UserKeyOf DEF IsInternalKey

(* The user key of an internal key made of u is u, and the tag takes eight *)
(* bytes.                                                                  *)
LEMMA InternalKeyOf ==
    ASSUME NEW u \in Seq(Nat), NEW seq, NEW type
    PROVE  /\ IsInternalKey(InternalKey(u, seq, type))
           /\ ExtractUserKey(InternalKey(u, seq, type)) = u
           /\ Len(InternalKey(u, seq, type)) = Len(u) + Fixed64
BY UserKeyOf DEF IsInternalKey, InternalKey

\* What becomes of an internal key whose user key may be replaced by one that is
\* no longer and not before it.
LEMMA ReplacedIs ==
    ASSUME NEW k, IsInternalKey(k), NEW user \in Seq(Nat),
           Len(user) <= Len(ExtractUserKey(k)),
           user = ExtractUserKey(k) \/ Lexicographic(ExtractUserKey(k), user)
    PROVE  /\ Shortens(k, Replaced(k, user), InOrder)
           /\ Replaced(k, user) = k \/ (ExtractUserKey(Replaced(k, user)) = user /\ user # ExtractUserKey(k))
<1> DEFINE new == Replaced(k, user)
           old == ExtractUserKey(k)
<1>1. old \in Seq(Nat) /\ Len(k) = Len(old) + Fixed64 /\ Len(old) \in Nat /\ Len(user) \in Nat /\ Fixed64 \in Nat
  BY InternalKeyParts, LenProperties, WidthsAssumption
<1>2. CASE Len(user) < Len(old) /\ UserCompare(old, user) = Before
  <2>1. new = InternalKey(user, kMaxSequenceNumber, kValueTypeForSeek)
    BY <1>2 DEF Replaced
  <2>2. ExtractUserKey(new) = user /\ Len(new) = Len(user) + Fixed64
    BY <2>1, InternalKeyOf
  <2>3. user # old
    BY <1>1, <1>2
  <2>4. InOrder(k, new)
    BY <2>2, <2>3 DEF InOrder
  <2>5. Len(new) <= Len(k)
    BY <1>1, <1>2, <2>2
  <2>6. QED
    BY <2>2, <2>3, <2>4, <2>5 DEF Shortens
<1>3. CASE ~(Len(user) < Len(old) /\ UserCompare(old, user) = Before)
  <2>1. new = k
    BY <1>3 DEF Replaced
  <2>2. Len(k) <= Len(k)
    BY <1>1
  <2>3. QED
    BY <2>1, <2>2 DEF Shortens
<1>4. QED
  BY <1>2, <1>3

\* For any two internal keys, the separator is not before start, before limit and
\* no longer than start, and the successor is not before its key.
LEMMA KeysAreDivided ==
    ASSUME KeysInv PROVE SeparatorDivides
<1> DEFINE user == ExtractUserKey(start)
           userLimit == ExtractUserKey(limit)
           short == FindShortestSeparator(user, userLimit)
           internal == InternalSeparator(start, limit)
           succ == FindShortSuccessor(user)
<1>1. user \in Seq(Nat) /\ userLimit \in Seq(Nat)
  BY InternalKeyParts DEF KeysInv
<1>2. /\ short \in Seq(Nat) /\ Len(short) <= Len(user)
      /\ short = user \/ (Lexicographic(user, short) /\ Lexicographic(short, userLimit) /\ user # userLimit)
  BY <1>1, UserSeparator
<1>3. succ \in Seq(Nat) /\ Len(succ) <= Len(user) /\ (succ = user \/ Lexicographic(user, succ))
  BY <1>1, UserSuccessor
<1>4. /\ Shortens(start, internal, InOrder)
      /\ internal = start \/ (ExtractUserKey(internal) = short /\ short # user)
  BY <1>2, ReplacedIs DEF InternalSeparator, KeysInv
<1>5. Shortens(start, InternalSuccessor(start), InOrder)
  BY <1>3, ReplacedIs DEF InternalSuccessor, KeysInv
<1>6. Shortens(user, short, Lexicographic) /\ Shortens(user, succ, Lexicographic)
  BY <1>2, <1>3 DEF Shortens
<1>7. Lexicographic(user, userLimit) => Lexicographic(short, userLimit)
  BY <1>2
<1>8. InOrder(start, limit) => InOrder(internal, limit)
  BY <1>2, <1>4 DEF InOrder
<1>9. QED
  BY <1>4, <1>5, <1>6, <1>7, <1>8 DEF SeparatorDivides

(* Every separator that is computed keeps the invariant.                   *)
LEMMA KeysStep ==
    KeysInv /\ [SeparatorNext]_separatorVars => KeysInv'
<1> SUFFICES ASSUME KeysInv, [SeparatorNext]_separatorVars PROVE KeysInv'
  OBVIOUS
<1>1. ASSUME NEW k, IsInternalKey(k), NEW byte \in 0 .. LastByte
      PROVE  IsInternalKey(Longer(k, byte))
  <2>1. Append(ExtractUserKey(k), byte) \in Seq(Nat)
    <3>1. ExtractUserKey(k) \in Seq(Nat) /\ byte \in Nat
      BY <1>1, InternalKeyParts
    <3>2. QED
      BY <3>1, AppendProperties
  <2>2. QED
    BY <2>1, InternalKeyOf DEF Longer
<1>2. CASE UNCHANGED separatorVars
  BY <1>2 DEF separatorVars, KeysInv, IsInternalKey
<1>3. CASE SeparatorNext
  <2>1. PICK byte \in 0 .. LastByte :
             \/ start' = Longer(start, byte) /\ limit' = limit
             \/ limit' = Longer(limit, byte) /\ start' = start
    BY <1>3 DEF SeparatorNext
  <2>2. IsInternalKey(start') /\ IsInternalKey(limit')
    BY <1>1, <2>1 DEF KeysInv
  <2>3. QED
    BY <2>2 DEF KeysInv, IsInternalKey
<1>4. QED
  BY <1>2, <1>3

\* FindShortestSeparator and FindShortSuccessor keep their promise for keys of
\* any length and any bytes.
THEOREM SeparatorsDivide == SeparatorSpec => []SeparatorDivides
<1>1. SeparatorInit => KeysInv
  <2> SUFFICES ASSUME SeparatorInit PROVE KeysInv
    OBVIOUS
  <2>1. << >> \in Seq(Nat)
    BY EmptySeq
  <2>2. QED
    BY <2>1, InternalKeyOf DEF SeparatorInit, KeysInv
<1>2. KeysInv => SeparatorDivides
  BY KeysAreDivided
<1>3. QED
  BY <1>1, <1>2, KeysStep, PTL DEF SeparatorSpec

---------------------------------------------------------------------------
(* No filter denies one of its keys.                                       *)
(*                                                                         *)
(* What is appended to the string later leaves a filter alone as long as   *)
(* it lies in the string, and the one that is appended has each probe's    *)
(* bit because its number of bits, which KeyMayMatch takes from the        *)
(* filter's length, is whole bytes.                                        *)

StringByte == (SUBSET (0 .. ByteBits - 1)) \cup Nat

FilterTypeOK ==
    /\ hash \in [FilterKeys -> Nat]
    /\ dst \in Seq(StringByte)
    /\ filters \in Seq([first : Nat \ {0}, last : Nat, keys : Seq(FilterKeys)])

\* Filters lie in the string.
FiltersInString ==
    \A i \in 1 .. Len(filters) :
        filters[i].first <= filters[i].last /\ filters[i].last <= Len(dst)

FilterInv == FilterTypeOK /\ FiltersInString /\ NoFalseNegatives

---------------------------------------------------------------------------
\* Rounding up what is whole already leaves it.
LEMMA RoundWhole ==
    ASSUME NEW B \in Nat \ {0}, NEW n \in Nat
    PROVE  (n * B + B - 1) \div B = n
<1> DEFINE x == n * B + B - 1
           q == x \div B
           r == x % B
<1>1. x \in Nat /\ n * B \in Nat
  OBVIOUS
<1>2. q \in Int /\ r \in 0 .. B - 1 /\ x = (B * q) + r
  BY <1>1
<1> HIDE DEF q, r
<1>3. ASSUME q <= n - 1 PROVE FALSE
  <2>1. PICK d \in Nat : n = q + 1 + d
    <3>1. n - q - 1 \in Nat
      BY <1>2, <1>3
    <3>2. n = q + 1 + (n - q - 1)
      BY <1>2
    <3>3. QED
      BY <3>1, <3>2
  <2>2. n * B = (q * B) + B + (d * B) /\ d * B \in Nat /\ q * B = B * q
    BY <1>2, <2>1
  <2>3. QED
    BY <1>1, <1>2, <2>2
<1>4. ASSUME q >= n + 1 PROVE FALSE
  <2>1. PICK d \in Nat : q = n + 1 + d
    <3>1. q - n - 1 \in Nat
      BY <1>2, <1>4
    <3>2. q = n + 1 + (q - n - 1)
      BY <1>2
    <3>3. QED
      BY <3>1, <3>2
  <2>2. B * q = (n * B) + B + (d * B) /\ d * B \in Nat
    BY <1>2, <2>1
  <2>3. QED
    BY <1>1, <1>2, <2>2
<1>5. q = n
  BY <1>2, <1>3, <1>4
<1>6. QED
  BY <1>5 DEF q

\* The byte of a bit within whole bytes, and its place in there.
LEMMA ByteOfBit ==
    ASSUME NEW B \in Nat \ {0}, NEW n \in Nat, NEW bit \in 0 .. (n * B) - 1
    PROVE  /\ bit \div B \in 0 .. n - 1 /\ bit % B \in 0 .. B - 1
           /\ ((bit \div B) * B) + (bit % B) = bit
<1> DEFINE q == bit \div B
           r == bit % B
<1>1. n * B \in Nat /\ bit \in Nat /\ bit < n * B
  OBVIOUS
<1>2. q \in Nat /\ r \in 0 .. B - 1 /\ bit = (B * q) + r
  BY <1>1
<1> HIDE DEF q, r
<1>3. B * q = q * B
  BY <1>2
<1>4. ASSUME q >= n PROVE FALSE
  <2>1. PICK d \in Nat : q = n + d
    <3>1. q - n \in Nat /\ q = n + (q - n)
      BY <1>2, <1>4
    <3>2. QED
      BY <3>1
  <2>2. B * q = (n * B) + (d * B) /\ d * B \in Nat
    BY <1>2, <2>1
  <2>3. QED
    BY <1>1, <1>2, <2>2
<1>5. q \in 0 .. n - 1
  BY <1>2, <1>4
<1>6. QED
  BY <1>2, <1>3, <1>5 DEF q, r

\* A probe is within the bits.
LEMMA ProbesWithin ==
    ASSUME NEW h \in Nat, NEW k \in Nat, NEW bits \in Nat \ {0}
    PROVE  Positions(h, k, bits) \subseteq 0 .. bits - 1
<1>1. 2^HashBits \in Nat \ {0} /\ 2^Rotation \in Nat \ {0} /\ 2^(HashBits - Rotation) \in Nat
  BY FilterAssumption
<1>2. Delta(h) \in Int
  BY <1>1 DEF Delta
<1>3. \A j \in 0 .. k - 1 : (h + j * Delta(h)) % 2^HashBits \in Int
  BY <1>1, <1>2
<1>4. QED
  BY <1>3 DEF Positions

\* CreateFilter's bits are whole bytes, and there is one.
LEMMA BitsAreBytes ==
    ASSUME NEW per_key \in Nat, NEW n \in Nat
    PROVE  \E bytes \in Nat \ {0} : /\ FilterBits(per_key, n) = bytes * ByteBits
                                    /\ (FilterBits(per_key, n) + ByteBits - 1) \div ByteBits = bytes
<1> DEFINE bits == IF n * per_key < MinBits THEN MinBits ELSE n * per_key
           bytes == (bits + ByteBits - 1) \div ByteBits
<1>1. bits \in Nat \ {0} /\ ByteBits \in Nat \ {0}
  <2>1. n * per_key \in Nat
    OBVIOUS
  <2>2. QED
    BY <2>1, FilterAssumption
<1>2. FilterBits(per_key, n) = bytes * ByteBits
  BY DEF FilterBits
<1> HIDE DEF bits
<1>3. bytes \in Nat \ {0}
  <2> DEFINE x == bits + ByteBits - 1
  <2>1. x \in Nat /\ x >= ByteBits
    BY <1>1
  <2> HIDE DEF x
  <2>2. x \div ByteBits \in Nat /\ x % ByteBits \in 0 .. ByteBits - 1
        /\ x = (ByteBits * (x \div ByteBits)) + (x % ByteBits)
    BY <1>1, <2>1
  <2>3. x \div ByteBits # 0
    BY <1>1, <2>1, <2>2
  <2>4. QED
    BY <2>2, <2>3 DEF x
<1> HIDE DEF bytes
<1>4. (bytes * ByteBits + ByteBits - 1) \div ByteBits = bytes
  BY <1>1, <1>3, RoundWhole
<1>5. QED
  BY <1>2, <1>3, <1>4

\* What is behind a part of a string does not change it.
LEMMA PartStays ==
    ASSUME NEW S, NEW s \in Seq(S), NEW t \in Seq(S), NEW m \in 1 .. Len(s), NEW n \in m .. Len(s)
    PROVE  SubSeq(s \o t, m, n) = SubSeq(s, m, n)
<1>1. n \in 1 .. Len(s)
  OBVIOUS
<1>2. QED
  BY <1>1, SubSeqOfConcat1

(* The last part of a concatenation is its second operand.                 *)
LEMMA LastPart ==
    ASSUME NEW S, NEW s \in Seq(S), NEW t \in Seq(S), Len(t) > 0
    PROVE  /\ s \o t \in Seq(S) /\ Len(s \o t) = Len(s) + Len(t)
           /\ SubSeq(s \o t, Len(s) + 1, Len(s) + Len(t)) = t
<1>1. s \o t \in Seq(S) /\ Len(s \o t) = Len(s) + Len(t) /\ Len(s) \in Nat /\ Len(t) \in Nat
  BY ConcatProperties, LenProperties
<1> DEFINE m == Len(s) + 1
           n == Len(s) + Len(t)
<1>2. m \in Len(s) + 1 .. Len(s) + Len(t) /\ n \in Len(s) + 1 .. Len(s) + Len(t)
      /\ m - Len(s) = 1 /\ n - Len(s) = Len(t)
  BY <1>1
<1> HIDE DEF m, n
<1>3. SubSeq(s \o t, m, n) = SubSeq(t, m - Len(s), n - Len(s))
  BY <1>2, SubSeqOfConcat2
<1>4. SubSeq(t, 1, Len(t)) = t
  BY SubSeqFull
<1>5. QED
  BY <1>1, <1>2, <1>3, <1>4 DEF m, n

\* A function on the first n numbers is a sequence of length n.
LEMMA SequenceOf ==
    ASSUME NEW S, NEW n \in Nat, NEW f \in [1 .. n -> S]
    PROVE  f \in Seq(S) /\ Len(f) = n
BY SeqDef

\* CreateFilter's probes are a number.
LEMMA ProbesNat ==
    ASSUME NEW per_key \in Nat
    PROVE  Probes(per_key) \in Nat
<1>1. per_key * 69 \in Nat /\ (per_key * 69) \div 100 \in Nat /\ MaxProbes \in Nat
  BY FilterAssumption
<1>2. QED
  BY <1>1 DEF Probes

\* An array that has the bits of each key's probes, with the number of probes
\* behind it, matches the keys.
LEMMA FilterMatches ==
    ASSUME NEW bytes \in Nat \ {0}, NEW k \in Nat, NEW array \in [1 .. bytes -> SUBSET (0 .. ByteBits - 1)],
           NEW key, hash[key] \in Nat,
           \A q \in Positions(hash[key], k, bytes * ByteBits) : \A i \in 1 .. bytes, b \in 0 .. ByteBits - 1 :
               ((i - 1) * ByteBits) + b = q => b \in array[i]
    PROVE  KeyMayMatch(key, array \o <<k>>)
<1>1. ByteBits \in Nat \ {0}
  BY FilterAssumption
<1>2. array \in Seq(StringByte) /\ Len(array) = bytes
  <2>1. array \in [1 .. bytes -> StringByte]
    BY DEF StringByte
  <2>2. QED
    BY <2>1, SequenceOf
<1> DEFINE last == <<k>>
           filter == array \o last
<1>3. last \in Seq(StringByte) /\ Len(last) = 1 /\ last[1] = k
  BY DEF StringByte
<1> HIDE DEF last
<1>4. /\ Len(filter) = bytes + 1
      /\ \A i \in 1 .. bytes + 1 : filter[i] = IF i <= bytes THEN array[i] ELSE last[i - bytes]
  <2>1. /\ Len(filter) = Len(array) + Len(last)
        /\ \A i \in 1 .. Len(array) + Len(last) :
             filter[i] = IF i <= Len(array) THEN array[i] ELSE last[i - Len(array)]
    BY <1>2, <1>3, ConcatProperties
  <2> HIDE DEF filter
  <2>2. QED
    BY <1>2, <1>3, <2>1
<1> HIDE DEF filter
<1>5. filter[Len(filter)] = k /\ Len(filter) >= 2 /\ Len(filter) - 1 = bytes
  BY <1>3, <1>4
<1>6. bytes * ByteBits \in Nat \ {0}
  <2>1. \A m, n \in Nat \ {0} : m * n \in Nat \ {0}
    OBVIOUS
  <2>2. QED
    BY <1>1, <2>1
<1>7. ASSUME NEW q \in Positions(hash[key], k, bytes * ByteBits)
      PROVE  q % ByteBits \in filter[1 + (q \div ByteBits)]
  <2>1. q \in 0 .. (bytes * ByteBits) - 1
    BY <1>6, ProbesWithin
  <2> DEFINE y == q \div ByteBits
             b == q % ByteBits
  <2>2. y \in 0 .. bytes - 1 /\ b \in 0 .. ByteBits - 1 /\ (y * ByteBits) + b = q
    BY <1>1, <2>1, ByteOfBit
  <2> HIDE DEF y, b
  <2>3. 1 + y \in 1 .. bytes /\ (1 + y) - 1 = y
    BY <2>2
  <2>4. b \in array[1 + y]
    BY <2>2, <2>3
  <2>5. filter[1 + y] = array[1 + y]
    BY <1>4, <2>3
  <2>6. QED
    BY <2>4, <2>5 DEF y, b
<1>8. KeyMayMatch(key, filter)
  BY <1>5, <1>7 DEF KeyMayMatch
<1>9. QED
  BY <1>8 DEF filter, last

---------------------------------------------------------------------------
\* Each step keeps the invariant: what a filter made earlier has in the string is
\* not touched, and the one that is made has the bits of its keys.
LEMMA FilterStep ==
    FilterInv /\ [FilterNext]_filterVars => FilterInv'
<1> SUFFICES ASSUME FilterInv, [FilterNext]_filterVars
             PROVE  FilterInv'
  OBVIOUS
<1>1. CASE UNCHANGED filterVars
  <2>1. hash' = hash /\ dst' = dst /\ filters' = filters
    BY <1>1 DEF filterVars
  <2>2. FilterTypeOK' /\ FiltersInString'
    BY <2>1 DEF FilterInv, FilterTypeOK, FiltersInString
  <2>3. NoFalseNegatives'
    <3> SUFFICES ASSUME NEW i \in 1 .. Len(filters), NEW j \in 1 .. Len(filters[i].keys)
                 PROVE  KeyMayMatch(filters[i].keys[j], SubSeq(dst, filters[i].first, filters[i].last))'
      BY <2>1 DEF NoFalseNegatives
    <3>1. KeyMayMatch(filters[i].keys[j], SubSeq(dst, filters[i].first, filters[i].last))
      BY DEF FilterInv, NoFalseNegatives
    <3>2. QED
      BY <2>1, <3>1 DEF KeyMayMatch
  <2>4. QED
    BY <2>2, <2>3 DEF FilterInv
<1>2. CASE FilterNext
  <2>1. PICK per_key \in Policies, n \in 0 .. MaxKeys : \E keys \in [1 .. n -> FilterKeys] : CreateFilter(per_key, keys)
    BY <1>2 DEF FilterNext
  <2>a. PICK keys \in [1 .. n -> FilterKeys] : CreateFilter(per_key, keys)
    BY <2>1
  <2>2. per_key \in Nat /\ n \in Nat
    BY FilterAssumption
  <2>3. keys \in Seq(FilterKeys) /\ Len(keys) = n
    BY <2>2, SequenceOf
  <2> DEFINE bits == FilterBits(per_key, Len(keys))
             bytes == (bits + ByteBits - 1) \div ByteBits
             k == Probes(per_key)
             set == UNION { Positions(hash[keys[i]], k, bits) : i \in 1 .. Len(keys) }
             array == [ i \in 1 .. bytes |-> { b \in 0 .. ByteBits - 1 : (i - 1) * ByteBits + b \in set } ]
             part == array \o <<k>>
             made == [first |-> Len(dst) + 1, last |-> Len(dst'), keys |-> keys]
  <2>4. dst' = dst \o array \o <<k>> /\ filters' = Append(filters, made) /\ hash' = hash
    BY <2>a DEF CreateFilter
  <2>5. bytes \in Nat \ {0} /\ bits = bytes * ByteBits
    BY <2>2, <2>3, BitsAreBytes
  <2>6. k \in Nat
    BY <2>2, ProbesNat
  <2> HIDE DEF bits, bytes, k
  <2>7. array \in [1 .. bytes -> SUBSET (0 .. ByteBits - 1)]
    OBVIOUS
  <2>8. ASSUME NEW j \in 1 .. Len(keys)
        PROVE  KeyMayMatch(keys[j], part)
    <3>1. keys[j] \in FilterKeys /\ hash[keys[j]] \in Nat
      BY <2>3 DEF FilterInv, FilterTypeOK
    <3>2. \A q \in Positions(hash[keys[j]], k, bytes * ByteBits) : q \in set
      BY <2>5
    <3> HIDE DEF set
    <3>3. \A i \in 1 .. bytes, b \in 0 .. ByteBits - 1 : ((i - 1) * ByteBits) + b \in set => b \in array[i]
      OBVIOUS
    <3> HIDE DEF array
    <3>4. QED
      BY <2>5, <2>6, <2>7, <3>1, <3>2, <3>3, FilterMatches
  <2>9. array \in Seq(StringByte) /\ <<k>> \in Seq(StringByte) /\ Len(<<k>>) = 1 /\ Len(array) = bytes
    <3> HIDE DEF array
    <3>1. array \in [1 .. bytes -> StringByte]
      BY <2>7 DEF StringByte
    <3>2. array \in Seq(StringByte) /\ Len(array) = bytes
      BY <2>5, <3>1, SequenceOf
    <3>3. k \in StringByte
      BY <2>6 DEF StringByte
    <3>4. QED
      BY <3>2, <3>3
  <2> HIDE DEF array
  <2>10. part \in Seq(StringByte) /\ Len(part) \in Nat /\ Len(part) > 0
    <3> DEFINE last == <<k>>
    <3>1. last \in Seq(StringByte) /\ Len(last) = 1
      BY <2>9
    <3> HIDE DEF last, set, part, made
    <3>2. array \o last \in Seq(StringByte) /\ Len(array \o last) = Len(array) + Len(last)
      BY <2>9, <3>1, ConcatProperties
    <3>3. QED
      BY <2>5, <2>9, <3>1, <3>2 DEF part, last
  <2>11. dst' = dst \o part
    <3> DEFINE last == <<k>>
    <3>1. last \in Seq(StringByte)
      BY <2>9
    <3> HIDE DEF last
    <3>2. dst \in Seq(StringByte)
      BY DEF FilterInv, FilterTypeOK
    <3>3. (dst \o array) \o last = dst \o (array \o last)
      BY <2>9, <3>1, <3>2, ConcatAssociative
    <3>4. QED
      BY <2>4, <3>3 DEF last
  <2> HIDE DEF part
  <2>12. /\ dst \in Seq(StringByte) /\ Len(dst) \in Nat /\ dst' \in Seq(StringByte)
         /\ Len(dst') = Len(dst) + Len(part) /\ SubSeq(dst', Len(dst) + 1, Len(dst')) = part
    <3>1. dst \in Seq(StringByte) /\ Len(dst) \in Nat
      BY LenProperties DEF FilterInv, FilterTypeOK
    <3>2. QED
      BY <2>10, <2>11, <3>1, LastPart
  <2> DEFINE Filter == [first : Nat \ {0}, last : Nat, keys : Seq(FilterKeys)]
  <2>13. filters \in Seq(Filter) /\ Len(filters) \in Nat /\ made \in Filter
    <3>1. filters \in Seq(Filter)
      BY DEF FilterInv, FilterTypeOK
    <3>2. QED
      BY <2>3, <2>10, <2>12, <3>1, LenProperties
  <2>14. /\ made.first = Len(dst) + 1 /\ made.last = Len(dst') /\ made.keys = keys
    OBVIOUS
  <2> HIDE DEF made
  <2>15. /\ filters' \in Seq(Filter) /\ Len(filters') = Len(filters) + 1
         /\ filters'[Len(filters) + 1] = made
         /\ \A i \in 1 .. Len(filters) : filters'[i] = filters[i]
    BY <2>4, <2>13, AppendProperties
  <2>16. FilterTypeOK'
    BY <2>4, <2>12, <2>15 DEF FilterInv, FilterTypeOK
  <2>17. ASSUME NEW i \in 1 .. Len(filters)
         PROVE  /\ filters[i] \in Filter /\ filters[i].first \in 1 .. Len(dst)
                /\ filters[i].last \in filters[i].first .. Len(dst)
    <3>1. filters[i] \in Filter
      BY <2>13, ElementOfSeq
    <3>2. filters[i].first <= filters[i].last /\ filters[i].last <= Len(dst)
      BY DEF FilterInv, FiltersInString
    <3>3. filters[i].first \in Nat \ {0} /\ filters[i].last \in Nat
      BY <3>1
    <3>4. QED
      BY <2>12, <3>1, <3>2, <3>3
  <2>18. \A i \in 1 .. Len(filters') : i \in 1 .. Len(filters) \/ i = Len(filters) + 1
    BY <2>13, <2>15
  <2>19. FiltersInString'
    <3> SUFFICES ASSUME NEW i \in 1 .. Len(filters')
                 PROVE  filters'[i].first <= filters'[i].last /\ filters'[i].last <= Len(dst')
      BY DEF FiltersInString
    <3>1. CASE i \in 1 .. Len(filters)
      <4>1. filters'[i] = filters[i]
        BY <3>1, <2>15
      <4>2. filters[i].first \in 1 .. Len(dst) /\ filters[i].last \in filters[i].first .. Len(dst)
        BY <3>1, <2>17
      <4>3. QED
        BY <2>10, <2>12, <4>1, <4>2
    <3>2. CASE i = Len(filters) + 1
      BY <3>2, <2>10, <2>12, <2>14, <2>15
    <3>3. QED
      BY <3>1, <3>2, <2>18
  <2>21. NoFalseNegatives'
    <3> SUFFICES ASSUME NEW i \in 1 .. Len(filters'), NEW j \in 1 .. Len(filters'[i].keys)
                 PROVE  KeyMayMatch(filters[i].keys[j], SubSeq(dst, filters[i].first, filters[i].last))'
      BY DEF NoFalseNegatives
    <3>1. CASE i \in 1 .. Len(filters)
      <4>1. filters'[i] = filters[i]
        BY <3>1, <2>15
      <4>2. SubSeq(dst', filters[i].first, filters[i].last) = SubSeq(dst, filters[i].first, filters[i].last)
        <5> DEFINE m == filters[i].first
                   end == filters[i].last
        <5>1. m \in 1 .. Len(dst) /\ end \in m .. Len(dst)
          BY <3>1, <2>17
        <5> HIDE DEF m, end
        <5>2. SubSeq(dst \o part, m, end) = SubSeq(dst, m, end)
          BY <2>10, <2>12, <5>1, PartStays
        <5>3. QED
          BY <2>11, <5>2 DEF m, end
      <4>3. KeyMayMatch(filters[i].keys[j], SubSeq(dst, filters[i].first, filters[i].last))
        BY <3>1, <4>1 DEF FilterInv, NoFalseNegatives
      <4>4. QED
        BY <2>4, <4>1, <4>2, <4>3 DEF KeyMayMatch
    <3>2. CASE i = Len(filters) + 1
      <4>1. filters'[i] = made
        BY <3>2, <2>15
      <4>2. KeyMayMatch(keys[j], part)
        BY <2>8, <2>14, <4>1
      <4>3. SubSeq(dst', filters'[i].first, filters'[i].last) = part /\ filters'[i].keys = keys
        BY <2>12, <2>14, <4>1
      <4>4. QED
        BY <2>4, <4>2, <4>3 DEF KeyMayMatch
    <3>3. QED
      BY <3>1, <3>2, <2>18
  <2>22. QED
    BY <2>16, <2>19, <2>21 DEF FilterInv
<1>3. QED
  BY <1>1, <1>2

\* KeyMayMatch never denies a key that was passed to CreateFilter for the filter,
\* for any policies, keys, hashes, widths and filters made before and after.
THEOREM NoKeyIsDenied == FilterSpec => []NoFalseNegatives
<1>1. FilterInit => FilterInv
  <2> SUFFICES ASSUME FilterInit PROVE FilterInv
    OBVIOUS
  <2>1. 2^HashBits \in Nat
    BY FilterAssumption
  <2>2. hash \in [FilterKeys -> Nat]
    BY <2>1 DEF FilterInit
  <2>3. Len(filters) = 0 /\ dst = << >> /\ filters = << >>
    BY DEF FilterInit
  <2>4. 1 .. Len(filters) = {}
    BY <2>3
  <2>5. QED
    BY <2>2, <2>3, <2>4, EmptySeq DEF FilterInv, FilterTypeOK, FiltersInString, NoFalseNegatives
<1>2. FilterInv => NoFalseNegatives
  BY DEF FilterInv
<1>3. QED
  BY <1>1, <1>2, FilterStep, PTL DEF FilterSpec

---------------------------------------------------------------------------
(* A line is written whole.                                                *)
(*                                                                         *)
(* The buffer of the second round is made for the text that was printed in *)
(* the first one, so the line fits unless the text's arguments were        *)
(* undefined; a line that is put into the stream stays there until some    *)
(* thread, not only the one that wrote it, flushes it into the file.       *)

Texts == Undefined \cup { f.text : f \in Formats }

Characters == LogThreads \cup {NL} \cup UNION { { text[i] : i \in 1 .. Len(text) } : text \in Texts }

Printing == [at : {"print"}, format : Formats, iteration : {0, 1}, buffer_size : Nat]
Writing == [at : {"write"}, format : Formats, buffer_size : Nat, cut : BOOLEAN, line : Seq(Characters)]
Flushing == [at : {"flush"}, format : Formats]

LoggerTypeOK ==
    /\ logv \in [LogThreads -> {NotLogging} \cup Printing \cup Writing \cup Flushing]
    /\ stream \in Seq(Seq(Characters)) /\ log_file \in Seq(Seq(Characters))
    /\ logged \subseteq [thread : LogThreads, format : Formats]

\* The buffer in the loop is the stack's, or was made for a text that was printed:
\* if the text is defined, for the one that is printed again.
BufferOK(t, c) ==
    c \in Printing =>
        /\ c.buffer_size >= 2
        /\ (c.iteration = 1 /\ ~c.format.conversion) =>
               c.buffer_size = Len(Header(t) \o c.format.text) + 2

\* What is written from it lies in it, and is the whole line.
LineOK(t, c) ==
    c \in Writing =>
        /\ Len(c.line) <= c.buffer_size
        /\ c.cut => c.format.conversion
        /\ ~c.format.conversion => c.line = LineOf(t, c.format.text)

\* A line that is written is in the stream or in the file, whoever flushes.
Put(line) ==
    \/ \E i \in 1 .. Len(stream) : stream[i] = line
    \/ \E i \in 1 .. Len(log_file) : log_file[i] = line

PutOK ==
    \A t \in LogThreads :
        (logv[t] \in Flushing /\ ~logv[t].format.conversion) => Put(LineOf(t, logv[t].format.text))

LoggerInv ==
    /\ LoggerTypeOK
    /\ \A t \in LogThreads : BufferOK(t, logv[t]) /\ LineOK(t, logv[t])
    /\ PutOK
    /\ \A c \in logged : ~c.format.conversion => Entered(c)

---------------------------------------------------------------------------
(* A text is a sequence of characters.                                     *)
LEMMA TextsAreCharacters == Texts \subseteq Seq(Characters)
<1> SUFFICES ASSUME NEW text \in Texts PROVE text \in Seq(Characters)
  OBVIOUS
<1> DEFINE own == { text[i] : i \in 1 .. Len(text) }
<1>1. text \in Seq(own)
  BY FormatsAssumption, UndefinedAssumption DEF Texts, IsText
<1>2. own \subseteq Characters
  BY DEF Characters
<1> HIDE DEF own
<1>3. QED
  BY <1>1, <1>2

\* Header and text are a sequence that is not empty.
LEMMA HeaderBefore ==
    ASSUME NEW t \in LogThreads, NEW text \in Texts
    PROVE  /\ Header(t) \o text \in Seq(Characters)
           /\ Len(Header(t) \o text) \in Nat \ {0}
<1> DEFINE h == Header(t)
<1>1. HeaderSize \in Nat \ {0}
  BY HeaderAssumption
<1>2. h \in Seq(Characters) /\ Len(h) = HeaderSize
  <2>1. h \in [1 .. HeaderSize -> Characters]
    BY DEF Header, Characters
  <2>2. QED
    BY <1>1, <2>1, SeqDef
<1>3. text \in Seq(Characters) /\ Len(text) \in Nat
  BY TextsAreCharacters
<1> HIDE DEF h
<1>4. h \o text \in Seq(Characters) /\ Len(h \o text) = Len(h) + Len(text)
  BY <1>2, <1>3, ConcatProperties
<1>5. Len(h \o text) \in Nat \ {0}
  BY <1>1, <1>2, <1>3, <1>4
<1>6. QED
  BY <1>4, <1>5 DEF h

\* snprintf leaves room for one character behind what it prints.
LEMMA FittingFits ==
    ASSUME NEW text \in Seq(Characters), NEW size \in Nat, size >= 2
    PROVE  /\ Fitting(text, size) \in Seq(Characters) /\ Len(Fitting(text, size)) + 1 <= size
           /\ Len(text) < size => Fitting(text, size) = text
<1>1. Len(text) \in Nat
  OBVIOUS
<1>2. CASE Len(text) < size
  BY <1>1, <1>2 DEF Fitting
<1>3. CASE ~(Len(text) < size)
  <2> DEFINE n == size - 1
  <2>1. n \in Int /\ 1 \in Int /\ 1 <= n /\ n <= Len(text)
    BY <1>1, <1>3
  <2>2. \A i \in 1 .. n : text[i] \in Characters
    BY <2>1
  <2> HIDE DEF n
  <2>3. SubSeq(text, 1, n) \in Seq(Characters)
        /\ Len(SubSeq(text, 1, n)) = IF 1 <= n THEN n - 1 + 1 ELSE 0
    BY <2>1, <2>2, SubSeqProperties
  <2>4. Fitting(text, size) = SubSeq(text, 1, n)
    BY <1>3 DEF Fitting, n
  <2>5. Len(Fitting(text, size)) = n
    BY <2>1, <2>3, <2>4
  <2>6. QED
    BY <1>1, <1>3, <2>3, <2>4, <2>5 DEF n
<1>4. QED
  BY <1>1, <1>2, <1>3

(* A thread that is about to print, write or flush keeps the fields of     *)
(* that step.                                                              *)
LEMMA KindsApart ==
    ASSUME LoggerTypeOK, NEW t \in LogThreads
    PROVE  /\ logv[t].at = "print" => logv[t] \in Printing
           /\ logv[t].at = "write" => logv[t] \in Writing
           /\ logv[t].at = "flush" => logv[t] \in Flushing
  BY DEF LoggerTypeOK, NotLogging, Printing, Writing, Flushing

\* A step of t that leaves the stream and the file alone keeps the invariant if
\* what t becomes is in order.
LEMMA OwnStep ==
    ASSUME LoggerInv, NEW t \in LogThreads, NEW c \in Printing \cup Writing,
           logv' = [logv EXCEPT ![t] = c], UNCHANGED <<stream, log_file, logged>>,
           BufferOK(t, c), LineOK(t, c)
    PROVE  LoggerInv'
<1>1. logv \in [LogThreads -> {NotLogging} \cup Printing \cup Writing \cup Flushing]
  BY DEF LoggerInv, LoggerTypeOK
<1>2. logv' \in [LogThreads -> {NotLogging} \cup Printing \cup Writing \cup Flushing]
  BY <1>1
<1>3. \A u \in LogThreads : logv'[u] = IF u = t THEN c ELSE logv[u]
  BY <1>1
<1>4. LoggerTypeOK'
  BY <1>2 DEF LoggerInv, LoggerTypeOK
<1>5. \A u \in LogThreads : BufferOK(u, logv'[u]) /\ LineOK(u, logv'[u])
  BY <1>3 DEF LoggerInv
<1>6. PutOK'
  <2>1. c \notin Flushing
    BY DEF Printing, Writing, Flushing
  <2>2. \A u \in LogThreads : logv'[u] \in Flushing => logv'[u] = logv[u]
    BY <1>3, <2>1
  <2>3. QED
    BY <2>2 DEF LoggerInv, PutOK, Put
<1>7. \A d \in logged' : ~d.format.conversion => Entered(d)'
  BY DEF LoggerInv, Entered
<1>8. QED
  BY <1>4, <1>5, <1>6, <1>7 DEF LoggerInv, BufferOK, LineOK

(* Logv starts with the header and the buffer on the stack.                *)
LEMMA CallStep ==
    ASSUME LoggerInv, NEW t \in LogThreads, NEW format \in Formats, LogCall(t, format)
    PROVE  LoggerInv'
<1> DEFINE c == [at |-> "print", format |-> format, iteration |-> 0, buffer_size |-> kStackBufferSize]
<1>1. logv' = [logv EXCEPT ![t] = c] /\ UNCHANGED <<stream, log_file, logged>>
  BY DEF LogCall
<1>2. kStackBufferSize \in Nat /\ kStackBufferSize >= 2
  BY HeaderAssumption
<1>3. c \in Printing /\ c.iteration = 0 /\ c.buffer_size >= 2 /\ c \notin Writing
  BY <1>2 DEF Printing, Writing
<1> HIDE DEF c
<1>4. BufferOK(t, c) /\ LineOK(t, c)
  BY <1>3 DEF BufferOK, LineOK
<1>5. QED
  BY <1>1, <1>3, <1>4, OwnStep

(* Printing into the buffer ends with a line that fits, or goes on to the  *)
(* buffer on the heap.                                                     *)
LEMMA PrintStep ==
    ASSUME LoggerInv, NEW t \in LogThreads, PrintLine(t)
    PROVE  LoggerInv'
<1> DEFINE c == logv[t]
<1>1. c \in Printing /\ BufferOK(t, c)
  BY KindsApart DEF LoggerInv, PrintLine
<1>2. PICK text \in Printed(c.format) :
        LET all == Header(t) \o text
            offset == Len(all)
            full == offset >= c.buffer_size - 1
            buffer == Fitting(all, c.buffer_size)
        IN  logv' = [logv EXCEPT ![t] =
              IF full /\ c.iteration = 0
              THEN [c EXCEPT !.iteration = 1, !.buffer_size = DynamicSize(offset)]
              ELSE [at |-> "write", format |-> c.format, buffer_size |-> c.buffer_size,
                    cut |-> full,
                    line |-> IF buffer[Len(buffer)] # NL THEN Append(buffer, NL) ELSE buffer]]
  BY DEF PrintLine
<1> DEFINE all == Header(t) \o text
           offset == Len(all)
           full == offset >= c.buffer_size - 1
           buffer == Fitting(all, c.buffer_size)
           line == IF buffer[Len(buffer)] # NL THEN Append(buffer, NL) ELSE buffer
           again == [c EXCEPT !.iteration = 1, !.buffer_size = DynamicSize(offset)]
           ready == [at |-> "write", format |-> c.format, buffer_size |-> c.buffer_size,
                     cut |-> full, line |-> line]
<1>3. UNCHANGED <<stream, log_file, logged>>
  BY DEF PrintLine
<1>4. logv' = [logv EXCEPT ![t] = IF full /\ c.iteration = 0 THEN again ELSE ready]
  BY <1>2
<1>5. /\ c.format \in Formats /\ c.iteration \in {0, 1} /\ c.buffer_size \in Nat /\ c.buffer_size >= 2
      /\ c.format.conversion \in BOOLEAN
      /\ (c.iteration = 1 /\ ~c.format.conversion) =>
             c.buffer_size = Len(Header(t) \o c.format.text) + 2
  BY <1>1, FormatsAssumption DEF Printing, BufferOK
<1>6. text \in Texts /\ (~c.format.conversion => text = c.format.text)
  BY <1>5 DEF Printed, Texts
<1>7. all \in Seq(Characters) /\ offset \in Nat \ {0}
  BY <1>6, HeaderBefore
<1> HIDE DEF c, all
<1>8. /\ buffer \in Seq(Characters) /\ Len(buffer) + 1 <= c.buffer_size
      /\ offset < c.buffer_size => buffer = all
  BY <1>5, <1>7, FittingFits
<1> HIDE DEF buffer
<1>9. line \in Seq(Characters) /\ Len(line) <= c.buffer_size
  <2>1. NL \in Characters /\ Len(buffer) \in Nat
    BY <1>8 DEF Characters
  <2>2. Append(buffer, NL) \in Seq(Characters) /\ Len(Append(buffer, NL)) = Len(buffer) + 1
    BY <1>8, <2>1, AppendProperties
  <2>3. QED
    BY <1>5, <1>8, <2>1, <2>2
<1>10. CASE full /\ c.iteration = 0
  <2>1. DynamicSize(offset) = offset + 2
    BY DEF DynamicSize
  <2> HIDE DEF offset
  <2>2. again \in Printing /\ again.format = c.format /\ again.buffer_size = offset + 2
    <3>1. c \in Printing /\ offset + 2 \in Nat
      BY <1>1, <1>7
    <3>2. again = [c EXCEPT !.iteration = 1, !.buffer_size = offset + 2]
      BY <2>1
    <3> HIDE DEF again
    <3>3. QED
      BY <3>1, <3>2 DEF Printing
  <2> HIDE DEF again
  <2>3. again \notin Writing
    BY <2>2 DEF Printing, Writing
  <2>4. BufferOK(t, again) /\ LineOK(t, again)
    BY <1>6, <1>7, <2>2, <2>3 DEF BufferOK, LineOK, all, offset
  <2>5. logv' = [logv EXCEPT ![t] = again]
    BY <1>4, <1>10
  <2>6. QED
    BY <1>3, <2>2, <2>4, <2>5, OwnStep
<1>11. CASE ~(full /\ c.iteration = 0)
  <2>1. ~c.format.conversion => ~full
    <3> SUFFICES ASSUME ~c.format.conversion, full PROVE FALSE
      OBVIOUS
    <3>1. c.iteration = 1
      BY <1>5, <1>11
    <3>2. c.buffer_size = offset + 2
      BY <1>5, <1>6, <3>1 DEF all
    <3>3. QED
      BY <1>5, <1>7, <3>2
  <2>2. ~c.format.conversion => line = LineOf(t, c.format.text)
    <3> SUFFICES ASSUME ~c.format.conversion PROVE line = LineOf(t, c.format.text)
      OBVIOUS
    <3>1. offset < c.buffer_size
      BY <1>5, <1>7, <2>1
    <3>2. buffer = all /\ all = Header(t) \o c.format.text
      BY <1>6, <1>8, <3>1 DEF all
    <3>3. QED
      BY <3>2 DEF LineOf
  <2>3. full \in BOOLEAN
    OBVIOUS
  <2> HIDE DEF line, full
  <2>4. ready \in Writing /\ ready.format = c.format /\ ready.buffer_size = c.buffer_size
        /\ ready.line = line /\ ready.cut = full
    BY <1>5, <1>9, <2>3 DEF Writing
  <2> HIDE DEF ready
  <2>5. ready \notin Printing
    BY <2>4 DEF Printing, Writing
  <2>6. BufferOK(t, ready) /\ LineOK(t, ready)
    BY <1>5, <1>9, <2>1, <2>2, <2>4, <2>5 DEF BufferOK, LineOK
  <2>7. logv' = [logv EXCEPT ![t] = ready]
    BY <1>4, <1>11 DEF full
  <2>8. QED
    BY <1>3, <2>4, <2>6, <2>7, OwnStep
<1>12. QED
  BY <1>10, <1>11

(* fwrite appends the line, whole, to what the stream holds.               *)
LEMMA WriteStep ==
    ASSUME LoggerInv, NEW t \in LogThreads, WriteLine(t)
    PROVE  LoggerInv'
<1> DEFINE c == logv[t]
           d == [at |-> "flush", format |-> c.format]
<1>1. c \in Writing /\ LineOK(t, c)
  BY KindsApart DEF LoggerInv, WriteLine
<1>2. /\ logv \in [LogThreads -> {NotLogging} \cup Printing \cup Writing \cup Flushing]
      /\ stream \in Seq(Seq(Characters)) /\ log_file \in Seq(Seq(Characters))
  BY DEF LoggerInv, LoggerTypeOK
<1>3. /\ logv' = [logv EXCEPT ![t] = d] /\ stream' = Append(stream, c.line)
      /\ log_file' = log_file /\ logged' = logged
  BY DEF WriteLine
<1>4. c.line \in Seq(Characters) /\ d \in Flushing /\ d \notin Printing /\ d \notin Writing
      /\ d.format = c.format
  BY <1>1 DEF Writing, Flushing, Printing
<1>5. ~d.format.conversion => c.line = LineOf(t, d.format.text)
  BY <1>1, <1>4 DEF LineOK
<1> HIDE DEF c, d
<1>6. /\ stream' \in Seq(Seq(Characters)) /\ Len(stream') = Len(stream) + 1
      /\ \A i \in 1 .. Len(stream) : stream'[i] = stream[i]
      /\ stream'[Len(stream) + 1] = c.line
  BY <1>2, <1>3, <1>4, AppendProperties
<1>7. \A u \in LogThreads : logv'[u] = IF u = t THEN d ELSE logv[u]
  BY <1>2, <1>3
<1>8. LoggerTypeOK'
  BY <1>2, <1>3, <1>4, <1>6 DEF LoggerInv, LoggerTypeOK
<1>9. \A u \in LogThreads : BufferOK(u, logv'[u]) /\ LineOK(u, logv'[u])
  BY <1>4, <1>7 DEF LoggerInv, BufferOK, LineOK
<1>10. PutOK'
  <2>1. Len(stream) \in Nat
    BY <1>2
  <2>2. \A i \in 1 .. Len(stream) : i \in 1 .. Len(stream')
    BY <1>6, <2>1
  <2>3. Len(stream) + 1 \in 1 .. Len(stream')
    BY <1>6, <2>1
  <2> SUFFICES ASSUME NEW u \in LogThreads, logv'[u] \in Flushing, ~logv'[u].format.conversion
               PROVE  LET line == LineOf(u, logv'[u].format.text) IN
                      \/ \E i \in 1 .. Len(stream') : stream'[i] = line
                      \/ \E i \in 1 .. Len(log_file') : log_file'[i] = line
    BY DEF PutOK, Put, LineOf, Header
  <2>4. CASE u = t
    <3>1. stream'[Len(stream) + 1] = LineOf(u, logv'[u].format.text)
      BY <1>5, <1>6, <1>7, <2>4
    <3>2. QED
      BY <2>3, <3>1
  <2>5. CASE u # t
    <3>1. logv'[u] = logv[u]
      BY <1>7, <2>5
    <3>2. Put(LineOf(u, logv[u].format.text))
      BY <3>1 DEF LoggerInv, PutOK
    <3>3. QED
      BY <1>3, <1>6, <2>2, <3>1, <3>2 DEF Put
  <2>6. QED
    BY <2>4, <2>5
<1>11. \A e \in logged' : ~e.format.conversion => Entered(e)'
  BY <1>3 DEF LoggerInv, Entered
<1>12. QED
  BY <1>8, <1>9, <1>10, <1>11 DEF LoggerInv, BufferOK, LineOK

(* fflush puts the lines of the stream, in order, behind those of the      *)
(* file.                                                                   *)
LEMMA FlushStep ==
    ASSUME LoggerInv, NEW t \in LogThreads, FlushLine(t)
    PROVE  LoggerInv'
<1> DEFINE c == logv[t]
           done == [thread |-> t, format |-> c.format]
<1>1. c \in Flushing
  BY KindsApart DEF LoggerInv, FlushLine
<1>2. /\ logv \in [LogThreads -> {NotLogging} \cup Printing \cup Writing \cup Flushing]
      /\ stream \in Seq(Seq(Characters)) /\ log_file \in Seq(Seq(Characters))
  BY DEF LoggerInv, LoggerTypeOK
<1>3. /\ logv' = [logv EXCEPT ![t] = NotLogging] /\ stream' = << >>
      /\ log_file' = log_file \o stream /\ logged' = logged \cup {done}
  BY DEF FlushLine
<1>4. c.format \in Formats /\ done \in [thread : LogThreads, format : Formats]
      /\ done.thread = t /\ done.format = c.format
  BY <1>1 DEF Flushing
<1>5. ~c.format.conversion => Put(LineOf(t, c.format.text))
  BY <1>1 DEF LoggerInv, PutOK
<1> HIDE DEF c, done
<1>6. /\ log_file' \in Seq(Seq(Characters)) /\ Len(log_file') = Len(log_file) + Len(stream)
      /\ \A i \in 1 .. Len(log_file) + Len(stream) :
            log_file'[i] = IF i <= Len(log_file) THEN log_file[i] ELSE stream[i - Len(log_file)]
  BY <1>2, <1>3, ConcatProperties
<1>7. Len(stream) \in Nat /\ Len(log_file) \in Nat
  BY <1>2
<1>8. ASSUME NEW line, Put(line)
      PROVE  \E i \in 1 .. Len(log_file') : log_file'[i] = line
  <2>1. CASE \E i \in 1 .. Len(log_file) : log_file[i] = line
    <3>1. PICK i \in 1 .. Len(log_file) : log_file[i] = line
      BY <2>1
    <3>2. i \in 1 .. Len(log_file') /\ i \in 1 .. Len(log_file) + Len(stream) /\ i <= Len(log_file)
      BY <1>6, <1>7
    <3>3. QED
      BY <1>6, <3>1, <3>2
  <2>2. CASE \E i \in 1 .. Len(stream) : stream[i] = line
    <3>1. PICK i \in 1 .. Len(stream) : stream[i] = line
      BY <2>2
    <3> DEFINE j == Len(log_file) + i
    <3>2. /\ j \in 1 .. Len(log_file') /\ j \in 1 .. Len(log_file) + Len(stream)
          /\ ~(j <= Len(log_file)) /\ j - Len(log_file) = i
      BY <1>6, <1>7
    <3> HIDE DEF j
    <3>3. QED
      BY <1>6, <3>1, <3>2
  <2>3. QED
    BY <1>8, <2>1, <2>2 DEF Put
<1>9. \A u \in LogThreads : logv'[u] = IF u = t THEN NotLogging ELSE logv[u]
  BY <1>2, <1>3
<1>10. NotLogging \notin Printing /\ NotLogging \notin Writing /\ NotLogging \notin Flushing
  BY DEF NotLogging, Printing, Writing, Flushing
<1>11. LoggerTypeOK'
  <2>1. << >> \in Seq(Seq(Characters))
    BY EmptySeq
  <2>2. logv' \in [LogThreads -> {NotLogging} \cup Printing \cup Writing \cup Flushing]
    BY <1>2, <1>3
  <2>3. logged' \subseteq [thread : LogThreads, format : Formats]
    BY <1>3, <1>4 DEF LoggerInv, LoggerTypeOK
  <2>4. QED
    BY <1>3, <1>6, <2>1, <2>2, <2>3 DEF LoggerTypeOK
<1>12. \A u \in LogThreads : BufferOK(u, logv'[u]) /\ LineOK(u, logv'[u])
  BY <1>9, <1>10 DEF LoggerInv, BufferOK, LineOK
<1>13. PutOK'
  <2> SUFFICES ASSUME NEW u \in LogThreads, logv'[u] \in Flushing, ~logv'[u].format.conversion
               PROVE  LET line == LineOf(u, logv'[u].format.text) IN
                      \/ \E i \in 1 .. Len(stream') : stream'[i] = line
                      \/ \E i \in 1 .. Len(log_file') : log_file'[i] = line
    BY DEF PutOK, Put, LineOf, Header
  <2>1. logv'[u] = logv[u]
    BY <1>9, <1>10
  <2>2. Put(LineOf(u, logv[u].format.text))
    BY <2>1 DEF LoggerInv, PutOK
  <2>3. QED
    BY <1>8, <2>1, <2>2
<1>14. \A e \in logged' : ~e.format.conversion => Entered(e)'
  <2> SUFFICES ASSUME NEW e \in logged', ~e.format.conversion
               PROVE  \E i \in 1 .. Len(log_file') : log_file'[i] = LineOf(e.thread, e.format.text)
    BY DEF Entered, LineOf, Header
  <2>1. Put(LineOf(e.thread, e.format.text))
    <3>1. CASE e = done
      BY <1>4, <1>5, <3>1
    <3>2. CASE e \in logged
      BY <3>2 DEF LoggerInv, Entered, Put
    <3>3. QED
      BY <1>3, <3>1, <3>2
  <2>2. QED
    BY <1>8, <2>1
<1>15. QED
  BY <1>11, <1>12, <1>13, <1>14 DEF LoggerInv, BufferOK, LineOK

(* LoggerInv holds in every state of every run of the logger.              *)
LEMMA LoggerInductive == LoggerSpec => []LoggerInv
<1>1. LoggerInit => LoggerInv
  <2> SUFFICES ASSUME LoggerInit PROVE LoggerInv
    OBVIOUS
  <2>1. << >> \in Seq(Seq(Characters))
    BY EmptySeq
  <2>2. LoggerTypeOK
    BY <2>1 DEF LoggerInit, LoggerTypeOK
  <2>3. NotLogging \notin Printing /\ NotLogging \notin Writing /\ NotLogging \notin Flushing
    BY DEF NotLogging, Printing, Writing, Flushing
  <2>4. QED
    BY <2>2, <2>3 DEF LoggerInit, LoggerInv, BufferOK, LineOK, PutOK
<1>2. LoggerInv /\ [LoggerNext]_loggerVars => LoggerInv'
  <2> SUFFICES ASSUME LoggerInv, [LoggerNext]_loggerVars PROVE LoggerInv'
    OBVIOUS
  <2>1. ASSUME NEW t \in LogThreads, NEW format \in Formats, LogCall(t, format) PROVE LoggerInv'
    BY <2>1, CallStep
  <2>2. ASSUME NEW t \in LogThreads, PrintLine(t) PROVE LoggerInv'
    BY <2>2, PrintStep
  <2>3. ASSUME NEW t \in LogThreads, WriteLine(t) PROVE LoggerInv'
    BY <2>3, WriteStep
  <2>4. ASSUME NEW t \in LogThreads, FlushLine(t) PROVE LoggerInv'
    BY <2>4, FlushStep
  <2>5. CASE UNCHANGED loggerVars
    <3>1. UNCHANGED <<logv, stream, log_file, logged>>
      BY <2>5 DEF loggerVars
    <3>2. LoggerTypeOK'
      BY <3>1 DEF LoggerInv, LoggerTypeOK
    <3>3. \A u \in LogThreads : BufferOK(u, logv'[u]) /\ LineOK(u, logv'[u])
      BY <3>1 DEF LoggerInv
    <3>4. PutOK'
      BY <3>1 DEF LoggerInv, PutOK, Put
    <3>5. \A e \in logged' : ~e.format.conversion => Entered(e)'
      BY <3>1 DEF LoggerInv, Entered
    <3>6. QED
      BY <3>2, <3>3, <3>4, <3>5 DEF LoggerInv, BufferOK, LineOK
  <2>6. QED
    BY <2>1, <2>2, <2>3, <2>4, <2>5 DEF LoggerNext
<1>3. QED
  BY <1>1, <1>2, PTL DEF LoggerSpec

\* Logv: what is written lies in the buffer, whatever was printed; a defined
\* message is never cut, and when Logv returns its whole line is in the file,
\* for any threads, buffer sizes and texts, if fwrite and fflush do not fail.
THEOREM LinesAreWhole == LoggerSpec => []LineWhole
<1>1. LoggerInv => LineWhole
  BY KindsApart DEF LoggerInv, LineOK, LineWhole
<1>2. QED
  BY <1>1, LoggerInductive, PTL

---------------------------------------------------------------------------
(* The checksum.                                                           *)

Words == SUBSET Bits32

Bytes == SUBSET Bits8

(* Exclusive or, bit by bit.                                               *)
LEMMA XorBits ==
    ASSUME NEW v, NEW w
    PROVE  \A i : i \in Xor(v, w) <=> ~(i \in v <=> i \in w)
  BY DEF Xor, FX!SymDiff

(* Exclusive or of words is a commutative group in which each word is its  *)
(* own inverse.                                                            *)
LEMMA XorWord ==
    ASSUME NEW v \in Words, NEW w \in Words
    PROVE  Xor(v, w) \in Words
  BY DEF Xor, FX!SymDiff, Words

\* The same.
LEMMA XorCommutes ==
    ASSUME NEW v, NEW w
    PROVE  Xor(v, w) = Xor(w, v)
  BY DEF Xor, FX!SymDiff

\* The same.
LEMMA XorAssociates ==
    ASSUME NEW u, NEW v, NEW w
    PROVE  Xor(Xor(u, v), w) = Xor(u, Xor(v, w))
  BY DEF Xor, FX!SymDiff

\* The same.
LEMMA XorNothing ==
    ASSUME NEW v
    PROVE  Xor(v, {}) = v /\ Xor({}, v) = v /\ Xor(v, v) = {}
  BY DEF Xor, FX!SymDiff

\* Four words in another order.
LEMMA XorFour ==
    ASSUME NEW t, NEW u, NEW v, NEW w
    PROVE  Xor(Xor(t, u), Xor(v, w)) = Xor(Xor(t, v), Xor(u, w))
  BY DEF Xor, FX!SymDiff

\* The bits of a word that is shifted.
LEMMA ShiftBits ==
    ASSUME NEW w \in Words, NEW k \in 0 .. 31
    PROVE  /\ ShiftRight(w, k) \in Words /\ ShiftLeft(w, k) \in Words
           /\ \A i : i \in ShiftRight(w, k) <=> i \in Bits32 /\ i + k \in w
           /\ \A i : i \in ShiftLeft(w, k) <=> i \in Bits32 /\ i - k \in w
<1>1. \A j \in w : j \in Int /\ 0 <= j /\ j <= 31
  BY DEF Words, Bits32
<1>2. ASSUME NEW i PROVE i \in ShiftRight(w, k) <=> i \in Bits32 /\ i + k \in w
  <2>1. i \in ShiftRight(w, k) <=> \E j \in w : j >= k /\ i = j - k
    BY DEF ShiftRight
  <2>2. ASSUME NEW j \in w, j >= k, i = j - k PROVE i \in Bits32 /\ i + k \in w
    <3>1. i + k = j /\ i \in Bits32
      BY <1>1, <2>2 DEF Bits32
    <3> QED
      BY <3>1
  <2>3. ASSUME i \in Bits32, i + k \in w PROVE i + k >= k /\ i = (i + k) - k
    BY <2>3 DEF Bits32
  <2> QED
    BY <2>1, <2>2, <2>3
<1>3. ASSUME NEW i PROVE i \in ShiftLeft(w, k) <=> i \in Bits32 /\ i - k \in w
  <2>1. i \in ShiftLeft(w, k) <=> (\E j \in w : i = j + k) /\ i <= 31
    BY DEF ShiftLeft
  <2>2. ASSUME NEW j \in w, i = j + k, i <= 31 PROVE i \in Bits32 /\ i - k \in w
    <3>1. i - k = j /\ i \in Bits32
      BY <1>1, <2>2 DEF Bits32
    <3> QED
      BY <3>1
  <2>3. ASSUME i \in Bits32, i - k \in w PROVE i <= 31 /\ i = (i - k) + k
    BY <2>3 DEF Bits32
  <2> QED
    BY <2>1, <2>2, <2>3
<1> QED
  BY <1>2, <1>3 DEF Words

\* Division of a word by the polynomial is linear.
LEMMA DivideWord ==
    ASSUME NEW w \in Words
    PROVE  /\ Divide(w) \in Words
           /\ \A i : i \in Divide(w) <=>
                i \in Bits32 /\ ~(i + 1 \in w <=> (0 \in w /\ i \in Polynomial))
<1>1. ShiftRight(w, 1) \in Words /\ \A i : i \in ShiftRight(w, 1) <=> i \in Bits32 /\ i + 1 \in w
  BY ShiftBits
<1>2. Polynomial \in Words
  BY DEF Polynomial, Words, Bits32
<1>3. CASE 0 \in w
  <2>1. Divide(w) = Xor(ShiftRight(w, 1), Polynomial)
    BY <1>3 DEF Divide
  <2>2. \A i : i \in Divide(w) <=> ~(i \in ShiftRight(w, 1) <=> i \in Polynomial)
    BY <2>1, XorBits
  <2>3. \A i : i \in Polynomial => i \in Bits32
    BY <1>2 DEF Words
  <2> HIDE DEF Divide
  <2> QED
    BY <1>1, <1>2, <1>3, <2>1, <2>2, <2>3, XorWord
<1>4. CASE 0 \notin w
  <2>1. Divide(w) = ShiftRight(w, 1)
    BY <1>4 DEF Divide
  <2> QED
    BY <1>1, <1>4, <2>1
<1> QED
  BY <1>3, <1>4

\* The same.
LEMMA DivideAdds ==
    ASSUME NEW v \in Words, NEW w \in Words
    PROVE  Divide(Xor(v, w)) = Xor(Divide(v), Divide(w))
<1> DEFINE x == Xor(v, w)
<1>1. x \in Words /\ \A i : i \in x <=> ~(i \in v <=> i \in w)
  BY XorWord, XorBits
<1> HIDE DEF x
<1>2. \A i : i \in Divide(x) <=>
               i \in Bits32 /\ ~(i + 1 \in x <=> (0 \in x /\ i \in Polynomial))
  BY <1>1, DivideWord
<1>3. \A i : i \in Xor(Divide(v), Divide(w)) <=> ~(i \in Divide(v) <=> i \in Divide(w))
  BY XorBits
<1>4. /\ \A i : i \in Divide(v) <=>
                i \in Bits32 /\ ~(i + 1 \in v <=> (0 \in v /\ i \in Polynomial))
      /\ \A i : i \in Divide(w) <=>
                i \in Bits32 /\ ~(i + 1 \in w <=> (0 \in w /\ i \in Polynomial))
  BY DivideWord
<1>5. \A i : i \in Divide(x) <=> i \in Xor(Divide(v), Divide(w))
  BY <1>1, <1>2, <1>3, <1>4
<1> QED
  BY <1>5 DEF x

\* Nothing leaves nothing.
LEMMA DivideNothing == {} \in Words /\ Divide({}) = {}
<1>1. {} \in Words
  BY DEF Words
<1>2. \A i : i \notin Divide({})
  BY <1>1, DivideWord
<1> QED
  BY <1>1, <1>2

\* f and g begin alike and go on alike.
GoAlike(f, g, n) == f[0] = g[0] /\ \A i \in 1 .. n : f[i - 1] = g[i - 1] => f[i] = g[i]

(* Then they are alike.                                                    *)
LEMMA Agree ==
    ASSUME NEW n \in Nat, NEW f, NEW g, GoAlike(f, g, n)
    PROVE  \A i \in 0 .. n : f[i] = g[i]
<1> DEFINE Z == {i \in Nat : i <= n => f[i] = g[i]}
<1>1. 0 \in Z
  BY DEF GoAlike
<1>2. ASSUME NEW i \in Nat, i \in Z PROVE i + 1 \in Z
  <2> SUFFICES ASSUME i + 1 <= n PROVE f[i + 1] = g[i + 1]
    OBVIOUS
  <2>1. f[i] = g[i]
    BY <1>2
  <2>2. i + 1 \in 1 .. n /\ (i + 1) - 1 = i
    OBVIOUS
  <2> QED
    BY <2>1, <2>2 DEF GoAlike
<1>3. Nat \subseteq Z
  <2> HIDE DEF Z
  <2> QED
    BY <1>1, <1>2, SetInduction
<1> QED
  BY <1>3

\* f divides again and again.
Divides(f, w, n) ==
    f \in [0 .. n -> Words] /\ f[0] = w /\ \A i \in 1 .. n : f[i] = Divide(f[i - 1])

(* Such a function exists, and tells what Advance returns.                 *)
LEMMA DividesExists ==
    ASSUME NEW w \in Words, NEW n \in Nat
    PROVE  \E f : Divides(f, w, n)
<1> DEFINE F == [q \in (1 .. n) \X Words |-> Divide(q[2])]
<1>1. \A i \in 1 .. n, v \in Words : F[<<i, v>>] = Divide(v)
  OBVIOUS
<1>2. F \in [(1 .. n) \X Words -> Words]
  BY DivideWord
<1> HIDE DEF F
<1>3. PICK f \in [0 .. n -> Words] : Recurs(f, n, w, F)
  BY <1>2, SegmentRecursion
<1>4. f[0] = w /\ \A i \in 1 .. n : f[i] = F[<<i, f[i - 1]>>]
  BY <1>3 DEF Recurs
<1>5. \A i \in 1 .. n : f[i - 1] \in Words
  <2>1. \A i \in 1 .. n : i - 1 \in 0 .. n
    OBVIOUS
  <2> QED
    BY <2>1
<1>6. \A i \in 1 .. n : f[i] = Divide(f[i - 1])
  BY <1>1, <1>4, <1>5
<1> QED
  BY <1>4, <1>6 DEF Divides

\* The same.
LEMMA AdvanceIs ==
    ASSUME NEW w \in Words, NEW n \in Nat, NEW f, Divides(f, w, n)
    PROVE  Advance(w, n) = f[n]
<1> DEFINE Is(g) == g = [i \in 0 .. n |-> IF i = 0 THEN w ELSE Divide(g[i - 1])]
           s == CHOOSE g : Is(g)
<1>0. /\ f \in [0 .. n -> Words] /\ f[0] = w /\ \A i \in 1 .. n : f[i] = Divide(f[i - 1])
  BY DEF Divides
<1>1. Is(f)
  <2>1. \A i \in 0 .. n : f[i] = IF i = 0 THEN w ELSE Divide(f[i - 1])
    <3> TAKE i \in 0 .. n
    <3>1. i = 0 \/ i \in 1 .. n
      OBVIOUS
    <3> QED
      BY <1>0, <3>1
  <2> QED
    BY <1>0, <2>1
<1>2. Is(s)
  BY <1>1, Zenon
<1>3. Advance(w, n) = IF w = {} THEN {} ELSE s[n]
  BY Zenon DEF Advance
<1> HIDE DEF s
<1>4. \A i \in 0 .. n : s[i] = IF i = 0 THEN w ELSE Divide(s[i - 1])
  BY <1>2, Zenon
<1>5. s[0] = w /\ \A i \in 1 .. n : s[i] = Divide(s[i - 1])
  <2>1. 0 \in 0 .. n /\ \A i \in 1 .. n : i \in 0 .. n /\ i # 0
    OBVIOUS
  <2> QED
    BY <1>4, <2>1
<1>6. s[n] = f[n]
  <2>1. GoAlike(s, f, n)
    BY <1>0, <1>5 DEF GoAlike
  <2>2. \A i \in 0 .. n : s[i] = f[i]
    BY <2>1, Agree
  <2>3. n \in 0 .. n
    OBVIOUS
  <2> QED
    BY <2>2, <2>3
<1>7. CASE w = {}
  <2> DEFINE z == [i \in 0 .. n |-> {}]
  <2>0. z[0] = {} /\ \A i \in 0 .. n : z[i] = {}
    OBVIOUS
  <2> HIDE DEF z
  <2>1. ASSUME NEW i \in 1 .. n, z[i - 1] = f[i - 1] PROVE z[i] = f[i]
    <3>1. i \in 0 .. n /\ i - 1 \in 0 .. n
      OBVIOUS
    <3> QED
      BY <1>0, <2>0, <2>1, <3>1, DivideNothing
  <2>2. \A i \in 0 .. n : z[i] = f[i]
    <3>1. GoAlike(z, f, n)
      BY <1>0, <1>7, <2>0, <2>1 DEF GoAlike
    <3> QED
      BY <3>1, Agree
  <2>3. n \in 0 .. n
    OBVIOUS
  <2> QED
    BY <1>3, <1>7, <2>0, <2>2, <2>3
<1> QED
  BY <1>3, <1>6, <1>7

\* No bits more, and one bit more.
LEMMA AdvanceSteps ==
    ASSUME NEW w \in Words
    PROVE  /\ Advance(w, 0) = w
           /\ \A n \in Nat : /\ Advance(w, n) \in Words
                            /\ Advance(w, n + 1) = Divide(Advance(w, n))
<1>1. Advance(w, 0) = w
  <2>1. PICK f : Divides(f, w, 0)
    BY DividesExists
  <2> QED
    BY <2>1, AdvanceIs DEF Divides
<1>2. ASSUME NEW n \in Nat
      PROVE  Advance(w, n) \in Words /\ Advance(w, n + 1) = Divide(Advance(w, n))
  <2>0. n + 1 \in Nat
    OBVIOUS
  <2>1. PICK f : Divides(f, w, n + 1)
    BY <2>0, DividesExists
  <2>2. /\ f \in [0 .. n + 1 -> Words] /\ f[0] = w
        /\ \A i \in 1 .. n + 1 : f[i] = Divide(f[i - 1])
    BY <2>1 DEF Divides
  <2> DEFINE g == [i \in 0 .. n |-> f[i]]
  <2>3. /\ 0 \in 0 .. n /\ n \in 0 .. n
        /\ \A i \in 0 .. n : i \in 0 .. n + 1
        /\ \A i \in 1 .. n : i \in 0 .. n /\ i - 1 \in 0 .. n /\ i \in 1 .. n + 1
    OBVIOUS
  <2>4. \A i \in 0 .. n : g[i] = f[i]
    OBVIOUS
  <2>5. g \in [0 .. n -> Words]
    BY <2>2, <2>3
  <2> HIDE DEF g
  <2>6. Divides(g, w, n)
    BY <2>2, <2>3, <2>4, <2>5 DEF Divides
  <2>7. Advance(w, n) = f[n] /\ f[n] \in Words
    <3>1. Advance(w, n) = g[n]
      BY <2>6, AdvanceIs
    <3> QED
      BY <2>2, <2>3, <2>4, <3>1
  <2>8. Advance(w, n + 1) = f[n + 1]
    BY <2>0, <2>1, AdvanceIs
  <2>9. f[n + 1] = Divide(f[n])
    <3>1. n + 1 \in 1 .. n + 1 /\ (n + 1) - 1 = n
      OBVIOUS
    <3> QED
      BY <2>2, <3>1
  <2> QED
    BY <2>7, <2>8, <2>9
<1> QED
  BY <1>1, <1>2

\* Some bits, and then some more.
LEMMA AdvanceTwice ==
    ASSUME NEW w \in Words, NEW m \in Nat, NEW n \in Nat
    PROVE  Advance(Advance(w, m), n) = Advance(w, m + n)
<1> DEFINE v == Advance(w, m)
           Z == {k \in Nat : Advance(v, k) = Advance(w, m + k)}
<1>0. v \in Words
  BY AdvanceSteps
<1> HIDE DEF v
<1>1. 0 \in Z
  <2>1. Advance(v, 0) = v
    BY <1>0, AdvanceSteps
  <2>2. m + 0 = m
    OBVIOUS
  <2> QED
    BY <2>1, <2>2 DEF v
<1>2. ASSUME NEW k \in Nat, k \in Z PROVE k + 1 \in Z
  <2>1. Advance(v, k + 1) = Divide(Advance(v, k))
    BY <1>0, AdvanceSteps
  <2>2. m + k \in Nat /\ m + (k + 1) = (m + k) + 1 /\ k + 1 \in Nat
    OBVIOUS
  <2>3. Advance(w, (m + k) + 1) = Divide(Advance(w, m + k))
    BY <2>2, AdvanceSteps
  <2> QED
    BY <1>2, <2>1, <2>2, <2>3
<1>3. Nat \subseteq Z
  <2> HIDE DEF Z
  <2> QED
    BY <1>1, <1>2, SetInduction
<1> QED
  BY <1>3 DEF v

\* Advancing is linear.
LEMMA AdvanceAdds ==
    ASSUME NEW v \in Words, NEW w \in Words, NEW n \in Nat
    PROVE  Advance(Xor(v, w), n) = Xor(Advance(v, n), Advance(w, n))
<1> DEFINE x == Xor(v, w)
           Z == {k \in Nat : Advance(x, k) = Xor(Advance(v, k), Advance(w, k))}
<1>0. x \in Words
  BY XorWord
<1>1. 0 \in Z
  BY <1>0, AdvanceSteps
<1> HIDE DEF x
<1>2. ASSUME NEW k \in Nat, k \in Z PROVE k + 1 \in Z
  <2>1. /\ Advance(x, k + 1) = Divide(Advance(x, k))
        /\ Advance(v, k + 1) = Divide(Advance(v, k)) /\ Advance(v, k) \in Words
        /\ Advance(w, k + 1) = Divide(Advance(w, k)) /\ Advance(w, k) \in Words
    BY <1>0, AdvanceSteps
  <2>2. Divide(Xor(Advance(v, k), Advance(w, k)))
          = Xor(Divide(Advance(v, k)), Divide(Advance(w, k)))
    BY <2>1, DivideAdds
  <2>3. k + 1 \in Nat
    OBVIOUS
  <2> QED
    BY <1>2, <2>1, <2>2, <2>3
<1>3. Nat \subseteq Z
  <2> HIDE DEF Z
  <2> QED
    BY <1>1, <1>2, SetInduction
<1> QED
  BY <1>3 DEF x

\* Nothing stays nothing.
LEMMA AdvanceNothing ==
    ASSUME NEW n \in Nat
    PROVE  Advance({}, n) = {}
  BY DEF Advance

\* A word with no bits below n is shifted by n.
LEMMA HighShifts ==
    ASSUME NEW w \in Words, NEW n \in 0 .. 31, \A i \in w : i >= n
    PROVE  Advance(w, n) = ShiftRight(w, n)
<1> DEFINE Z == {k \in Nat : k <= n => Advance(w, k) = ShiftRight(w, k)}
<1>0. \A i \in w : i \in Nat
  BY DEF Words, Bits32
<1>1. 0 \in Z
  <2>1. \A i : i \in ShiftRight(w, 0) <=> i \in Bits32 /\ i + 0 \in w
    BY ShiftBits
  <2>2. \A i : i \in Bits32 => i + 0 = i
    BY DEF Bits32
  <2>3. \A i : i \in ShiftRight(w, 0) <=> i \in w
    BY <2>1, <2>2 DEF Words
  <2>4. ShiftRight(w, 0) = w
    BY <2>3
  <2> QED
    BY <2>4, AdvanceSteps
<1>2. ASSUME NEW k \in Nat, k \in Z PROVE k + 1 \in Z
  <2> SUFFICES ASSUME k + 1 <= n PROVE Advance(w, k + 1) = ShiftRight(w, k + 1)
    OBVIOUS
  <2> DEFINE v == ShiftRight(w, k)
  <2>1. k \in 0 .. 31 /\ k + 1 \in 0 .. 31
    OBVIOUS
  <2>2. v \in Words /\ \A i : i \in v <=> i \in Bits32 /\ i + k \in w
    BY <2>1, ShiftBits
  <2>3. \A i : i \in ShiftRight(w, k + 1) <=> i \in Bits32 /\ i + (k + 1) \in w
    BY <2>1, ShiftBits
  <2>4. Advance(w, k + 1) = Divide(v)
    BY <1>2, AdvanceSteps
  <2> HIDE DEF v
  <2>5. 0 \notin v
    <3>1. 0 + k < n
      OBVIOUS
    <3>2. 0 + k \notin w
      BY <3>1
    <3> QED
      BY <2>2, <3>2
  <2>6. \A i : i \in Divide(v) <=> i \in Bits32 /\ i + 1 \in v
    BY <2>2, <2>5, DivideWord
  <2>7. ASSUME NEW i \in Bits32 PROVE i + 1 \in v <=> i + (k + 1) \in w
    <3>1. (i + 1) + k = i + (k + 1)
      BY DEF Bits32
    <3>2. i + (k + 1) \in w => i + 1 \in Bits32
      <4>1. i + (k + 1) \in w => i + (k + 1) <= 31
        BY DEF Words, Bits32
      <4> QED
        BY <4>1 DEF Bits32
    <3> QED
      BY <2>2, <3>1, <3>2
  <2>8. \A i : i \in Divide(v) <=> i \in ShiftRight(w, k + 1)
    BY <2>3, <2>6, <2>7
  <2> QED
    BY <2>4, <2>8
<1>3. Nat \subseteq Z
  <2> HIDE DEF Z
  <2> QED
    BY <1>1, <1>2, SetInduction
<1> QED
  BY <1>3

(* Bytes.                                                                  *)
LEMMA ByteIs ==
    /\ \A b \in Bytes : b \in Words
    /\ \A n : Byte(n) \in Bytes
<1>1. \A i \in Bits8 : i \in Bits32
  BY DEF Bits8, Bits32
<1> QED
  BY <1>1 DEF Bytes, Words, Byte

\* STEP1 takes a byte: eight bits more.
LEMMA StepByte ==
    ASSUME NEW w \in Words, NEW b \in Bytes
    PROVE  STEP1(w, b) = Advance(Xor(w, b), 8) /\ STEP1(w, b) \in Words
<1> DEFINE x == Xor(w, b)
           low == Xor(w \cap Bits8, b)
           high == w \ Bits8
<1>1. b \in Words /\ low \in Bytes /\ low \in Words /\ high \in Words /\ x \in Words
  <2>1. b \in Words /\ x \in Words /\ high \in Words
    BY ByteIs, XorWord DEF Words
  <2>2. low \in Bytes
    BY XorBits DEF Bytes
  <2> QED
    BY <2>1, <2>2, ByteIs
<1>2. x = Xor(low, high)
  <2>1. \A i : i \in b => i \in Bits8
    BY DEF Bytes
  <2>2. \A i : i \in x <=> i \in Xor(low, high)
    BY <2>1, XorBits
  <2> HIDE DEF x, low, high
  <2> QED
    BY <2>2
<1>3. \A i : i \in ShiftRight(w, 8) <=> i \in ShiftRight(high, 8)
  <2>1. ASSUME NEW i \in Bits32 PROVE i + 8 \notin Bits8
    BY DEF Bits8, Bits32
  <2>2. \A i : i \in ShiftRight(w, 8) <=> i \in Bits32 /\ i + 8 \in w
    BY ShiftBits
  <2>3. \A i : i \in ShiftRight(high, 8) <=> i \in Bits32 /\ i + 8 \in high
    BY <1>1, ShiftBits
  <2> QED
    BY <2>1, <2>2, <2>3
<1>4. Advance(high, 8) = ShiftRight(w, 8)
  <2>1. \A i \in high : i >= 8
    BY DEF Words, Bits32, Bits8
  <2>2. Advance(high, 8) = ShiftRight(high, 8)
    BY <1>1, <2>1, HighShifts
  <2> HIDE DEF high
  <2> QED
    BY <1>3, <2>2
<1>5. STEP1(w, b) = Xor(Advance(low, 8), Advance(high, 8))
  <2>1. kByteExtensionTable[low] = Advance(low, 8)
    BY <1>1 DEF kByteExtensionTable, Bytes
  <2> QED
    BY <1>4, <2>1 DEF STEP1
<1> HIDE DEF low, high
<1>6. Advance(x, 8) = Xor(Advance(low, 8), Advance(high, 8))
  BY <1>1, <1>2, AdvanceAdds
<1>7. Advance(x, 8) \in Words
  BY <1>1, AdvanceSteps
<1> QED
  BY <1>5, <1>6, <1>7

\* ... and a byte of zeros.
LEMMA StepZero ==
    ASSUME NEW w \in Words
    PROVE  STEP1(w, {}) = Advance(w, 8) /\ STEP1(w, {}) \in Words
<1>1. {} \in Bytes
  BY DEF Bytes
<1> QED
  BY <1>1, StepByte, XorNothing

\* Sixteen bytes of zeros.
LEMMA SwathIs ==
    ASSUME NEW w \in Words
    PROVE  NextSwath(w) = Advance(w, 128)
<1> DEFINE Is(g) == g = [i \in 0 .. 16 |-> IF i = 0 THEN w ELSE STEP1(g[i - 1], {})]
           s == CHOOSE g : Is(g)
           f == [i \in 0 .. 16 |-> Advance(w, 8 * i)]
<1>0. \A i \in 0 .. 16 : f[i] = Advance(w, 8 * i) /\ f[i] \in Words
  BY AdvanceSteps
<1>1. f[0] = w
  <2>1. 0 \in 0 .. 16 /\ 8 * 0 = 0
    OBVIOUS
  <2> QED
    BY <1>0, <2>1, AdvanceSteps
<1>2. ASSUME NEW i \in 1 .. 16 PROVE f[i] = STEP1(f[i - 1], {})
  <2>1. i \in 0 .. 16 /\ i - 1 \in 0 .. 16 /\ 8 * (i - 1) \in Nat /\ 8 * (i - 1) + 8 = 8 * i
    OBVIOUS
  <2>2. f[i - 1] = Advance(w, 8 * (i - 1)) /\ f[i - 1] \in Words /\ f[i] = Advance(w, 8 * i)
    BY <1>0, <2>1
  <2>3. STEP1(f[i - 1], {}) = Advance(f[i - 1], 8)
    BY <2>2, StepZero
  <2>4. Advance(Advance(w, 8 * (i - 1)), 8) = Advance(w, 8 * (i - 1) + 8)
    BY <2>1, AdvanceTwice
  <2> QED
    BY <2>1, <2>2, <2>3, <2>4
<1>3. Is(f)
  <2>1. \A i \in 0 .. 16 : f[i] = IF i = 0 THEN w ELSE STEP1(f[i - 1], {})
    <3> TAKE i \in 0 .. 16
    <3>1. i = 0 \/ i \in 1 .. 16
      OBVIOUS
    <3> QED
      BY <1>1, <1>2, <3>1
  <2>2. f \in [0 .. 16 -> Words]
    BY <1>0
  <2> HIDE DEF f
  <2> QED
    BY <2>1, <2>2
<1> HIDE DEF f
<1>4. Is(s)
  BY <1>3, Zenon
<1>5. NextSwath(w) = s[16]
  BY Zenon DEF NextSwath
<1> HIDE DEF s
<1>6. \A i \in 0 .. 16 : s[i] = IF i = 0 THEN w ELSE STEP1(s[i - 1], {})
  BY <1>4, Zenon
<1>7. s[0] = w /\ \A i \in 1 .. 16 : s[i] = STEP1(s[i - 1], {})
  <2>1. 0 \in 0 .. 16 /\ \A i \in 1 .. 16 : i \in 0 .. 16 /\ i # 0
    OBVIOUS
  <2> QED
    BY <1>6, <2>1
<1>8. \A i \in 0 .. 16 : s[i] = f[i]
  <2>1. GoAlike(s, f, 16)
    BY <1>1, <1>2, <1>7 DEF GoAlike
  <2>2. 16 \in Nat
    OBVIOUS
  <2> QED
    BY <2>1, <2>2, Agree
<1>9. 16 \in 0 .. 16 /\ 8 * 16 = 128
  OBVIOUS
<1> QED
  BY <1>0, <1>5, <1>8, <1>9

\* A byte in its place, and back from there.
LEMMA ByteInPlace ==
    ASSUME NEW b \in Bytes, NEW k \in 0 .. 3
    PROVE  /\ ShiftLeft(b, 8 * k) \in Words
           /\ Advance(ShiftLeft(b, 8 * k), 8 * k) = b
           /\ \A i : i \in ShiftLeft(b, 8 * k) <=> i - 8 * k \in b /\ i \in Bits32
<1> DEFINE n == 8 * k
           v == ShiftLeft(b, n)
<1>0. n \in 0 .. 24 /\ n \in 0 .. 31
  OBVIOUS
<1>1. b \in Words /\ \A i \in b : i \in 0 .. 7
  BY ByteIs DEF Bytes, Bits8
<1> HIDE DEF n
<1>2. v \in Words /\ \A i : i \in v <=> i \in Bits32 /\ i - n \in b
  BY <1>0, <1>1, ShiftBits
<1> HIDE DEF v
<1>3. \A i \in v : i >= n
  <2> TAKE i \in v
  <2>1. i \in Bits32 /\ i - n \in 0 .. 7
    BY <1>1, <1>2
  <2> QED
    BY <1>0, <2>1 DEF Bits32
<1>4. Advance(v, n) = ShiftRight(v, n)
  BY <1>0, <1>2, <1>3, HighShifts
<1>5. \A i : i \in ShiftRight(v, n) <=> i \in Bits32 /\ i + n \in v
  BY <1>0, <1>2, ShiftBits
<1>6. ASSUME NEW i \in Bits32 PROVE i + n \in v <=> i \in b
  <2>1. (i + n) - n = i
    BY <1>0 DEF Bits32
  <2>2. i \in b => i + n \in Bits32
    BY <1>0, <1>1 DEF Bits32
  <2> QED
    BY <1>2, <2>1, <2>2
<1>7. \A i : i \in ShiftRight(v, n) <=> i \in b
  BY <1>1, <1>5, <1>6 DEF Words
<1>8. ShiftRight(v, n) = b
  BY <1>7
<1> QED
  BY <1>2, <1>4, <1>8 DEF v, n

\* A word of four bytes.
FourBytes(a, b, c, d) ==
    Xor(Xor(a, ShiftLeft(b, 8)), Xor(ShiftLeft(c, 16), ShiftLeft(d, 24)))

(* The bytes have places of their own.                                     *)
LEMMA Places ==
    ASSUME NEW a \in Bytes, NEW b \in Bytes, NEW c \in Bytes, NEW d \in Bytes
    PROVE  /\ a \in Words /\ ShiftLeft(a, 0) = a /\ ShiftLeft(b, 8) \in Words
           /\ ShiftLeft(c, 16) \in Words /\ ShiftLeft(d, 24) \in Words
           /\ \A i \in a : i \in 0 .. 7
           /\ \A i : i \in ShiftLeft(b, 8) <=> i - 8 \in b /\ i \in 8 .. 15
           /\ \A i : i \in ShiftLeft(c, 16) <=> i - 16 \in c /\ i \in 16 .. 23
           /\ \A i : i \in ShiftLeft(d, 24) <=> i - 24 \in d /\ i \in 24 .. 31
<1>0. \A x \in Bytes : \A i \in x : i \in 0 .. 7
  BY DEF Bytes, Bits8
<1>1. a \in Words /\ ShiftLeft(a, 0) = a
  <2>1. 0 \in 0 .. 3 /\ 8 * 0 = 0
    OBVIOUS
  <2>2. Advance(ShiftLeft(a, 0), 0) = a /\ ShiftLeft(a, 0) \in Words
    BY <2>1, ByteInPlace
  <2> QED
    BY <2>2, ByteIs, AdvanceSteps
<1>2. /\ ShiftLeft(b, 8) \in Words
      /\ \A i : i \in ShiftLeft(b, 8) <=> i - 8 \in b /\ i \in 8 .. 15
  <2>1. 1 \in 0 .. 3 /\ 8 * 1 = 8
    OBVIOUS
  <2>2. ShiftLeft(b, 8) \in Words /\ \A i : i \in ShiftLeft(b, 8) <=> i - 8 \in b /\ i \in Bits32
    BY <2>1, ByteInPlace
  <2>3. ASSUME NEW i \in Bits32, i - 8 \in b PROVE i \in 8 .. 15
    <3>1. i - 8 \in 0 .. 7
      BY <1>0, <2>3
    <3> QED
      BY <3>1 DEF Bits32
  <2>4. \A i \in 8 .. 15 : i \in Bits32
    BY DEF Bits32
  <2> QED
    BY <2>2, <2>3, <2>4
<1>3. /\ ShiftLeft(c, 16) \in Words
      /\ \A i : i \in ShiftLeft(c, 16) <=> i - 16 \in c /\ i \in 16 .. 23
  <2>1. 2 \in 0 .. 3 /\ 8 * 2 = 16
    OBVIOUS
  <2>2. ShiftLeft(c, 16) \in Words /\ \A i : i \in ShiftLeft(c, 16) <=> i - 16 \in c /\ i \in Bits32
    BY <2>1, ByteInPlace
  <2>3. ASSUME NEW i \in Bits32, i - 16 \in c PROVE i \in 16 .. 23
    <3>1. i - 16 \in 0 .. 7
      BY <1>0, <2>3
    <3> QED
      BY <3>1 DEF Bits32
  <2>4. \A i \in 16 .. 23 : i \in Bits32
    BY DEF Bits32
  <2> QED
    BY <2>2, <2>3, <2>4
<1>4. /\ ShiftLeft(d, 24) \in Words
      /\ \A i : i \in ShiftLeft(d, 24) <=> i - 24 \in d /\ i \in 24 .. 31
  <2>1. 3 \in 0 .. 3 /\ 8 * 3 = 24
    OBVIOUS
  <2>2. ShiftLeft(d, 24) \in Words /\ \A i : i \in ShiftLeft(d, 24) <=> i - 24 \in d /\ i \in Bits32
    BY <2>1, ByteInPlace
  <2>3. ASSUME NEW i \in Bits32, i - 24 \in d PROVE i \in 24 .. 31
    <3>1. i - 24 \in 0 .. 7
      BY <1>0, <2>3
    <3> QED
      BY <3>1 DEF Bits32
  <2>4. \A i \in 24 .. 31 : i \in Bits32
    BY DEF Bits32
  <2> QED
    BY <2>2, <2>3, <2>4
<1> QED
  BY <1>0, <1>1, <1>2, <1>3, <1>4

\* So the word is what is in them together.
LEMMA FourBits ==
    ASSUME NEW a \in Bytes, NEW b \in Bytes, NEW c \in Bytes, NEW d \in Bytes
    PROVE  /\ FourBytes(a, b, c, d) \in Words
           /\ \A i : i \in FourBytes(a, b, c, d) <=>
                \/ i \in a \/ i \in ShiftLeft(b, 8)
                \/ i \in ShiftLeft(c, 16) \/ i \in ShiftLeft(d, 24)
<1> DEFINE x == ShiftLeft(b, 8)
           y == ShiftLeft(c, 16)
           z == ShiftLeft(d, 24)
<1>1. /\ a \in Words /\ x \in Words /\ y \in Words /\ z \in Words
      /\ \A i \in a : i \in 0 .. 7
      /\ \A i \in x : i \in 8 .. 15
      /\ \A i \in y : i \in 16 .. 23
      /\ \A i \in z : i \in 24 .. 31
  BY Places
<1> HIDE DEF x, y, z
<1>2. /\ \A i : i \in a => i \notin x /\ i \notin y /\ i \notin z
      /\ \A i : i \in x => i \notin y /\ i \notin z
      /\ \A i : i \in y => i \notin z
  BY <1>1
<1>3. \A i : i \in Xor(a, x) <=> i \in a \/ i \in x
  BY <1>2, XorBits
<1>4. \A i : i \in Xor(y, z) <=> i \in y \/ i \in z
  BY <1>2, XorBits
<1>5. \A i : i \in Xor(Xor(a, x), Xor(y, z)) <=> (i \in a \/ i \in x) \/ (i \in y \/ i \in z)
  BY <1>2, <1>3, <1>4, XorBits
<1>6. Xor(Xor(a, x), Xor(y, z)) \in Words
  BY <1>1, XorWord
<1> QED
  BY <1>5, <1>6 DEF FourBytes, x, y, z

\* ReadUint32LE puts four bytes together.
LEMMA ReadIs ==
    ASSUME NEW bytes, NEW n
    PROVE  /\ ReadUint32LE(bytes, n) =
                FourBytes(Byte(bytes[n + 1]), Byte(bytes[n + 2]), Byte(bytes[n + 3]), Byte(bytes[n + 4]))
           /\ ReadUint32LE(bytes, n) \in Words
<1> DEFINE a == Byte(bytes[n + 1])
           b == Byte(bytes[n + 2])
           c == Byte(bytes[n + 3])
           d == Byte(bytes[n + 4])
           f(k) == ShiftLeft(Byte(bytes[n + k]), 8 * (k - 1))
           r == ReadUint32LE(bytes, n)
<1>1. a \in Bytes /\ b \in Bytes /\ c \in Bytes /\ d \in Bytes
  BY ByteIs
<1>2. /\ f(1) = ShiftLeft(a, 0) /\ f(2) = ShiftLeft(b, 8)
      /\ f(3) = ShiftLeft(c, 16) /\ f(4) = ShiftLeft(d, 24)
  <2>1. 8 * (1 - 1) = 0 /\ 8 * (2 - 1) = 8 /\ 8 * (3 - 1) = 16 /\ 8 * (4 - 1) = 24
    OBVIOUS
  <2> QED
    BY <2>1
<1>3. \A i : i \in r <=> \E k \in 1 .. 4 : i \in f(k)
  BY DEF ReadUint32LE
<1> HIDE DEF r, f
<1>4. \A i : i \in r <=> i \in f(1) \/ i \in f(2) \/ i \in f(3) \/ i \in f(4)
  <2>1. \A k : k \in 1 .. 4 <=> k = 1 \/ k = 2 \/ k = 3 \/ k = 4
    OBVIOUS
  <2> QED
    BY <1>3, <2>1
<1> HIDE DEF a, b, c, d
<1>5. ShiftLeft(a, 0) = a
  BY <1>1, Places
<1>6. \A i : i \in r <=> i \in FourBytes(a, b, c, d)
  BY <1>1, <1>2, <1>4, <1>5, FourBits
<1>7. r = FourBytes(a, b, c, d) /\ FourBytes(a, b, c, d) \in Words
  BY <1>1, <1>6, FourBits
<1> QED
  BY <1>7 DEF a, b, c, d, r

\* And every word is four bytes.
LEMMA WordIs ==
    ASSUME NEW w \in Words
    PROVE  /\ \A k \in 0 .. 3 : ByteOfWord(w, k) \in Bytes
           /\ w = FourBytes(ByteOfWord(w, 0), ByteOfWord(w, 1), ByteOfWord(w, 2), ByteOfWord(w, 3))
<1>1. ASSUME NEW k \in 0 .. 3
      PROVE  /\ ByteOfWord(w, k) \in Bytes
             /\ \A i : i \in ByteOfWord(w, k) <=> i \in 0 .. 7 /\ i + 8 * k \in w
  <2>1. 8 * k \in 0 .. 31
    OBVIOUS
  <2>2. \A i : i \in ShiftRight(w, 8 * k) <=> i \in Bits32 /\ i + 8 * k \in w
    BY <2>1, ShiftBits
  <2>3. \A i : (i \in Bits8 <=> i \in 0 .. 7) /\ (i \in 0 .. 7 => i \in Bits32)
    BY DEF Bits8, Bits32
  <2> DEFINE v == ShiftRight(w, 8 * k)
  <2>4. ByteOfWord(w, k) = v \cap Bits8
    BY DEF ByteOfWord
  <2>5. v \cap Bits8 \in Bytes
    BY DEF Bytes
  <2> HIDE DEF v
  <2>6. \A i : i \in v \cap Bits8 <=> i \in v /\ i \in Bits8
    OBVIOUS
  <2>7. ASSUME NEW i PROVE i \in v \cap Bits8 <=> i \in 0 .. 7 /\ i + 8 * k \in w
    <3>1. i \in v <=> i \in Bits32 /\ i + 8 * k \in w
      BY <2>2 DEF v
    <3>2. (i \in Bits8 <=> i \in 0 .. 7) /\ (i \in 0 .. 7 => i \in Bits32)
      BY <2>3
    <3>3. i \in v \cap Bits8 <=> i \in v /\ i \in Bits8
      BY <2>6
    <3> QED
      BY <3>1, <3>2, <3>3
  <2> QED
    BY <2>4, <2>5, <2>7
<1> DEFINE a == ByteOfWord(w, 0)
           b == ByteOfWord(w, 1)
           c == ByteOfWord(w, 2)
           d == ByteOfWord(w, 3)
<1>2. /\ a \in Bytes /\ b \in Bytes /\ c \in Bytes /\ d \in Bytes
      /\ \A i : i \in a <=> i \in 0 .. 7 /\ i + 8 * 0 \in w
      /\ \A i : i \in b <=> i \in 0 .. 7 /\ i + 8 * 1 \in w
      /\ \A i : i \in c <=> i \in 0 .. 7 /\ i + 8 * 2 \in w
      /\ \A i : i \in d <=> i \in 0 .. 7 /\ i + 8 * 3 \in w
  <2>1. 0 \in 0 .. 3 /\ 1 \in 0 .. 3 /\ 2 \in 0 .. 3 /\ 3 \in 0 .. 3
    OBVIOUS
  <2> QED
    BY <1>1, <2>1
<1> HIDE DEF a, b, c, d
<1>3. /\ \A i : i \in ShiftLeft(b, 8) <=> i - 8 \in b /\ i \in 8 .. 15
      /\ \A i : i \in ShiftLeft(c, 16) <=> i - 16 \in c /\ i \in 16 .. 23
      /\ \A i : i \in ShiftLeft(d, 24) <=> i - 24 \in d /\ i \in 24 .. 31
  BY <1>2, Places
<1>4. /\ \A i : i \in a <=> i \in 0 .. 7 /\ i \in w
      /\ \A i : i \in ShiftLeft(b, 8) <=> i \in 8 .. 15 /\ i \in w
      /\ \A i : i \in ShiftLeft(c, 16) <=> i \in 16 .. 23 /\ i \in w
      /\ \A i : i \in ShiftLeft(d, 24) <=> i \in 24 .. 31 /\ i \in w
  <2>1. \A i \in 0 .. 7 : i + 8 * 0 = i
    OBVIOUS
  <2>2. \A i \in 8 .. 15 : (i - 8) + 8 * 1 = i /\ i - 8 \in 0 .. 7
    OBVIOUS
  <2>3. \A i \in 16 .. 23 : (i - 16) + 8 * 2 = i /\ i - 16 \in 0 .. 7
    OBVIOUS
  <2>4. \A i \in 24 .. 31 : (i - 24) + 8 * 3 = i /\ i - 24 \in 0 .. 7
    OBVIOUS
  <2>5. \A i : i \in a <=> i \in 0 .. 7 /\ i \in w
    BY <1>2, <2>1
  <2>6. \A i : i \in ShiftLeft(b, 8) <=> i \in 8 .. 15 /\ i \in w
    BY <1>2, <1>3, <2>2
  <2>7. \A i : i \in ShiftLeft(c, 16) <=> i \in 16 .. 23 /\ i \in w
    BY <1>2, <1>3, <2>3
  <2>8. \A i : i \in ShiftLeft(d, 24) <=> i \in 24 .. 31 /\ i \in w
    BY <1>2, <1>3, <2>4
  <2> QED
    BY <2>5, <2>6, <2>7, <2>8
<1>5. \A i \in w : i \in 0 .. 7 \/ i \in 8 .. 15 \/ i \in 16 .. 23 \/ i \in 24 .. 31
  BY DEF Words, Bits32
<1>6. \A i : i \in FourBytes(a, b, c, d) <=>
               \/ i \in a \/ i \in ShiftLeft(b, 8) \/ i \in ShiftLeft(c, 16) \/ i \in ShiftLeft(d, 24)
  BY <1>2, FourBits
<1>7. \A i : i \in w <=> i \in FourBytes(a, b, c, d)
  BY <1>4, <1>5, <1>6
<1>8. w = FourBytes(a, b, c, d)
  BY <1>7
<1> QED
  BY <1>1, <1>8 DEF a, b, c, d

\* A byte more behind the first k.
LEMMA ByteMore ==
    ASSUME NEW w \in Words, NEW b \in Bytes, NEW k \in 0 .. 3
    PROVE  /\ Xor(w, ShiftLeft(b, 8 * k)) \in Words
           /\ Advance(Xor(Advance(w, 8 * k), b), 8) = Advance(Xor(w, ShiftLeft(b, 8 * k)), 8 * k + 8)
<1> DEFINE n == 8 * k
           v == ShiftLeft(b, n)
           x == Xor(w, v)
<1>0. n \in Nat
  OBVIOUS
<1>1. v \in Words /\ Advance(v, n) = b
  BY ByteInPlace
<1> HIDE DEF n, v
<1>2. x \in Words /\ Advance(x, n) = Xor(Advance(w, n), b)
  BY <1>0, <1>1, XorWord, AdvanceAdds
<1> HIDE DEF x
<1>3. Advance(Advance(x, n), 8) = Advance(x, n + 8)
  BY <1>0, <1>2, AdvanceTwice
<1> QED
  BY <1>2, <1>3 DEF x, v, n

\* Four bytes one after the other, or a word at once.
LEMMA FourAtOnce ==
    ASSUME NEW w \in Words, NEW a \in Bytes, NEW b \in Bytes, NEW c \in Bytes, NEW d \in Bytes,
           NEW t, t = Advance(Xor(w, a), 8), NEW u, u = Advance(Xor(t, b), 8),
           NEW v, v = Advance(Xor(u, c), 8)
    PROVE  Advance(Xor(v, d), 8) = Advance(Xor(w, FourBytes(a, b, c, d)), 32)
<1> DEFINE x == ShiftLeft(b, 8)
           y == ShiftLeft(c, 16)
           z == ShiftLeft(d, 24)
<1>1. a \in Words /\ x \in Words /\ y \in Words /\ z \in Words
  BY Places
<1> HIDE DEF x, y, z
<1>2. Xor(w, a) \in Words
  BY <1>1, XorWord
<1>3. Xor(Xor(w, a), x) \in Words /\ u = Advance(Xor(Xor(w, a), x), 16)
  <2>1. 1 \in 0 .. 3 /\ 8 * 1 = 8 /\ 8 * 1 + 8 = 16
    OBVIOUS
  <2> QED
    BY <1>2, <2>1, ByteMore DEF x
<1>4. Xor(Xor(Xor(w, a), x), y) \in Words /\ v = Advance(Xor(Xor(Xor(w, a), x), y), 24)
  <2> DEFINE q == Xor(Xor(w, a), x)
  <2>1. 2 \in 0 .. 3 /\ 8 * 2 = 16 /\ 8 * 2 + 8 = 24
    OBVIOUS
  <2>2. q \in Words /\ u = Advance(q, 16)
    BY <1>3
  <2> HIDE DEF q
  <2>3. Xor(q, y) \in Words /\ v = Advance(Xor(q, y), 24)
    BY <2>1, <2>2, ByteMore DEF y
  <2> QED
    BY <2>3 DEF q
<1>5. Advance(Xor(v, d), 8) = Advance(Xor(Xor(Xor(Xor(w, a), x), y), z), 32)
  <2> DEFINE q == Xor(Xor(Xor(w, a), x), y)
  <2>1. 3 \in 0 .. 3 /\ 8 * 3 = 24 /\ 8 * 3 + 8 = 32
    OBVIOUS
  <2>2. q \in Words /\ v = Advance(q, 24)
    BY <1>4
  <2> HIDE DEF q
  <2>3. Advance(Xor(v, d), 8) = Advance(Xor(q, z), 32)
    BY <2>1, <2>2, ByteMore DEF z
  <2> QED
    BY <2>3 DEF q
<1>6. Xor(Xor(Xor(Xor(w, a), x), y), z) = Xor(w, Xor(Xor(a, x), Xor(y, z)))
  BY XorAssociates
<1> QED
  BY <1>5, <1>6 DEF FourBytes, x, y, z

\* STEP4: what a stride has is advanced by sixteen bytes, and takes a word.
LEMMA StepStride ==
    ASSUME NEW w \in Words, NEW word \in Words
    PROVE  STEP4(w, word) = Xor(word, Advance(w, 128)) /\ STEP4(w, word) \in Words
<1> DEFINE a == ByteOfWord(w, 0)
           b == ByteOfWord(w, 1)
           c == ByteOfWord(w, 2)
           d == ByteOfWord(w, 3)
           x == ShiftLeft(b, 8)
           y == ShiftLeft(c, 16)
           z == ShiftLeft(d, 24)
<1>1. /\ a \in Bytes /\ b \in Bytes /\ c \in Bytes /\ d \in Bytes
      /\ w = FourBytes(a, b, c, d)
  <2>1. 0 \in 0 .. 3 /\ 1 \in 0 .. 3 /\ 2 \in 0 .. 3 /\ 3 \in 0 .. 3
    OBVIOUS
  <2> QED
    BY <2>1, WordIs
<1>2. STEP4(w, word) =
        Xor(word, Xor(Xor(kStrideExtensionTable3[a], kStrideExtensionTable2[b]),
                      Xor(kStrideExtensionTable1[c], kStrideExtensionTable0[d])))
  BY DEF STEP4
<1> HIDE DEF a, b, c, d
<1>3. a \in Words /\ x \in Words /\ y \in Words /\ z \in Words
  BY <1>1, Places
<1>4. /\ kStrideExtensionTable3[a] = NextSwath(a) /\ kStrideExtensionTable2[b] = NextSwath(x)
      /\ kStrideExtensionTable1[c] = NextSwath(y) /\ kStrideExtensionTable0[d] = NextSwath(z)
  BY <1>1 DEF Bytes, kStrideExtensionTable0, kStrideExtensionTable1, kStrideExtensionTable2,
              kStrideExtensionTable3
<1>5. w = Xor(Xor(a, x), Xor(y, z))
  BY <1>1 DEF FourBytes
<1> HIDE DEF x, y, z
<1>6. /\ NextSwath(a) = Advance(a, 128) /\ NextSwath(x) = Advance(x, 128)
      /\ NextSwath(y) = Advance(y, 128) /\ NextSwath(z) = Advance(z, 128)
  BY <1>3, SwathIs
<1>7. 128 \in Nat
  OBVIOUS
<1>8. Xor(a, x) \in Words /\ Xor(y, z) \in Words
  BY <1>3, XorWord
<1>9. /\ Advance(Xor(a, x), 128) = Xor(Advance(a, 128), Advance(x, 128))
      /\ Advance(Xor(y, z), 128) = Xor(Advance(y, 128), Advance(z, 128))
      /\ Advance(w, 128) = Xor(Advance(Xor(a, x), 128), Advance(Xor(y, z), 128))
  BY <1>3, <1>5, <1>7, <1>8, AdvanceAdds
<1>10. STEP4(w, word) = Xor(word, Advance(w, 128))
  BY <1>2, <1>4, <1>6, <1>9
<1>11. Advance(w, 128) \in Words
  BY <1>7, AdvanceSteps
<1> QED
  BY <1>10, <1>11, XorWord

\* STEP4W: a word of four bytes is taken at once.
LEMMA StepWord ==
    ASSUME NEW v \in Words, NEW w \in Words
    PROVE  STEP4W(v, w) = Advance(Xor(w, v), 32) /\ STEP4W(v, w) \in Words
<1> DEFINE x == Xor(w, v)
<1>1. x \in Words
  BY XorWord
<1>2. STEP4W(v, w) = STEP1(STEP1(STEP1(STEP1(x, {}), {}), {}), {})
  BY DEF STEP4W
<1> HIDE DEF x
<1>3. /\ 8 \in Nat /\ 16 \in Nat /\ 24 \in Nat /\ 32 \in Nat
      /\ 8 + 8 = 16 /\ 16 + 8 = 24 /\ 24 + 8 = 32
  OBVIOUS
<1>4. \A n \in Nat : Advance(x, n) \in Words
  BY <1>1, AdvanceSteps
<1>5. STEP1(x, {}) = Advance(x, 8)
  BY <1>1, StepZero
<1>6. STEP1(Advance(x, 8), {}) = Advance(x, 16)
  BY <1>1, <1>3, <1>4, StepZero, AdvanceTwice
<1>7. STEP1(Advance(x, 16), {}) = Advance(x, 24)
  BY <1>1, <1>3, <1>4, StepZero, AdvanceTwice
<1>8. STEP1(Advance(x, 24), {}) = Advance(x, 32)
  BY <1>1, <1>3, <1>4, StepZero, AdvanceTwice
<1> QED
  BY <1>2, <1>3, <1>4, <1>5, <1>6, <1>7, <1>8 DEF x

---------------------------------------------------------------------------
\* Four words taken one after the other: what the four strides stand for.
Taken(a, b, c, d) ==
    Advance(Xor(d, Advance(Xor(c, Advance(Xor(b, Advance(a, 32)), 32)), 32)), 32)

(* That is what is computed when they are combined.                        *)
LEMMA TakenIs ==
    ASSUME NEW a \in Words, NEW b \in Words, NEW c \in Words, NEW d \in Words
    PROVE  /\ STEP4W(STEP4W(STEP4W(STEP4W({}, a), b), c), d) = Taken(a, b, c, d)
           /\ Taken(a, b, c, d) \in Words
<1> DEFINE t == Advance(a, 32)
           u == Advance(Xor(b, t), 32)
           v == Advance(Xor(c, u), 32)
           w == Advance(Xor(d, v), 32)
<1>0. {} \in Words /\ Xor(a, {}) = a
  BY DivideNothing, XorNothing
<1>1. STEP4W({}, a) = t /\ t \in Words
  BY <1>0, StepWord
<1> HIDE DEF t
<1>2. STEP4W(t, b) = u /\ u \in Words
  BY <1>1, StepWord
<1> HIDE DEF u
<1>3. STEP4W(u, c) = v /\ v \in Words
  BY <1>2, StepWord
<1> HIDE DEF v
<1>4. STEP4W(v, d) = w /\ w \in Words
  BY <1>3, StepWord
<1>5. Taken(a, b, c, d) = w
  BY DEF Taken, t, u, v
<1> QED
  BY <1>1, <1>2, <1>3, <1>4, <1>5

\* Taking words is linear in these.
Linear(a, b, c, d, e, f, g, h) ==
    Taken(Xor(a, e), Xor(b, f), Xor(c, g), Xor(d, h)) = Xor(Taken(a, b, c, d), Taken(e, f, g, h))

(* It is in all.                                                           *)
LEMMA TakenAdds ==
    ASSUME NEW a \in Words, NEW b \in Words, NEW c \in Words, NEW d \in Words,
           NEW e \in Words, NEW f \in Words, NEW g \in Words, NEW h \in Words
    PROVE  Linear(a, b, c, d, e, f, g, h)
<1>0. 32 \in Nat
  OBVIOUS
<1>1. ASSUME NEW q \in Words, NEW r \in Words, NEW s \in Words, NEW t \in Words
      PROVE  Advance(Xor(Xor(q, r), Xor(s, t)), 32)
               = Xor(Advance(Xor(q, s), 32), Advance(Xor(r, t), 32))
  <2>1. Xor(q, s) \in Words /\ Xor(r, t) \in Words
    BY XorWord
  <2>2. Xor(Xor(q, r), Xor(s, t)) = Xor(Xor(q, s), Xor(r, t))
    BY XorFour
  <2> QED
    BY <1>0, <2>1, <2>2, AdvanceAdds
<1> DEFINE i1 == Advance(a, 32)
           j1 == Advance(e, 32)
           i2 == Advance(Xor(b, i1), 32)
           j2 == Advance(Xor(f, j1), 32)
           i3 == Advance(Xor(c, i2), 32)
           j3 == Advance(Xor(g, j2), 32)
           i4 == Advance(Xor(d, i3), 32)
           j4 == Advance(Xor(h, j3), 32)
<1>2. i1 \in Words /\ j1 \in Words /\ Advance(Xor(a, e), 32) = Xor(i1, j1)
  BY <1>0, AdvanceSteps, AdvanceAdds
<1> HIDE DEF i1, j1
<1>a. ASSUME NEW v \in Words, NEW w \in Words PROVE Advance(Xor(v, w), 32) \in Words
  BY <1>0, AdvanceSteps, XorWord
<1>3. i2 \in Words /\ j2 \in Words /\ Advance(Xor(Xor(b, f), Xor(i1, j1)), 32) = Xor(i2, j2)
  <2>1. i2 \in Words /\ j2 \in Words
    BY <1>2, <1>a
  <2>2. Advance(Xor(Xor(b, f), Xor(i1, j1)), 32) = Xor(i2, j2)
    BY <1>1, <1>2
  <2> QED
    BY <2>1, <2>2
<1> HIDE DEF i2, j2
<1>4. i3 \in Words /\ j3 \in Words /\ Advance(Xor(Xor(c, g), Xor(i2, j2)), 32) = Xor(i3, j3)
  <2>1. i3 \in Words /\ j3 \in Words
    BY <1>3, <1>a
  <2>2. Advance(Xor(Xor(c, g), Xor(i2, j2)), 32) = Xor(i3, j3)
    BY <1>1, <1>3
  <2> QED
    BY <2>1, <2>2
<1> HIDE DEF i3, j3
<1>5. Advance(Xor(Xor(d, h), Xor(i3, j3)), 32) = Xor(i4, j4)
  BY <1>1, <1>4
<1>6. Taken(Xor(a, e), Xor(b, f), Xor(c, g), Xor(d, h)) = Xor(i4, j4)
  BY <1>2, <1>3, <1>4, <1>5 DEF Taken
<1>7. Taken(a, b, c, d) = i4 /\ Taken(e, f, g, h) = j4
  BY DEF Taken, i1, i2, i3, j1, j2, j3
<1> QED
  BY <1>6, <1>7 DEF Linear

\* A word and three of zeros.
LEMMA TakenFirst ==
    ASSUME NEW a \in Words
    PROVE  Taken(a, {}, {}, {}) = Advance(a, 128)
<1>0. /\ 32 \in Nat /\ 64 \in Nat /\ 96 \in Nat
      /\ 32 + 32 = 64 /\ 64 + 32 = 96 /\ 96 + 32 = 128
  OBVIOUS
<1>1. \A w : Xor({}, w) = w
  BY XorNothing
<1>2. Taken(a, {}, {}, {}) = Advance(Advance(Advance(Advance(a, 32), 32), 32), 32)
  BY <1>1 DEF Taken
<1>3. /\ Advance(Advance(a, 32), 32) = Advance(a, 64)
      /\ Advance(Advance(a, 64), 32) = Advance(a, 96)
      /\ Advance(Advance(a, 96), 32) = Advance(a, 128)
  BY <1>0, AdvanceTwice
<1> QED
  BY <1>2, <1>3

\* The first word counts sixteen bytes on.
LEMMA TakenApart ==
    ASSUME NEW a \in Words, NEW b \in Words, NEW c \in Words, NEW d \in Words
    PROVE  Taken(a, b, c, d) = Xor(Advance(a, 128), Taken({}, b, c, d))
<1> DEFINE o == {}
<1>1. o \in Words
  BY DivideNothing
<1>2. Xor(a, o) = a /\ Xor(o, b) = b /\ Xor(o, c) = c /\ Xor(o, d) = d
  BY XorNothing
<1>3. Taken(a, o, o, o) = Advance(a, 128)
  BY TakenFirst
<1> HIDE DEF o
<1>4. Taken(Xor(a, o), Xor(o, b), Xor(o, c), Xor(o, d))
        = Xor(Taken(a, o, o, o), Taken(o, b, c, d))
  <2>1. Linear(a, o, o, o, o, b, c, d)
    BY <1>1, TakenAdds
  <2> QED
    BY <2>1 DEF Linear
<1> QED
  BY <1>2, <1>3, <1>4 DEF o

\* Advancing the strides advances what they stand for.
LEMMA TakenAdvance ==
    ASSUME NEW a \in Words, NEW b \in Words, NEW c \in Words, NEW d \in Words
    PROVE  Taken(Advance(a, 128), Advance(b, 128), Advance(c, 128), Advance(d, 128))
             = Advance(Taken(a, b, c, d), 128)
<1>0. 32 \in Nat /\ 128 \in Nat /\ 128 + 32 = 32 + 128
  OBVIOUS
<1>1. ASSUME NEW w \in Words
      PROVE  /\ Advance(w, 32) \in Words /\ Advance(w, 128) \in Words
             /\ Advance(Advance(w, 128), 32) = Advance(Advance(w, 32), 128)
  BY <1>0, AdvanceSteps, AdvanceTwice
<1>2. ASSUME NEW v \in Words, NEW w \in Words
      PROVE  /\ Advance(Xor(v, w), 32) \in Words
             /\ Advance(Xor(Advance(v, 128), Advance(w, 128)), 32)
                  = Advance(Advance(Xor(v, w), 32), 128)
  <2>1. Xor(v, w) \in Words
    BY XorWord
  <2>2. Xor(Advance(v, 128), Advance(w, 128)) = Advance(Xor(v, w), 128)
    BY <1>0, AdvanceAdds
  <2> QED
    BY <1>1, <2>1, <2>2
<1> DEFINE i1 == Advance(a, 32)
           i2 == Advance(Xor(b, i1), 32)
           i3 == Advance(Xor(c, i2), 32)
           i4 == Advance(Xor(d, i3), 32)
<1>3. i1 \in Words /\ Advance(Advance(a, 128), 32) = Advance(i1, 128)
  BY <1>1
<1> HIDE DEF i1
<1>4. i2 \in Words /\ Advance(Xor(Advance(b, 128), Advance(i1, 128)), 32) = Advance(i2, 128)
  BY <1>2, <1>3
<1> HIDE DEF i2
<1>5. i3 \in Words /\ Advance(Xor(Advance(c, 128), Advance(i2, 128)), 32) = Advance(i3, 128)
  BY <1>2, <1>4
<1> HIDE DEF i3
<1>6. Advance(Xor(Advance(d, 128), Advance(i3, 128)), 32) = Advance(i4, 128)
  BY <1>2, <1>5
<1>7. Taken(a, b, c, d) = i4
  BY DEF Taken, i1, i2, i3
<1> QED
  BY <1>3, <1>4, <1>5, <1>6, <1>7 DEF Taken

\* f has the remainders of the bytes, one after the other.
Remainders(f, w, bytes) ==
    /\ f \in [0 .. Len(bytes) -> Words] /\ f[0] = w
    /\ \A i \in 1 .. Len(bytes) : f[i] = Advance(Xor(f[i - 1], Byte(bytes[i])), 8)

(* Divided has the last of them.                                           *)
LEMMA DividedIs ==
    ASSUME NEW w \in Words, NEW bytes, Len(bytes) \in Nat
    PROVE  \E f : Remainders(f, w, bytes) /\ Divided(w, bytes) = f[Len(bytes)]
<1> DEFINE n == Len(bytes)
           G(i, v) == Advance(Xor(v, Byte(bytes[i])), 8)
           F == [q \in (1 .. n) \X Words |-> G(q[1], q[2])]
           Is(g) == g = [i \in 0 .. n |-> IF i = 0 THEN w ELSE G(i, g[i - 1])]
           s == CHOOSE g : Is(g)
<1>0. n \in Nat
  OBVIOUS
<1>1. \A i, v : v \in Words => G(i, v) \in Words
  <2>1. 8 \in Nat
    OBVIOUS
  <2>2. ASSUME NEW i, NEW v \in Words PROVE G(i, v) \in Words
    <3>1. Byte(bytes[i]) \in Words
      BY ByteIs
    <3>2. Xor(v, Byte(bytes[i])) \in Words
      BY <3>1, XorWord
    <3> QED
      BY <2>1, <3>2, AdvanceSteps
  <2> QED
    BY <2>2
<1>d. Divided(w, bytes) = s[n]
  BY Zenon DEF Divided
<1> HIDE DEF G
<1>2. \A i \in 1 .. n, v \in Words : F[<<i, v>>] = G(i, v)
  OBVIOUS
<1>3. F \in [(1 .. n) \X Words -> Words]
  BY <1>1
<1> HIDE DEF F, n
<1>4. PICK f \in [0 .. n -> Words] : Recurs(f, n, w, F)
  BY <1>0, <1>3, SegmentRecursion
<1>5. f[0] = w /\ \A i \in 1 .. n : f[i] = F[<<i, f[i - 1]>>]
  BY <1>4 DEF Recurs
<1>6. \A i \in 1 .. n : f[i] = G(i, f[i - 1])
  <2>1. \A i \in 1 .. n : i - 1 \in 0 .. n
    BY <1>0
  <2>2. \A i \in 1 .. n : f[i - 1] \in Words
    BY <2>1
  <2> QED
    BY <1>2, <1>5, <2>2
<1>7. Is(f)
  <2>1. \A i \in 0 .. n : f[i] = IF i = 0 THEN w ELSE G(i, f[i - 1])
    <3> TAKE i \in 0 .. n
    <3>1. i = 0 \/ i \in 1 .. n
      BY <1>0
    <3> QED
      BY <1>5, <1>6, <3>1
  <2> QED
    BY <2>1
<1>8. Is(s)
  BY <1>7, Zenon
<1> HIDE DEF s
<1>9. \A i \in 0 .. n : s[i] = IF i = 0 THEN w ELSE G(i, s[i - 1])
  BY <1>8, Zenon
<1>10. GoAlike(s, f, n)
  <2>1. 0 \in 0 .. n /\ \A i \in 1 .. n : i \in 0 .. n /\ i # 0
    BY <1>0
  <2> QED
    BY <1>5, <1>6, <1>9, <2>1 DEF GoAlike
<1>11. s[n] = f[n]
  <2>1. \A i \in 0 .. n : s[i] = f[i]
    BY <1>0, <1>10, Agree
  <2>2. n \in 0 .. n
    BY <1>0
  <2> QED
    BY <2>1, <2>2
<1>12. Remainders(f, w, bytes)
  BY <1>5, <1>6 DEF Remainders, G, n
<1> QED
  BY <1>11, <1>12, <1>d DEF n

\* Four of the bytes are a word.
AtOnce(f, bytes, j) == f[j + 4] = Advance(Xor(ReadUint32LE(bytes, j), f[j]), 32)

(* Any four.                                                               *)
LEMMA WordDivided ==
    ASSUME NEW w, NEW bytes, Len(bytes) \in Nat, NEW f, Remainders(f, w, bytes),
           NEW j \in Nat, j + 4 <= Len(bytes)
    PROVE  AtOnce(f, bytes, j)
<1> DEFINE n == Len(bytes)
<1>0. n \in Nat /\ j + 4 <= n
  OBVIOUS
<1>1. f \in [0 .. n -> Words] /\ \A i \in 1 .. n : f[i] = Advance(Xor(f[i - 1], Byte(bytes[i])), 8)
  BY DEF Remainders
<1> HIDE DEF n
<1>2. /\ j \in 0 .. n /\ j + 1 \in 1 .. n /\ j + 2 \in 1 .. n /\ j + 3 \in 1 .. n /\ j + 4 \in 1 .. n
      /\ (j + 1) - 1 = j /\ (j + 2) - 1 = j + 1 /\ (j + 3) - 1 = j + 2 /\ (j + 4) - 1 = j + 3
  BY <1>0
<1> DEFINE a == Byte(bytes[j + 1])
           b == Byte(bytes[j + 2])
           c == Byte(bytes[j + 3])
           d == Byte(bytes[j + 4])
           r == ReadUint32LE(bytes, j)
<1>3. a \in Bytes /\ b \in Bytes /\ c \in Bytes /\ d \in Bytes
  BY ByteIs
<1>4. f[j] \in Words
  BY <1>1, <1>2
<1>5. /\ f[j + 1] = Advance(Xor(f[j], a), 8) /\ f[j + 2] = Advance(Xor(f[j + 1], b), 8)
      /\ f[j + 3] = Advance(Xor(f[j + 2], c), 8) /\ f[j + 4] = Advance(Xor(f[j + 3], d), 8)
  BY <1>1, <1>2
<1>6. r = FourBytes(a, b, c, d)
  BY ReadIs
<1> HIDE DEF a, b, c, d, r
<1>7. f[j + 4] = Advance(Xor(f[j], r), 32)
  BY <1>3, <1>4, <1>5, <1>6, FourAtOnce
<1>8. Xor(f[j], r) = Xor(r, f[j])
  BY XorCommutes
<1> QED
  BY <1>7, <1>8 DEF AtOnce, r

\* The bytes that Extend takes from where it is.
LEMMA BytesTaken ==
    ASSUME NEW d \in Seq(0 .. 255), NEW q \in 0 .. Len(d), NEW n \in Nat, q + n <= Len(d)
    PROVE  /\ Len(SubSeq(d, q + 1, q + n)) = n
           /\ \A i \in 1 .. n : SubSeq(d, q + 1, q + n)[i] = d[q + i]
           /\ \A j \in Nat : j + 4 <= n =>
                ReadUint32LE(SubSeq(d, q + 1, q + n), j) = ReadUint32LE(d, q + j)
<1> DEFINE s == SubSeq(d, q + 1, q + n)
<1>0. Len(d) \in Nat /\ q \in Nat
  BY LenProperties
<1>1. Len(s) = n /\ \A i \in 1 .. n : s[i] = d[q + i]
  <2> DEFINE m == q + 1
             k == q + n
  <2>1. /\ m \in Int /\ k \in Int /\ (IF m <= k THEN (k - m) + 1 ELSE 0) = n /\ (k - m) + 1 = n
        /\ \A i \in 1 .. n : (m + i) - 1 = q + i
    BY <1>0
  <2>2. \A i \in m .. k : d[i] \in 0 .. 255
    <3>1. \A i \in 1 .. Len(d) : d[i] \in 0 .. 255
      BY ElementOfSeq
    <3>2. \A i \in m .. k : i \in 1 .. Len(d)
      BY <1>0
    <3> QED
      BY <3>1, <3>2
  <2> HIDE DEF m, k
  <2>3. /\ Len(SubSeq(d, m, k)) = IF m <= k THEN (k - m) + 1 ELSE 0
        /\ \A i \in 1 .. (k - m) + 1 : SubSeq(d, m, k)[i] = d[(m + i) - 1]
    BY <2>1, <2>2, SubSeqProperties
  <2>4. s = SubSeq(d, m, k)
    BY DEF m, k
  <2> HIDE DEF s
  <2> QED
    BY <2>1, <2>3, <2>4
<1> HIDE DEF s
<1>2. ASSUME NEW j \in Nat, j + 4 <= n
      PROVE  ReadUint32LE(s, j) = ReadUint32LE(d, q + j)
  <2>1. /\ j + 1 \in 1 .. n /\ j + 2 \in 1 .. n /\ j + 3 \in 1 .. n /\ j + 4 \in 1 .. n
        /\ q + (j + 1) = (q + j) + 1 /\ q + (j + 2) = (q + j) + 2
        /\ q + (j + 3) = (q + j) + 3 /\ q + (j + 4) = (q + j) + 4
    BY <1>0, <1>2
  <2>2. /\ s[j + 1] = d[(q + j) + 1] /\ s[j + 2] = d[(q + j) + 2]
        /\ s[j + 3] = d[(q + j) + 3] /\ s[j + 4] = d[(q + j) + 4]
    <3>1. /\ s[j + 1] = d[q + (j + 1)] /\ s[j + 2] = d[q + (j + 2)]
          /\ s[j + 3] = d[q + (j + 3)] /\ s[j + 4] = d[q + (j + 4)]
      BY <1>1, <2>1, Zenon
    <3> QED
      BY <2>1, <3>1, Zenon
  <2>3. /\ ReadUint32LE(s, j) =
             FourBytes(Byte(s[j + 1]), Byte(s[j + 2]), Byte(s[j + 3]), Byte(s[j + 4]))
        /\ ReadUint32LE(d, q + j) =
             FourBytes(Byte(d[(q + j) + 1]), Byte(d[(q + j) + 2]),
                       Byte(d[(q + j) + 3]), Byte(d[(q + j) + 4]))
    BY ReadIs
  <2> QED
    BY <2>2, <2>3
<1> QED
  BY <1>1, <1>2 DEF s

\* One byte, one word, and sixteen bytes.
LEMMA DividedBytes ==
    ASSUME NEW d \in Seq(0 .. 255), NEW q \in 0 .. Len(d), NEW w \in Words
    PROVE  /\ q + 1 <= Len(d) =>
                /\ Divided(w, SubSeq(d, q + 1, q + 1)) = Advance(Xor(w, Byte(d[q + 1])), 8)
                /\ Divided(w, SubSeq(d, q + 1, q + 1)) \in Words
           /\ q + 4 <= Len(d) =>
                Divided(w, SubSeq(d, q + 1, q + 4)) = Advance(Xor(ReadUint32LE(d, q), w), 32)
           /\ q + 16 <= Len(d) =>
                Divided(w, SubSeq(d, q + 1, q + 16)) =
                  Taken(Xor(ReadUint32LE(d, q), w), ReadUint32LE(d, q + 4),
                        ReadUint32LE(d, q + 8), ReadUint32LE(d, q + 12))
<1>0. Len(d) \in Nat /\ q \in Nat
  BY LenProperties
<1>1. ASSUME q + 1 <= Len(d)
      PROVE  /\ Divided(w, SubSeq(d, q + 1, q + 1)) = Advance(Xor(w, Byte(d[q + 1])), 8)
             /\ Divided(w, SubSeq(d, q + 1, q + 1)) \in Words
  <2> DEFINE s == SubSeq(d, q + 1, q + 1)
  <2>0. 1 \in Nat /\ 1 \in 1 .. 1 /\ 1 - 1 = 0 /\ 1 \in 0 .. 1
    OBVIOUS
  <2>1. Len(s) = 1 /\ s[1] = d[q + 1]
    BY <1>1, <2>0, BytesTaken
  <2> HIDE DEF s
  <2>2. PICK f : Remainders(f, w, s) /\ Divided(w, s) = f[1]
    BY <2>0, <2>1, DividedIs
  <2>3. f[0] = w /\ f[1] = Advance(Xor(f[0], Byte(s[1])), 8) /\ f[1] \in Words
    BY <2>0, <2>1, <2>2 DEF Remainders
  <2> QED
    BY <2>1, <2>2, <2>3 DEF s
<1>2. ASSUME q + 4 <= Len(d)
      PROVE  Divided(w, SubSeq(d, q + 1, q + 4)) = Advance(Xor(ReadUint32LE(d, q), w), 32)
  <2> DEFINE s == SubSeq(d, q + 1, q + 4)
  <2>0. 4 \in Nat /\ 0 \in Nat /\ 0 + 4 = 4 /\ 4 <= 4 /\ q + 0 = q
    BY <1>0
  <2>1. Len(s) = 4 /\ ReadUint32LE(s, 0) = ReadUint32LE(d, q + 0)
    BY <1>2, <2>0, BytesTaken
  <2> HIDE DEF s
  <2>2. PICK f : Remainders(f, w, s) /\ Divided(w, s) = f[4]
    BY <2>0, <2>1, DividedIs
  <2>3. f[0] = w
    BY <2>2 DEF Remainders
  <2>4. f[0 + 4] = Advance(Xor(ReadUint32LE(s, 0), f[0]), 32)
    <3>1. AtOnce(f, s, 0)
      BY <2>0, <2>1, <2>2, WordDivided
    <3> QED
      BY <3>1 DEF AtOnce
  <2> QED
    BY <2>0, <2>1, <2>2, <2>3, <2>4 DEF s
<1>3. ASSUME q + 16 <= Len(d)
      PROVE  Divided(w, SubSeq(d, q + 1, q + 16)) =
               Taken(Xor(ReadUint32LE(d, q), w), ReadUint32LE(d, q + 4),
                     ReadUint32LE(d, q + 8), ReadUint32LE(d, q + 12))
  <2> DEFINE s == SubSeq(d, q + 1, q + 16)
  <2>0. /\ 16 \in Nat /\ 0 \in Nat /\ 4 \in Nat /\ 8 \in Nat /\ 12 \in Nat /\ q + 0 = q
        /\ 0 + 4 = 4 /\ 4 + 4 = 8 /\ 8 + 4 = 12 /\ 12 + 4 = 16
        /\ 0 + 4 <= 16 /\ 4 + 4 <= 16 /\ 8 + 4 <= 16 /\ 12 + 4 <= 16
    BY <1>0
  <2>1. /\ Len(s) = 16 /\ ReadUint32LE(s, 0) = ReadUint32LE(d, q + 0)
        /\ ReadUint32LE(s, 4) = ReadUint32LE(d, q + 4)
        /\ ReadUint32LE(s, 8) = ReadUint32LE(d, q + 8)
        /\ ReadUint32LE(s, 12) = ReadUint32LE(d, q + 12)
    BY <1>3, <2>0, BytesTaken
  <2> HIDE DEF s
  <2>2. PICK f : Remainders(f, w, s) /\ Divided(w, s) = f[16]
    BY <2>0, <2>1, DividedIs
  <2>3. f[0] = w
    BY <2>2 DEF Remainders
  <2>4. AtOnce(f, s, 0) /\ AtOnce(f, s, 4) /\ AtOnce(f, s, 8) /\ AtOnce(f, s, 12)
    BY <2>0, <2>1, <2>2, WordDivided
  <2>5. /\ f[4] = Advance(Xor(ReadUint32LE(s, 0), f[0]), 32)
        /\ f[8] = Advance(Xor(ReadUint32LE(s, 4), f[4]), 32)
        /\ f[12] = Advance(Xor(ReadUint32LE(s, 8), f[8]), 32)
        /\ f[16] = Advance(Xor(ReadUint32LE(s, 12), f[12]), 32)
    <3>1. f[0 + 4] = Advance(Xor(ReadUint32LE(s, 0), f[0]), 32)
      BY <2>4 DEF AtOnce
    <3>2. f[4 + 4] = Advance(Xor(ReadUint32LE(s, 4), f[4]), 32)
      BY <2>4 DEF AtOnce
    <3>3. f[8 + 4] = Advance(Xor(ReadUint32LE(s, 8), f[8]), 32)
      BY <2>4 DEF AtOnce
    <3>4. f[12 + 4] = Advance(Xor(ReadUint32LE(s, 12), f[12]), 32)
      BY <2>4 DEF AtOnce
    <3> QED
      BY <2>0, <3>1, <3>2, <3>3, <3>4
  <2> QED
    BY <2>0, <2>1, <2>2, <2>3, <2>5 DEF Taken, s
<1> QED
  BY <1>1, <1>2, <1>3

---------------------------------------------------------------------------
(* The masked form.                                                        *)

\* A bit of a sum.
SumBit(i, v, w, c) == ~(~(i \in v <=> i \in w) <=> i \in c)

\* The bits that get a carry when v and w are added.
Carries(c, v, w) ==
    /\ 0 \notin c
    /\ \A i \in 0 .. 30 : i + 1 \in c <=> (i \in v /\ i \in w) \/ ((i \in v \/ i \in w) /\ i \in c)

(* There are such bits, and Plus adds them.                                *)
LEMMA PlusIs ==
    ASSUME NEW v \in Words, NEW w \in Words
    PROVE  /\ Plus(v, w) \in Words
           /\ \E c : Carries(c, v, w) /\ \A i \in Bits32 : i \in Plus(v, w) <=> SumBit(i, v, w, c)
<1> DEFINE G(i, x) == i > 0 /\ \/ i - 1 \in v \cap w
                               \/ (i - 1 \in v \cup w) /\ x
           Is(g) == g = [i \in Bits32 |-> G(i, g[i - 1])]
           s == CHOOSE g : Is(g)
           D == {"no", "yes"}
           F == [q \in (1 .. 31) \X D |-> IF G(q[1], q[2] = "yes") THEN "yes" ELSE "no"]
<1>p. Plus(v, w) = { i \in Bits32 : ((i \in v) # (i \in w)) # s[i] }
  BY Zenon DEF Plus
<1>b. \A i, x : G(i, x) \in BOOLEAN
  OBVIOUS
<1>z. \A x : ~G(0, x)
  OBVIOUS
<1>g. \A i \in 0 .. 30 : \A x : G(i + 1, x) <=> (i \in v /\ i \in w) \/ ((i \in v \/ i \in w) /\ x)
  <2> TAKE i \in 0 .. 30
  <2>1. i + 1 > 0 /\ (i + 1) - 1 = i
    OBVIOUS
  <2> QED
    BY <2>1
<1> HIDE DEF G
<1>1. \A i \in 1 .. 31, x \in D : F[<<i, x>>] = IF G(i, x = "yes") THEN "yes" ELSE "no"
  OBVIOUS
<1>2. F \in [(1 .. 31) \X D -> D]
  OBVIOUS
<1> HIDE DEF F
<1>3. PICK f \in [0 .. 31 -> D] : Recurs(f, 31, "no", F)
  <2>1. "no" \in D /\ 31 \in Nat
    OBVIOUS
  <2> HIDE DEF D
  <2> QED
    BY <1>2, <2>1, SegmentRecursion
<1>4. f[0] = "no" /\ \A i \in 1 .. 31 : f[i] = F[<<i, f[i - 1]>>]
  BY <1>3 DEF Recurs
<1>5. \A i \in 1 .. 31 : f[i] = IF G(i, f[i - 1] = "yes") THEN "yes" ELSE "no"
  <2>1. \A i \in 1 .. 31 : i - 1 \in 0 .. 31
    OBVIOUS
  <2>2. \A i \in 1 .. 31 : f[i - 1] \in D
    BY <2>1
  <2> HIDE DEF D
  <2> QED
    BY <1>1, <1>4, <2>2
<1> DEFINE h == [i \in Bits32 |-> f[i] = "yes"]
<1>6. \A i \in Bits32 : h[i] = (f[i] = "yes")
  OBVIOUS
<1>7. ASSUME NEW i \in Bits32 PROVE h[i] = G(i, h[i - 1])
  <2>1. CASE i = 0
    <3>1. h[i] = FALSE
      BY <1>4, <1>6, <2>1
    <3>2. G(i, h[i - 1]) = FALSE
      BY <1>b, <1>z, <2>1
    <3> QED
      BY <3>1, <3>2
  <2>2. CASE i # 0
    <3>1. i \in 1 .. 31 /\ i - 1 \in Bits32
      BY <2>2 DEF Bits32
    <3>2. h[i - 1] = (f[i - 1] = "yes")
      BY <1>6, <3>1
    <3>3. h[i] = (f[i] = "yes")
      BY <1>6
    <3> HIDE DEF h
    <3>4. f[i] = "yes" <=> G(i, f[i - 1] = "yes")
      BY <1>5, <3>1
    <3> QED
      BY <1>b, <3>2, <3>3, <3>4
  <2> QED
    BY <2>1, <2>2
<1>8. Is(h)
  <2>1. h = [i \in Bits32 |-> h[i]]
    OBVIOUS
  <2> HIDE DEF h
  <2> QED
    BY <1>7, <2>1
<1> HIDE DEF h
<1>9. Is(s)
  BY <1>8, Zenon
<1> HIDE DEF s
<1>10. \A i \in Bits32 : s[i] = G(i, s[i - 1])
  BY <1>9, Zenon
<1>11. \A i \in Bits32 : s[i] \in BOOLEAN
  BY <1>10, <1>b
<1> DEFINE c == {i \in Bits32 : s[i]}
<1>12. \A i \in Bits32 : i \in c <=> s[i]
  OBVIOUS
<1> HIDE DEF c
<1>13. Carries(c, v, w)
  <2>1. 0 \in Bits32 /\ ~s[0]
    <3>1. 0 \in Bits32
      BY DEF Bits32
    <3> QED
      BY <1>10, <1>z, <3>1
  <2>2. ASSUME NEW i \in 0 .. 30
        PROVE  i + 1 \in c <=> (i \in v /\ i \in w) \/ ((i \in v \/ i \in w) /\ i \in c)
    <3>1. i \in Bits32 /\ i + 1 \in Bits32 /\ (i + 1) - 1 = i
      BY DEF Bits32
    <3>2. s[i + 1] = G(i + 1, s[i])
      BY <1>10, <3>1
    <3>3. G(i + 1, s[i]) <=> (i \in v /\ i \in w) \/ ((i \in v \/ i \in w) /\ s[i])
      BY <1>g
    <3>4. (i \in c <=> s[i]) /\ (i + 1 \in c <=> s[i + 1])
      BY <1>12, <3>1
    <3> QED
      BY <3>2, <3>3, <3>4
  <2> QED
    BY <1>12, <2>1, <2>2 DEF Carries
<1>14. ASSUME NEW i \in Bits32 PROVE i \in Plus(v, w) <=> SumBit(i, v, w, c)
  <2>1. i \in Plus(v, w) <=> ((i \in v) # (i \in w)) # s[i]
    BY <1>p
  <2>2. s[i] \in BOOLEAN /\ (s[i] <=> i \in c)
    BY <1>11, <1>12
  <2> QED
    BY <2>1, <2>2 DEF SumBit
<1>15. Plus(v, w) \in Words
  BY <1>p DEF Words
<1> QED
  BY <1>13, <1>14, <1>15

\* Subtracting what was added gives back the word.
LEMMA PlusMinus ==
    ASSUME NEW a \in Words, NEW d \in Words
    PROVE  Plus(Plus(a, d), Minus(d)) = a
<1> DEFINE n == Bits32 \ d
           o == {0}
           m == Plus(n, o)
           s == Plus(a, d)
           t == Plus(s, m)
<1>0. n \in Words /\ o \in Words /\ \A i \in Bits32 : (i \in n <=> i \notin d) /\ (i \in o <=> i = 0)
  BY DEF Words, Bits32
<1>m. Minus(d) = m
  BY DEF Minus
<1> HIDE DEF n, o
<1>1. PICK c : Carries(c, a, d) /\ \A i \in Bits32 : i \in s <=> SumBit(i, a, d, c)
  BY PlusIs
<1>2. PICK e : Carries(e, n, o) /\ \A i \in Bits32 : i \in m <=> SumBit(i, n, o, e)
  BY <1>0, PlusIs
<1>3. s \in Words /\ m \in Words
  BY <1>0, PlusIs
<1> HIDE DEF s, m
<1>4. PICK f : Carries(f, s, m) /\ \A i \in Bits32 : i \in t <=> SumBit(i, s, m, f)
  BY <1>3, PlusIs
<1>5. t \in Words
  BY <1>3, PlusIs
<1> HIDE DEF t
<1> DEFINE One(i) == \/ i \in c /\ i \notin e /\ i \notin f
                     \/ i \notin c /\ i \in e /\ i \notin f
                     \/ i \notin c /\ i \notin e /\ i \in f
           Z == {i \in Nat : i + 1 <= 31 => One(i + 1)}
<1>6. /\ 0 \notin c /\ 0 \notin e /\ 0 \notin f
      /\ \A i \in 0 .. 30 : i + 1 \in c <=> (i \in a /\ i \in d) \/ ((i \in a \/ i \in d) /\ i \in c)
      /\ \A i \in 0 .. 30 : i + 1 \in e <=> (i \in n /\ i \in o) \/ ((i \in n \/ i \in o) /\ i \in e)
      /\ \A i \in 0 .. 30 : i + 1 \in f <=> (i \in s /\ i \in m) \/ ((i \in s \/ i \in m) /\ i \in f)
  BY <1>1, <1>2, <1>4 DEF Carries
<1>7. \A i \in Bits32 : /\ (i \in s <=> ~(~(i \in a <=> i \in d) <=> i \in c))
                        /\ (i \in m <=> ~(~(i \in n <=> i \in o) <=> i \in e))
                        /\ (i \in t <=> ~(~(i \in s <=> i \in m) <=> i \in f))
  BY <1>1, <1>2, <1>4 DEF SumBit
<1>8. 0 \in Z
  <2>1. 0 \in 0 .. 30 /\ 0 \in Bits32 /\ 0 + 1 = 1
    BY DEF Bits32
  <2>2. /\ (0 + 1 \in c <=> (0 \in a /\ 0 \in d) \/ ((0 \in a \/ 0 \in d) /\ 0 \in c))
        /\ (0 + 1 \in e <=> (0 \in n /\ 0 \in o) \/ ((0 \in n \/ 0 \in o) /\ 0 \in e))
        /\ (0 + 1 \in f <=> (0 \in s /\ 0 \in m) \/ ((0 \in s \/ 0 \in m) /\ 0 \in f))
    BY <1>6, <2>1
  <2>3. (0 \in n <=> 0 \notin d) /\ 0 \in o
    BY <1>0, <2>1
  <2>4. /\ (0 \in s <=> ~(~(0 \in a <=> 0 \in d) <=> 0 \in c))
        /\ (0 \in m <=> ~(~(0 \in n <=> 0 \in o) <=> 0 \in e))
    BY <1>7, <2>1
  <2>5. One(0 + 1)
    BY <1>6, <2>2, <2>3, <2>4
  <2> HIDE DEF One
  <2> QED
    BY <2>5
<1>9. ASSUME NEW i \in Nat, i \in Z PROVE i + 1 \in Z
  <2> SUFFICES ASSUME i + 2 <= 31 PROVE One(i + 2)
    <3>1. (i + 1) + 1 = i + 2 /\ i + 1 \in Nat
      OBVIOUS
    <3> HIDE DEF One
    <3> QED
      BY <3>1
  <2> DEFINE j == i + 1
  <2>1. One(j)
    BY <1>9
  <2>2. j \in 0 .. 30 /\ j \in Bits32 /\ j # 0 /\ j + 1 = i + 2
    BY DEF Bits32
  <2> HIDE DEF j
  <2>3. /\ (j + 1 \in c <=> (j \in a /\ j \in d) \/ ((j \in a \/ j \in d) /\ j \in c))
        /\ (j + 1 \in e <=> (j \in n /\ j \in o) \/ ((j \in n \/ j \in o) /\ j \in e))
        /\ (j + 1 \in f <=> (j \in s /\ j \in m) \/ ((j \in s \/ j \in m) /\ j \in f))
    BY <1>6, <2>2
  <2>4. (j \in n <=> j \notin d) /\ j \notin o
    BY <1>0, <2>2
  <2>5. /\ (j \in s <=> ~(~(j \in a <=> j \in d) <=> j \in c))
        /\ (j \in m <=> ~(~(j \in n <=> j \in o) <=> j \in e))
    BY <1>7, <2>2
  <2>6. One(j + 1)
    BY <2>1, <2>3, <2>4, <2>5
  <2> QED
    BY <2>2, <2>6
<1>10. Nat \subseteq Z
  <2> HIDE DEF Z
  <2> QED
    BY <1>8, <1>9, SetInduction
<1>11. ASSUME NEW i \in Bits32 PROVE i \in t <=> i \in a
  <2>1. /\ (i \in s <=> ~(~(i \in a <=> i \in d) <=> i \in c))
        /\ (i \in m <=> ~(~(i \in n <=> i \in o) <=> i \in e))
        /\ (i \in t <=> ~(~(i \in s <=> i \in m) <=> i \in f))
    BY <1>7
  <2>2. (i \in n <=> i \notin d) /\ (i \in o <=> i = 0)
    BY <1>0
  <2>3. CASE i = 0
    BY <1>6, <2>1, <2>2, <2>3
  <2>4. CASE i # 0
    <3>1. i - 1 \in Nat /\ (i - 1) + 1 = i /\ i <= 31
      BY <2>4 DEF Bits32
    <3>2. i - 1 \in Z
      BY <1>10, <3>1
    <3>3. One(i)
      <4> HIDE DEF One
      <4> QED
        BY <3>1, <3>2
    <3> QED
      BY <2>1, <2>2, <2>4, <3>3
  <2> QED
    BY <2>3, <2>4
<1>12. t = a
  <2>1. \A i : i \in t <=> i \in a
    BY <1>5, <1>11 DEF Words
  <2> QED
    BY <2>1
<1> QED
  BY <1>12, <1>m DEF s, t

\* Turning a word by 15 bits and by 17.
LEMMA RotateBack ==
    ASSUME NEW w \in Words
    PROVE  Rotate(w, 15) \in Words /\ Rotate(Rotate(w, 15), 17) = w
<1> DEFINE v == Rotate(w, 15)
<1>0. 32 - 15 = 17 /\ 32 - 17 = 15 /\ 15 \in 0 .. 31 /\ 17 \in 0 .. 31
  OBVIOUS
<1>1. v = ShiftRight(w, 15) \cup ShiftLeft(w, 17) /\ v \in Words
  BY <1>0, ShiftBits DEF Rotate, Words
<1>2. \A i : i \in v <=> i \in Bits32 /\ (i + 15 \in w \/ i - 17 \in w)
  BY <1>0, <1>1, ShiftBits
<1> HIDE DEF v
<1>3. Rotate(v, 17) = ShiftRight(v, 17) \cup ShiftLeft(v, 15)
  BY <1>0 DEF Rotate
<1>4. \A i : i \in Rotate(v, 17) <=> i \in Bits32 /\ (i + 17 \in v \/ i - 15 \in v)
  BY <1>0, <1>1, <1>3, ShiftBits
<1>5. \A j \in w : j \in 0 .. 31
  BY DEF Words, Bits32
<1>6. ASSUME NEW i \in Bits32 PROVE i + 17 \in v \/ i - 15 \in v <=> i \in w
  <2>0. i \in 0 .. 31
    BY DEF Bits32
  <2>1. CASE i <= 14
    <3>1. /\ i + 17 \in Bits32 /\ (i + 17) - 17 = i /\ (i + 17) + 15 \notin 0 .. 31
          /\ i - 15 \notin Bits32
      BY <2>0, <2>1 DEF Bits32
    <3> QED
      BY <1>2, <1>5, <3>1
  <2>2. CASE i >= 15
    <3>1. /\ i - 15 \in Bits32 /\ (i - 15) + 15 = i /\ (i - 15) - 17 \notin 0 .. 31
          /\ i + 17 \notin Bits32
      BY <2>0, <2>2 DEF Bits32
    <3> QED
      BY <1>2, <1>5, <3>1
  <2> QED
    BY <2>0, <2>1, <2>2
<1>7. \A i : i \in Rotate(v, 17) <=> i \in w
  BY <1>4, <1>6 DEF Words
<1>8. Rotate(v, 17) = w
  BY <1>7
<1> QED
  BY <1>1, <1>8 DEF v

\* What is stored is unmasked to what was computed.
LEMMA UnmaskMask ==
    ASSUME NEW w \in Words
    PROVE  Unmask(Mask(w)) = w
<1>1. kMaskDelta \in Words
  BY DEF kMaskDelta, Words, Bits32
<1>2. Unmask(Mask(w)) = Rotate(Plus(Plus(Rotate(w, 15), kMaskDelta), Minus(kMaskDelta)), 17)
  BY DEF Mask, Unmask
<1>3. Plus(Plus(Rotate(w, 15), kMaskDelta), Minus(kMaskDelta)) = Rotate(w, 15)
  BY <1>1, RotateBack, PlusMinus
<1> QED
  BY <1>2, <1>3, RotateBack

\* The four strides each take a word, sixteen bytes of zeros on: that is what the
\* division makes of the sixteen bytes and the remainder that the strides stand for.
Strided(a, b, c, d, s, t, u, v) ==
    Taken(Xor(s, Taken(a, b, c, d)), t, u, v)
      = Taken(STEP4(a, s), STEP4(b, t), STEP4(c, u), STEP4(d, v))

(* It is, for all words.                                                   *)
LEMMA StridesTake ==
    ASSUME NEW a \in Words, NEW b \in Words, NEW c \in Words, NEW d \in Words,
           NEW s \in Words, NEW t \in Words, NEW u \in Words, NEW v \in Words
    PROVE  Strided(a, b, c, d, s, t, u, v)
<1> DEFINE r == Taken(a, b, c, d)
           e == Advance(a, 128)
           f == Advance(b, 128)
           g == Advance(c, 128)
           h == Advance(d, 128)
           o == {}
<1>0. 128 \in Nat /\ o \in Words
  BY DivideNothing
<1>1. e \in Words /\ f \in Words /\ g \in Words /\ h \in Words /\ r \in Words
  BY <1>0, AdvanceSteps, TakenIs
<1>2. /\ STEP4(a, s) = Xor(s, e) /\ STEP4(b, t) = Xor(t, f)
      /\ STEP4(c, u) = Xor(u, g) /\ STEP4(d, v) = Xor(v, h)
  BY StepStride
<1>3. Taken(e, f, g, h) = Advance(r, 128)
  BY TakenAdvance
<1>4. Xor(t, o) = t /\ Xor(u, o) = u /\ Xor(v, o) = v
  BY XorNothing
<1> HIDE DEF r, e, f, g, h
<1>5. Taken(r, o, o, o) = Advance(r, 128)
  BY <1>1, TakenFirst
<1> HIDE DEF o
<1>6. Linear(s, t, u, v, e, f, g, h) /\ Linear(s, t, u, v, r, o, o, o)
  BY <1>0, <1>1, TakenAdds
<1>7. Taken(Xor(s, e), Xor(t, f), Xor(u, g), Xor(v, h)) = Xor(Taken(s, t, u, v), Advance(r, 128))
  BY <1>3, <1>6 DEF Linear
<1>8. Taken(Xor(s, r), t, u, v) = Xor(Taken(s, t, u, v), Advance(r, 128))
  BY <1>4, <1>5, <1>6 DEF Linear
<1> QED
  BY <1>2, <1>7, <1>8 DEF r, Strided

\* The first stride takes a word and becomes the last: four bytes of the division.
LEMMA StrideTurns ==
    ASSUME NEW a \in Words, NEW b \in Words, NEW c \in Words, NEW d \in Words, NEW w \in Words
    PROVE  Advance(Xor(w, Taken(a, b, c, d)), 32) = Taken(b, c, d, STEP4(a, w))
<1> DEFINE e == Advance(a, 128)
           t == Advance(Xor(d, Advance(Xor(c, Advance(b, 32)), 32)), 32)
<1>0. 32 \in Nat
  OBVIOUS
<1>1. Advance({}, 32) = {} /\ Xor(b, {}) = b
  BY <1>0, AdvanceNothing, XorNothing
<1>2. Taken({}, b, c, d) = t
  BY <1>1 DEF Taken
<1>3. Taken(a, b, c, d) = Xor(e, t)
  BY <1>2, TakenApart
<1>4. STEP4(a, w) = Xor(w, e)
  BY StepStride
<1>5. Taken(b, c, d, STEP4(a, w)) = Advance(Xor(Xor(w, e), t), 32)
  BY <1>4 DEF Taken
<1> HIDE DEF e, t
<1>6. Xor(Xor(w, e), t) = Xor(w, Xor(e, t))
  BY XorAssociates
<1> QED
  BY <1>3, <1>5, <1>6

---------------------------------------------------------------------------
(* Extend.  Its variables stand for the remainder of all the bytes taken:  *)
(* l does, while bytes are taken one by one, and the four strides do,      *)
(* taken one behind the other.  Between calls crc is its complement.       *)

CrcTypes ==
    /\ crc \in Words /\ l \in Words /\ remainder \in Words
    /\ data \in Seq(0 .. 255) /\ p \in 0 .. Len(data) /\ address \in 0 .. 3
    /\ at \in {"idle", "lead", "strides", "tail"}

\* Bytes are taken up to the first aligned address and not beyond it.
LeadEnds ==
    (at = "lead" /\ RoundUp(address) <= address + Len(data)) => address + p <= RoundUp(address)

StandsForRemainder ==
    /\ at = "idle" => crc = Xor(remainder, kCrc32Xor)
    /\ at \in {"lead", "tail"} => l = remainder
    /\ at = "strides" =>
          /\ crcs[1] \in Words /\ crcs[2] \in Words /\ crcs[3] \in Words /\ crcs[4] \in Words
          /\ remainder = Taken(crcs[1], crcs[2], crcs[3], crcs[4])

CrcInv == CrcTypes /\ LeadEnds /\ StandsForRemainder

(* The first aligned address at or behind one of the four.                 *)
LEMMA RoundsUp ==
    \A a \in 0 .. 3 : RoundUp(a) \in Nat /\ a <= RoundUp(a)
  BY DEF RoundUp

\* What is xored twice is gone.
LEMMA XorTwice ==
    ASSUME NEW w
    PROVE  Xor(Xor(w, kCrc32Xor), kCrc32Xor) = w
<1>1. Xor(Xor(w, kCrc32Xor), kCrc32Xor) = Xor(w, Xor(kCrc32Xor, kCrc32Xor))
  BY XorAssociates
<1>2. Xor(kCrc32Xor, kCrc32Xor) = {} /\ Xor(w, {}) = w
  BY XorNothing
<1> QED
  BY <1>1, <1>2

\* The word that is xored before and after.
LEMMA AllOnes == kCrc32Xor \in Words
  BY DEF kCrc32Xor, Words

\* No bytes yet: the checksum is 0, the remainder all ones.
LEMMA CrcStarts == CrcInit => CrcInv
<1> SUFFICES ASSUME CrcInit PROVE CrcInv
  OBVIOUS
<1>1. crc = {} /\ l = {} /\ remainder = kCrc32Xor /\ at = "idle" /\ data = << >> /\ p = 0 /\ address = 0
  BY DEF CrcInit
<1>2. {} \in Words /\ kCrc32Xor \in Words
  BY AllOnes, DivideNothing
<1>3. << >> \in Seq(0 .. 255) /\ Len(<< >>) = 0
  OBVIOUS
<1>4. CrcTypes
  BY <1>1, <1>2, <1>3 DEF CrcTypes
<1>5. Xor(remainder, kCrc32Xor) = {}
  BY <1>1, XorNothing
<1> QED
  BY <1>1, <1>4, <1>5 DEF CrcInv, LeadEnds, StandsForRemainder

\* The checksum of the pieces so far gives back the remainder.
LEMMA CallKeeps ==
    ASSUME CrcInv, NEW d \in Pieces, NEW a \in 0 .. 3, Call(d, a)
    PROVE  CrcInv'
<1>1. /\ at = "idle" /\ data' = d /\ address' = a /\ p' = 0 /\ l' = Xor(crc, kCrc32Xor)
      /\ at' = "lead" /\ crc' = crc /\ remainder' = remainder
  BY DEF Call
<1>2. crc \in Words /\ remainder \in Words /\ crc = Xor(remainder, kCrc32Xor)
  BY <1>1 DEF CrcInv, CrcTypes, StandsForRemainder
<1>3. l' = remainder
  BY <1>1, <1>2, XorTwice
<1>4. d \in Seq(0 .. 255)
  BY PiecesAssumption
<1>5. Len(d) \in Nat
  BY <1>4, LenProperties
<1>6. CrcTypes'
  BY <1>1, <1>2, <1>3, <1>4, <1>5 DEF CrcTypes
<1>7. LeadEnds'
  BY <1>1, RoundsUp DEF LeadEnds
<1>8. StandsForRemainder'
  BY <1>1, <1>3 DEF StandsForRemainder
<1> QED
  BY <1>6, <1>7, <1>8 DEF CrcInv

\* A byte: l is divided as the remainder is.
LEMMA TakeByteKeeps ==
    ASSUME CrcInv, TakeByte
    PROVE  CrcInv'
<1>1. /\ at \in {"lead", "tail"} /\ l = remainder
      /\ l \in Words /\ crc \in Words /\ data \in Seq(0 .. 255) /\ p \in 0 .. Len(data) /\ address \in 0 .. 3
  BY DEF CrcInv, CrcTypes, StandsForRemainder, TakeByte
<1>2. /\ l' = STEP1(l, Byte(data[p + 1])) /\ p' = p + 1 /\ at' = at
      /\ remainder' = Divided(remainder, SubSeq(data, p + 1, p + 1))
      /\ crc' = crc /\ data' = data /\ address' = address
  BY DEF TakeByte, Consume
<1>3. Len(data) \in Nat /\ RoundUp(address) \in Nat
  BY <1>1, LenProperties, RoundsUp
<1>4. /\ p + 1 <= Len(data)
      /\ (at = "lead" /\ RoundUp(address) <= address + Len(data)) => address + (p + 1) <= RoundUp(address)
  <2>1. CASE at = "lead" /\ InLead
    BY <1>1, <1>3, <2>1 DEF InLead, CrcInv, LeadEnds
  <2>2. CASE at = "tail" /\ Left > 0
    BY <1>1, <1>3, <2>2 DEF Left
  <2> QED
    BY <2>1, <2>2 DEF TakeByte
<1>5. Byte(data[p + 1]) \in Bytes
  BY ByteIs
<1>6. l' = Advance(Xor(l, Byte(data[p + 1])), 8) /\ l' \in Words
  BY <1>1, <1>2, <1>5, StepByte
<1>7. remainder' = Advance(Xor(remainder, Byte(data[p + 1])), 8)
  BY <1>1, <1>2, <1>4, DividedBytes
<1>8. CrcTypes'
  BY <1>1, <1>2, <1>3, <1>4, <1>6, <1>7 DEF CrcTypes
<1>9. LeadEnds'
  BY <1>2, <1>4 DEF LeadEnds
<1>10. StandsForRemainder'
  BY <1>1, <1>2, <1>6, <1>7 DEF StandsForRemainder
<1> QED
  BY <1>8, <1>9, <1>10 DEF CrcInv

\* Fewer than sixteen bytes: nothing is taken yet.
LEMMA ShortKeeps ==
    ASSUME CrcInv, Short
    PROVE  CrcInv'
<1>1. /\ at = "lead" /\ at' = "tail" /\ crc' = crc /\ l' = l /\ remainder' = remainder
      /\ data' = data /\ p' = p /\ address' = address
  BY DEF Short
<1> QED
  BY <1>1 DEF CrcInv, CrcTypes, LeadEnds, StandsForRemainder

\* The first sixteen bytes, l in the first of them.
LEMMA LoadKeeps ==
    ASSUME CrcInv, Load
    PROVE  CrcInv'
<1> DEFINE a == Xor(ReadUint32LE(data, p), l)
           b == ReadUint32LE(data, p + 4)
           c == ReadUint32LE(data, p + 8)
           d == ReadUint32LE(data, p + 12)
<1>1. /\ at = "lead" /\ l = remainder
      /\ l \in Words /\ crc \in Words /\ data \in Seq(0 .. 255) /\ p \in 0 .. Len(data) /\ address \in 0 .. 3
  BY DEF CrcInv, CrcTypes, StandsForRemainder, Load
<1>2. /\ crcs' = <<a, b, c, d>> /\ p' = p + 16 /\ at' = "strides" /\ l' = l
      /\ remainder' = Divided(remainder, SubSeq(data, p + 1, p + 16))
      /\ crc' = crc /\ data' = data /\ address' = address
  BY DEF Load, Consume
<1>3. Len(data) \in Nat
  BY <1>1, LenProperties
<1>4. p + 16 <= Len(data)
  BY <1>1, <1>3 DEF Load, Left
<1>5. a \in Words /\ b \in Words /\ c \in Words /\ d \in Words
  BY <1>1, ReadIs, XorWord
<1>6. remainder' = Taken(a, b, c, d)
  BY <1>1, <1>2, <1>4, DividedBytes
<1> HIDE DEF a, b, c, d
<1>7. remainder' \in Words
  BY <1>5, <1>6, TakenIs
<1>8. CrcTypes'
  BY <1>1, <1>2, <1>3, <1>4, <1>7 DEF CrcTypes
<1>9. StandsForRemainder'
  BY <1>2, <1>5, <1>6 DEF StandsForRemainder
<1> QED
  BY <1>2, <1>8, <1>9 DEF CrcInv, LeadEnds

\* Sixteen bytes more, a word for each stride.
LEMMA Step16Keeps ==
    ASSUME CrcInv, STEP16
    PROVE  CrcInv'
<1> DEFINE a == crcs[1]
           b == crcs[2]
           c == crcs[3]
           d == crcs[4]
           s == ReadUint32LE(data, p)
           t == ReadUint32LE(data, p + 4)
           u == ReadUint32LE(data, p + 8)
           v == ReadUint32LE(data, p + 12)
<1>1. /\ at = "strides" /\ remainder = Taken(a, b, c, d)
      /\ a \in Words /\ b \in Words /\ c \in Words /\ d \in Words
      /\ l \in Words /\ crc \in Words /\ remainder \in Words
      /\ data \in Seq(0 .. 255) /\ p \in 0 .. Len(data) /\ address \in 0 .. 3
  BY DEF CrcInv, CrcTypes, StandsForRemainder, STEP16
<1>2. /\ crcs' = [i \in 1 .. 4 |-> STEP4(crcs[i], ReadUint32LE(data, p + 4 * (i - 1)))]
      /\ p' = p + 16 /\ at' = "strides" /\ l' = l
      /\ remainder' = Divided(remainder, SubSeq(data, p + 1, p + 16))
      /\ crc' = crc /\ data' = data /\ address' = address
  BY DEF STEP16, Consume
<1>3. Len(data) \in Nat
  BY <1>1, LenProperties
<1>4. p + 16 <= Len(data)
  BY <1>1, <1>3 DEF STEP16, Left
<1>5. s \in Words /\ t \in Words /\ u \in Words /\ v \in Words
  BY ReadIs
<1>6. /\ crcs'[1] = STEP4(a, s) /\ crcs'[2] = STEP4(b, t)
      /\ crcs'[3] = STEP4(c, u) /\ crcs'[4] = STEP4(d, v)
  <2>1. /\ p + 4 * (1 - 1) = p /\ p + 4 * (2 - 1) = p + 4
        /\ p + 4 * (3 - 1) = p + 8 /\ p + 4 * (4 - 1) = p + 12
    BY <1>1, <1>3
  <2>2. 1 \in 1 .. 4 /\ 2 \in 1 .. 4 /\ 3 \in 1 .. 4 /\ 4 \in 1 .. 4
    OBVIOUS
  <2> QED
    BY <1>2, <2>1, <2>2
<1>7. remainder' = Taken(Xor(s, remainder), t, u, v)
  BY <1>1, <1>2, <1>4, DividedBytes
<1> HIDE DEF a, b, c, d, s, t, u, v
<1>8. remainder' = Taken(STEP4(a, s), STEP4(b, t), STEP4(c, u), STEP4(d, v))
  <2>1. /\ a \in Words /\ b \in Words /\ c \in Words /\ d \in Words
        /\ s \in Words /\ t \in Words /\ u \in Words /\ v \in Words
    BY <1>1, <1>5
  <2>2. Strided(a, b, c, d, s, t, u, v)
    BY <2>1, StridesTake
  <2> QED
    BY <1>1, <1>7, <2>2 DEF Strided
<1>9. STEP4(a, s) \in Words /\ STEP4(b, t) \in Words /\ STEP4(c, u) \in Words /\ STEP4(d, v) \in Words
  BY <1>1, <1>5, StepStride
<1>10. remainder' \in Words
  BY <1>8, <1>9, TakenIs
<1>11. CrcTypes'
  BY <1>1, <1>2, <1>3, <1>4, <1>10 DEF CrcTypes
<1>12. StandsForRemainder'
  BY <1>2, <1>6, <1>8, <1>9 DEF StandsForRemainder
<1> QED
  BY <1>2, <1>11, <1>12 DEF CrcInv, LeadEnds

\* Four bytes more, for the stride whose turn it is.
LEMMA TakeWordKeeps ==
    ASSUME CrcInv, TakeWord
    PROVE  CrcInv'
<1> DEFINE a == crcs[1]
           b == crcs[2]
           c == crcs[3]
           d == crcs[4]
           w == ReadUint32LE(data, p)
           e == STEP4(a, w)
<1>1. /\ at = "strides" /\ remainder = Taken(a, b, c, d)
      /\ a \in Words /\ b \in Words /\ c \in Words /\ d \in Words
      /\ l \in Words /\ crc \in Words /\ remainder \in Words
      /\ data \in Seq(0 .. 255) /\ p \in 0 .. Len(data) /\ address \in 0 .. 3
  BY DEF CrcInv, CrcTypes, StandsForRemainder, TakeWord
<1>2. /\ crcs' = <<b, c, d, e>> /\ p' = p + 4 /\ at' = "strides" /\ l' = l
      /\ remainder' = Divided(remainder, SubSeq(data, p + 1, p + 4))
      /\ crc' = crc /\ data' = data /\ address' = address
  BY DEF TakeWord, Consume
<1>3. Len(data) \in Nat
  BY <1>1, LenProperties
<1>4. p + 4 <= Len(data)
  BY <1>1, <1>3 DEF TakeWord, Left
<1>5. w \in Words
  BY ReadIs
<1>6. remainder' = Advance(Xor(w, remainder), 32)
  BY <1>1, <1>2, <1>4, DividedBytes
<1> HIDE DEF a, b, c, d, w
<1>7. e \in Words /\ remainder' = Taken(b, c, d, e)
  BY <1>1, <1>5, <1>6, StepStride, StrideTurns
<1> HIDE DEF e
<1>8. remainder' \in Words
  BY <1>1, <1>7, TakenIs
<1>9. CrcTypes'
  BY <1>1, <1>2, <1>3, <1>4, <1>8 DEF CrcTypes
<1>10. StandsForRemainder'
  BY <1>1, <1>2, <1>7 DEF StandsForRemainder
<1> QED
  BY <1>2, <1>9, <1>10 DEF CrcInv, LeadEnds

\* The strides become one remainder.
LEMMA CombineKeeps ==
    ASSUME CrcInv, Combine
    PROVE  CrcInv'
<1>1. /\ at = "strides" /\ at' = "tail" /\ crc' = crc /\ remainder' = remainder
      /\ data' = data /\ p' = p /\ address' = address
      /\ l' = STEP4W(STEP4W(STEP4W(STEP4W({}, crcs[1]), crcs[2]), crcs[3]), crcs[4])
  BY DEF Combine
<1>2. /\ crcs[1] \in Words /\ crcs[2] \in Words /\ crcs[3] \in Words /\ crcs[4] \in Words
      /\ remainder = Taken(crcs[1], crcs[2], crcs[3], crcs[4])
  BY <1>1 DEF CrcInv, StandsForRemainder
<1>3. l' = remainder
  BY <1>1, <1>2, TakenIs
<1> QED
  BY <1>1, <1>3 DEF CrcInv, CrcTypes, LeadEnds, StandsForRemainder

\* The complement is returned.
LEMMA ReturnKeeps ==
    ASSUME CrcInv, Return
    PROVE  CrcInv'
<1>1. /\ at = "tail" /\ at' = "idle" /\ crc' = Xor(l, kCrc32Xor) /\ l' = l /\ remainder' = remainder
      /\ data' = data /\ p' = p /\ address' = address
  BY DEF Return
<1>2. l = remainder /\ l \in Words
  BY <1>1 DEF CrcInv, CrcTypes, StandsForRemainder
<1>3. crc' \in Words
  BY <1>1, <1>2, AllOnes, XorWord
<1> QED
  BY <1>1, <1>2, <1>3 DEF CrcInv, CrcTypes, LeadEnds, StandsForRemainder

\* Throughout Extend, whatever the pieces are and wherever they lie, its variables
\* stand for the remainder of all the bytes taken.
THEOREM ExtendStandsForRemainder == CrcSpec => []CrcInv
<1>1. ASSUME CrcInv, [CrcNext]_crcVars PROVE CrcInv'
  <2>1. CASE \E d \in Pieces, a \in 0 .. 3 : Call(d, a)
    BY <1>1, <2>1, CallKeeps
  <2>2. CASE TakeByte
    BY <1>1, <2>2, TakeByteKeeps
  <2>3. CASE Short
    BY <1>1, <2>3, ShortKeeps
  <2>4. CASE Load
    BY <1>1, <2>4, LoadKeeps
  <2>5. CASE STEP16
    BY <1>1, <2>5, Step16Keeps
  <2>6. CASE TakeWord
    BY <1>1, <2>6, TakeWordKeeps
  <2>7. CASE Combine
    BY <1>1, <2>7, CombineKeeps
  <2>8. CASE Return
    BY <1>1, <2>8, ReturnKeeps
  <2>9. CASE UNCHANGED crcVars
    BY <1>1, <2>9 DEF crcVars, CrcInv, CrcTypes, LeadEnds, StandsForRemainder
  <2> QED
    BY <1>1, <2>1, <2>2, <2>3, <2>4, <2>5, <2>6, <2>7, <2>8, <2>9 DEF CrcNext
<1> QED
  BY <1>1, CrcStarts, PTL DEF CrcSpec

\* What Extend returns is the checksum of the whole stream, for all pieces and
\* alignments, and Unmask gives back what Mask stored.
THEOREM ChecksumOfStream == CrcSpec => []ExtendIsCrc
<1>1. CrcInv => ExtendIsCrc
  <2> SUFFICES ASSUME CrcInv, at = "idle"
               PROVE  crc = Xor(remainder, kCrc32Xor) /\ Unmask(Mask(crc)) = crc
    BY DEF ExtendIsCrc
  <2>1. crc \in Words /\ crc = Xor(remainder, kCrc32Xor)
    BY DEF CrcInv, CrcTypes, StandsForRemainder
  <2> QED
    BY <2>1, UnmaskMask
<1> QED
  BY <1>1, ExtendStandsForRemainder, PTL

=============================================================================
