------------------------------- MODULE Arena -------------------------------
(***************************************************************************)
(* src/src/memory/arena.cpp: the memory of a MemTable.  The skip list's    *)
(* nodes come from AllocateAligned and the entries from Allocate, in any   *)
(* order; nothing is given back before the arena is destroyed.             *)
(*                                                                         *)
(* A pointer is a number, 0 for nullptr.  new is external: it returns      *)
(* memory that nobody has, at an address that is aligned for any object.   *)
(***************************************************************************)
EXTENDS Naturals, Sequences

CONSTANTS
    kBlockSize,
    Addresses,      \* where new may put a block
    Sizes,          \* the bytes that are asked for
    MaxAllocations  \* bound: calls

ASSUME BlockSizeAssumption == kBlockSize \in Nat \ {0}
ASSUME AddressesAssumption == \A a \in Addresses : a \in Nat \ {0} /\ a % 8 = 0
ASSUME SizesAssumption == Sizes \subseteq Nat \ {0}

VARIABLES
    alloc_ptr, alloc_bytes_remaining,
    blocks,        \* blocks_, with the size of each
    memory_usage,
    regions        \* what the calls have returned, and for how many bytes

arenaVars == <<alloc_ptr, alloc_bytes_remaining, blocks, memory_usage, regions>>

ArenaInit ==
    /\ alloc_ptr = 0 /\ alloc_bytes_remaining = 0
    /\ blocks = << >> /\ memory_usage = 0
    /\ regions = << >>

\* Two pieces of memory have no byte in common.
Apart(a, b) == a.start + a.size <= b.start \/ b.start + b.size <= a.start

Within(a, b) == b.start <= a.start /\ a.start + a.size <= b.start + b.size

\* A call returns start for so many bytes.
ReturnPiece(start, bytes, aligned) ==
    regions' = Append(regions, [start |-> start, size |-> bytes, aligned |-> aligned])

\* AllocateNewBlock: block is what new has returned.
AllocateNewBlock(block) ==
    /\ \A i \in 1 .. Len(blocks) : Apart(block, blocks[i])
    /\ blocks' = Append(blocks, block)
    /\ memory_usage' = memory_usage + block.size + 8

\* A large piece gets a block of its own, and the current block stays; for a
\* small one the rest of the current block is given up.
AllocateFallback(bytes, aligned) ==
    \E a \in Addresses :
        \/ /\ bytes > kBlockSize \div 4
           /\ AllocateNewBlock([start |-> a, size |-> bytes])
           /\ ReturnPiece(a, bytes, aligned)
           /\ UNCHANGED <<alloc_ptr, alloc_bytes_remaining>>
        \/ /\ bytes <= kBlockSize \div 4
           /\ AllocateNewBlock([start |-> a, size |-> kBlockSize])
           /\ ReturnPiece(a, bytes, aligned)
           /\ alloc_ptr' = a + bytes
           /\ alloc_bytes_remaining' = kBlockSize - bytes

\* The next bytes of the current block, slop of which are skipped.
Take(bytes, slop, aligned) ==
    /\ ReturnPiece(alloc_ptr + slop, bytes, aligned)
    /\ alloc_ptr' = alloc_ptr + bytes + slop
    /\ alloc_bytes_remaining' = alloc_bytes_remaining - (bytes + slop)
    /\ UNCHANGED <<blocks, memory_usage>>

Allocate(bytes) ==
    IF bytes <= alloc_bytes_remaining
    THEN Take(bytes, 0, FALSE)
    ELSE AllocateFallback(bytes, FALSE)

Slop == IF alloc_ptr % 8 = 0 THEN 0 ELSE 8 - (alloc_ptr % 8)

\* Fault: the skipped bytes are not counted.
AllocateAlignedShort(bytes) ==
    IF bytes <= alloc_bytes_remaining
    THEN /\ ReturnPiece(alloc_ptr + Slop, bytes, TRUE)
         /\ alloc_ptr' = alloc_ptr + bytes + Slop
         /\ alloc_bytes_remaining' = alloc_bytes_remaining - bytes
         /\ UNCHANGED <<blocks, memory_usage>>
    ELSE AllocateFallback(bytes, TRUE)

AllocateAligned(bytes) ==
    IF bytes + Slop <= alloc_bytes_remaining
    THEN Take(bytes, Slop, TRUE)
    ELSE AllocateFallback(bytes, TRUE)

ArenaNext ==
    /\ Len(regions) < MaxAllocations
    /\ \E bytes \in Sizes : Allocate(bytes) \/ AllocateAligned(bytes)

ArenaSpec == ArenaInit /\ [][ArenaNext]_arenaVars

---------------------------------------------------------------------------
(* Properties.                                                             *)

\* No two calls are given the same byte, every piece lies in a block that the
\* arena has, and the pieces of AllocateAligned begin at a multiple of 8, as
\* its assertion says, whatever was allocated before them.
RegionsDisjoint ==
    \A i \in 1 .. Len(regions) :
        /\ regions[i].aligned => regions[i].start % 8 = 0
        /\ \E b \in 1 .. Len(blocks) : Within(regions[i], blocks[b])
        /\ \A j \in 1 .. Len(regions) : i # j => Apart(regions[i], regions[j])

=============================================================================
