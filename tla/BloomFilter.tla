---------------------------- MODULE BloomFilter ----------------------------
(***************************************************************************)
(* src/src/filter_policy/bloom_filter_policy.cpp: filters of sets of keys, *)
(* one behind the other in a string.                                       *)
(*                                                                         *)
(* The string is a sequence of bytes: one of an array of bits is the set   *)
(* of its bits, one that has the number of probes is that number.          *)
(* BloomHash gives each key any number.  A policy is its bits_per_key.     *)
(***************************************************************************)
EXTENDS Naturals, Sequences

CONSTANTS
    FilterKeys,  \* keys
    Policies,    \* the bits_per_key of the policies
    HashBits,    \* bits of a hash: 32
    Rotation,    \* bits a hash is rotated by: 17
    ByteBits,    \* 8
    MinBits,     \* bits of the smallest filter: 64
    MaxProbes,   \* 30
    MaxKeys,     \* bound: keys of a filter
    MaxFilters   \* bound: filters in the string

ASSUME FilterAssumption ==
    /\ Policies \subseteq Nat /\ MaxKeys \in Nat /\ MaxProbes \in Nat \ {0}
    /\ ByteBits \in Nat \ {0} /\ MinBits \in Nat \ {0}
    /\ HashBits \in Nat /\ Rotation \in 0 .. HashBits
    /\ {2^HashBits, 2^Rotation, 2^(HashBits - Rotation)} \subseteq Nat \ {0}

VARIABLES
    hash,     \* BloomHash
    dst,      \* the string
    filters   \* the filters made: first and last byte, keys

filterVars == <<hash, dst, filters>>

FilterInit ==
    /\ hash \in [FilterKeys -> 0 .. 2^HashBits - 1]
    /\ dst = << >>
    /\ filters = << >>

\* k_: bits_per_key * 0.69, within 1 .. MaxProbes.
Probes(bits_per_key) ==
    LET k == (bits_per_key * 69) \div 100
    IN  IF k < 1 THEN 1 ELSE IF k > MaxProbes THEN MaxProbes ELSE k

\* The hash rotated to the right: the distance between two probes.
Delta(h) == (h \div 2^Rotation) + ((h * 2^(HashBits - Rotation)) % 2^HashBits)

\* The bit of each of the first k probes.
Positions(h, k, bits) == { ((h + j * Delta(h)) % 2^HashBits) % bits : j \in 0 .. k - 1 }

\* Fault: the bits are not rounded up to whole bytes again.
FilterBitsUneven(bits_per_key, n) ==
    IF n * bits_per_key < MinBits THEN MinBits ELSE n * bits_per_key

\* The bits of a filter of n keys: enough, and whole bytes.
FilterBits(bits_per_key, n) ==
    LET bits == IF n * bits_per_key < MinBits THEN MinBits ELSE n * bits_per_key
    IN  ((bits + ByteBits - 1) \div ByteBits) * ByteBits

\* CreateFilter appends the bits of the keys' probes, and the number of probes.
CreateFilter(bits_per_key, keys) ==
    LET bits == FilterBits(bits_per_key, Len(keys))
        bytes == (bits + ByteBits - 1) \div ByteBits
        k == Probes(bits_per_key)
        set == UNION { Positions(hash[keys[i]], k, bits) : i \in 1 .. Len(keys) }
        array == [ i \in 1 .. bytes |-> { b \in 0 .. ByteBits - 1 : (i - 1) * ByteBits + b \in set } ]
    IN  /\ dst' = dst \o array \o <<k>>
        /\ filters' = Append(filters, [first |-> Len(dst) + 1, last |-> Len(dst'), keys |-> keys])
        /\ UNCHANGED hash

\* KeyMayMatch takes the number of bits and probes from the filter itself.
KeyMayMatch(key, filter) ==
    LET len == Len(filter)
        bits == (len - 1) * ByteBits
        k == filter[len]
    IN  /\ len >= 2
        /\ \/ k > MaxProbes
           \/ \A p \in Positions(hash[key], k, bits) :
                p % ByteBits \in filter[1 + (p \div ByteBits)]

FilterNext ==
    /\ Len(filters) < MaxFilters
    /\ \E p \in Policies, keys \in UNION { [1 .. n -> FilterKeys] : n \in 0 .. MaxKeys } :
         CreateFilter(p, keys)

FilterSpec == FilterInit /\ [][FilterNext]_filterVars

---------------------------------------------------------------------------
\* "This method must return true if the key was in the list of keys passed to
\* CreateFilter()" (filter_policy.h), whatever policy made the filter, whatever
\* the hashes, and whatever is appended to the string later.
NoFalseNegatives ==
    \A i \in 1 .. Len(filters) : \A j \in 1 .. Len(filters[i].keys) :
        KeyMayMatch(filters[i].keys[j], SubSeq(dst, filters[i].first, filters[i].last))

=============================================================================
