--------------------------- MODULE ShardedCache ---------------------------
(***************************************************************************)
(* ShardedLRUCache of src/src/cache/cache.cpp: shards with a mutex each,   *)
(* chosen by the hash of the key, and the two methods that go through all  *)
(* of them, one mutex after the other.                                     *)
(*                                                                         *)
(* A shard is what LRUCache promises: the charges of its entries, which of *)
(* them clients hold, and Insert's evictions.  Which of the entries that   *)
(* nobody holds are older is LRUCache's; here it is any order.             *)
(***************************************************************************)
EXTENDS Naturals, FiniteSets
FX == INSTANCE FiniteSetsExt

CONSTANTS
    kNumShardBits,
    ShardHashBits,    \* bits of a hash: 32
    KeyHash,          \* HashSlice: a hash for each key
    TotalCapacity,    \* of the cache
    EntryCharges,     \* charges of entries
    Scanners,         \* threads that call Prune or TotalCharge
    MaxIds            \* bound: calls of NewId

ASSUME HashBitsAssumption == kNumShardBits <= ShardHashBits
ASSUME KeyHashAssumption ==
    /\ IsFiniteSet(DOMAIN KeyHash)
    /\ KeyHash \in [DOMAIN KeyHash -> 0 .. 2^ShardHashBits - 1]
ASSUME EntryChargesAssumption == EntryCharges \subseteq Nat
\* What the provers are not told of powers of two.
ASSUME PowersAssumption ==
    /\ {2^kNumShardBits, 2^(ShardHashBits - kNumShardBits)} \subseteq Nat \ {0}
    /\ 2^ShardHashBits = 2^kNumShardBits * 2^(ShardHashBits - kNumShardBits)

ShardKeys == DOMAIN KeyHash
kNumShards == 2^kNumShardBits
ShardNumbers == 0 .. kNumShards - 1

VARIABLES
    entries,   \* the charge of each key's entry, 0 for none
    pinned,    \* keys whose entry a client holds
    scans,     \* each scanner's call, with what happened during it
    last_id

shardedVars == <<entries, pinned, scans, last_id>>

per_shard == (TotalCapacity + (kNumShards - 1)) \div kNumShards

Shard(hash) == hash \div 2^(ShardHashBits - kNumShardBits)

InShard(s) == { k \in ShardKeys : Shard(KeyHash[k]) = s }

ChargesOf(keys) == FX!SumFunctionOnSet(entries, keys)

\* LRUCache::TotalCharge.
UsageOf(s) == ChargesOf(InShard(s))

NoScan == [method |-> "none"]

ShardedInit ==
    /\ entries = [k \in ShardKeys |-> 0]
    /\ pinned = {}
    /\ scans = [t \in Scanners |-> NoScan]
    /\ last_id = 0

\* The scan, with the change that has just been made to a shard: least and
\* most that each shard has had, and the entries that nobody has touched.
Watched(c) ==
    IF c.method = "none" THEN c
    ELSE [c EXCEPT !.least = [s \in ShardNumbers |-> FX!Min({@[s], UsageOf(s)'})],
                   !.most = [s \in ShardNumbers |-> FX!Max({@[s], UsageOf(s)'})],
                   !.untouched = { k \in @ : entries'[k] = entries[k] /\ k \notin pinned' }]

---------------------------------------------------------------------------
(* Methods that lock one shard.                                            *)

Others == scans' = [t \in Scanners |-> Watched(scans[t])] /\ UNCHANGED last_id

\* What the eviction loop of Insert may drop from a shard that has become too
\* full: old entries until the rest fits, or all that nobody holds.
Evictions(s, k, charge) ==
    LET others == InShard(s) \ {k}
        free == { j \in others \ pinned : entries[j] > 0 }
        fits(dropped) == charge + ChargesOf(others \ dropped) <= per_shard
    IN  { d \in SUBSET free :
            /\ fits(d) \/ d = free
            /\ d # {} => \E j \in d : ~fits(d \ {j}) }

\* Insert, of a cache that has a capacity; without one the entry is only the
\* client's.
InsertEntry(k, charge) ==
    LET s == Shard(KeyHash[k]) IN
    /\ per_shard > 0
    /\ \E d \in Evictions(s, k, charge) :
         entries' = [j \in ShardKeys |-> IF j = k THEN charge ELSE IF j \in d THEN 0 ELSE entries[j]]
    /\ pinned' = pinned \cup {k}
    /\ Others

LookupEntry(k) ==
    /\ entries[k] > 0
    /\ pinned' = pinned \cup {k}
    /\ UNCHANGED entries
    /\ Others

\* The last result of the entry is released.
ReleaseEntry(k) ==
    /\ k \in pinned
    /\ pinned' = pinned \ {k}
    /\ UNCHANGED entries
    /\ Others

\* Erased or not, clients keep the entry they hold; it is the cache's no more.
EraseEntry(k) ==
    /\ entries[k] > 0
    /\ entries' = [entries EXCEPT ![k] = 0]
    /\ pinned' = pinned \ {k}
    /\ Others

NewId ==
    /\ last_id < MaxIds
    /\ last_id' = last_id + 1
    /\ UNCHANGED <<entries, pinned, scans>>

---------------------------------------------------------------------------
(* TotalCharge and Prune.                                                  *)

ScanCall(t, method) ==
    /\ scans[t].method = "none"
    /\ scans' = [scans EXCEPT ![t] =
           [method |-> method, s |-> 0, total |-> 0,
            least |-> [s \in ShardNumbers |-> UsageOf(s)],
            most |-> [s \in ShardNumbers |-> UsageOf(s)],
            untouched |-> { k \in ShardKeys \ pinned : entries[k] > 0 }]]
    /\ UNCHANGED <<entries, pinned, last_id>>

\* Fault: the last shard is left out.
MoreShort(c) == c.s < kNumShards - 1

More(c) == c.s < kNumShards

TotalChargeStep(t) ==
    /\ scans[t].method = "TotalCharge" /\ More(scans[t])
    /\ scans' = [scans EXCEPT ![t].total = @ + UsageOf(scans[t].s), ![t].s = @ + 1]
    /\ UNCHANGED <<entries, pinned, last_id>>

\* LRUCache::Prune of the next shard.
PruneStep(t) ==
    /\ scans[t].method = "Prune" /\ More(scans[t])
    /\ entries' = [k \in ShardKeys |->
                     IF k \in InShard(scans[t].s) \ pinned THEN 0 ELSE entries[k]]
    /\ UNCHANGED <<pinned, last_id>>
    /\ scans' = [u \in Scanners |-> Watched(IF u = t THEN [scans[t] EXCEPT !.s = @ + 1] ELSE scans[u])]

ScanReturn(t) ==
    /\ scans[t].method # "none" /\ ~More(scans[t])
    /\ scans' = [scans EXCEPT ![t] = NoScan]
    /\ UNCHANGED <<entries, pinned, last_id>>

ShardedNext ==
    \/ \E k \in ShardKeys :
         \/ \E charge \in EntryCharges : InsertEntry(k, charge)
         \/ LookupEntry(k) \/ ReleaseEntry(k) \/ EraseEntry(k)
    \/ NewId
    \/ \E t \in Scanners :
         \/ \E method \in {"TotalCharge", "Prune"} : ScanCall(t, method)
         \/ TotalChargeStep(t) \/ PruneStep(t) \/ ScanReturn(t)

ShardedSpec == ShardedInit /\ [][ShardedNext]_shardedVars

---------------------------------------------------------------------------
\* What the methods that take one lock after the other still promise when the
\* shards change meanwhile.  TotalCharge, "an estimate of the combined charges"
\* (cache.h), is no less than the shards' least usages during the call and no
\* more than their greatest together.  Prune, which removes "all cache entries
\* that are not actively in use" (cache.h), has left none that lay unused in
\* the cache during all of the call.
ScansSeeAll ==
    \A t \in Scanners : LET c == scans[t] IN
        c.method # "none" /\ ~More(c) =>
          /\ c.method = "Prune" => c.untouched = {}
          /\ c.method = "TotalCharge" =>
               /\ FX!SumFunction(c.least) <= c.total
               /\ c.total <= FX!SumFunction(c.most)

=============================================================================
