---------------------------- MODULE MCLRUCache ----------------------------
(***************************************************************************)
(* The instance of the cache that TLC checks: a shard with its hash table, *)
(* or the shards together; part says which.                                *)
(*                                                                         *)
(* In the shard, three entries of charges 1 and 2 can fill a capacity of   *)
(* 3, and the third one's Insert evicts none, one or both of the others;   *)
(* capacity 0 turns caching off.  A table of one bucket grows to two and   *)
(* to four; the keys collide in two buckets, and two of them still in      *)
(* four.  Of two shards of capacity 2 one has two keys.                    *)
(***************************************************************************)
EXTENDS Cache, ShardedCache

CONSTANTS k1, k2, k3

MCKeys == {k1, k2, k3}
MCHash == [k \in MCKeys |-> CASE k = k1 -> 1 [] k = k2 -> 5 [] k = k3 -> 3]
MCCharges == {1, 2}
MCCapacities == {0, 3}
MCKeyHash == [k \in MCKeys |-> CASE k = k1 -> 0 [] k = k2 -> 1 [] k = k3 -> 3]

VARIABLE part

MCInit ==
    /\ part \in {"shard", "sharded"}
    /\ CacheInit /\ ShardedInit
    /\ part = "sharded" => capacity = 0

ShardPart == part = "shard" /\ CacheNext /\ UNCHANGED <<part, shardedVars>>

ShardedPart == part = "sharded" /\ ShardedNext /\ UNCHANGED <<part, cacheVars>>

MCNext == ShardPart \/ ShardedPart

MCSpec == MCInit /\ [][MCNext]_<<part, cacheVars, shardedVars>>

===========================================================================
