------------------------------- MODULE Cache -------------------------------
(***************************************************************************)
(* A shard of src/src/cache/cache.cpp with the hash table that it keeps in *)
(* table_: LRUCache, which takes the table for a map, and HandleTable,     *)
(* whose methods are called by the steps that change that map.             *)
(***************************************************************************)
EXTENDS LRUCache, FiniteSets

CONSTANTS Hash, MinLength

VARIABLES list, elems

ASSUME CacheHashAssumption == Hash \in [Keys -> Nat]
ASSUME CacheLengthAssumption == MinLength \in Nat \ {0}

HT == INSTANCE HandleTable

cacheVars == <<vars, list, elems>>

CacheInit == Init /\ HT!Init

\* Insert puts the new handle in the table, unless caching is turned off.
CacheInsert(k, c) ==
    /\ Insert(k, c)
    /\ IF capacity > 0 THEN HT!Insert(table'[k], k) ELSE UNCHANGED <<list, elems>>

CacheErase(k) == Erase(k) /\ HT!Remove(k)

\* The loops remove the key of the oldest entry: old->key().
CacheDrop == (EvictOne \/ PruneOne) /\ HT!Remove(key[Head(lru)])

\* What does not call a method of the table, or only looks a key up.  The
\* destructor unreferences its entries and leaves the table to its own.
CacheOther ==
    /\ \/ \E k \in Keys : Lookup(k)
       \/ \E h \in Handles : Release(h)
       \/ PruneCall \/ PruneReturn \/ InsertReturn
       \/ DestroyCall \/ DestroyOne \/ DestroyReturn
    /\ UNCHANGED <<list, elems>>

CacheNext ==
    \/ \E k \in Keys, c \in Charges : CacheInsert(k, c)
    \/ \E k \in Keys : CacheErase(k)
    \/ CacheDrop
    \/ CacheOther

CacheSpec == CacheInit /\ [][CacheNext]_cacheVars

---------------------------------------------------------------------------
(* Properties.                                                             *)

\* Where a handle is chained.
Places(h) ==
    UNION { { <<b, i>> : i \in { j \in 1 .. Len(list[b]) : list[b][j] = h } } :
            b \in 1 .. Len(list) }

\* The hash table is the map LRUCache takes it for: each key is found with its
\* one current handle, through collisions, replacements and growing; nothing
\* that is not in the cache is chained, so no freed handle is walked over;
\* elems_ is the number of handles and there are never more than buckets.
TableIsMap ==
    ~Destroyed =>
      /\ \A k \in Keys : HT!Lookup(k) = table[k]
      /\ \A h \in Handles : Cardinality(Places(h)) = IF in_cache[h] THEN 1 ELSE 0
      /\ elems = Cardinality({h \in Handles : in_cache[h]})
      /\ elems <= Len(list)

=============================================================================
