---------------------------- MODULE CacheProofs ----------------------------
(***************************************************************************)
(* Proofs about a shard of the cache, for every set of handles, keys,      *)
(* charges and capacities; about its hash table, for every hash of the     *)
(* keys and number of buckets of a new table; and about the shards         *)
(* together, for every number of them, of keys and of threads that go      *)
(* through them.                                                           *)
(***************************************************************************)
EXTENDS Cache, ShardedCache, DataInduction, SequenceTheorems, TLAPS


Distinct(s) == \A i, j \in 1 .. Len(s) : s[i] = s[j] => i = j

Elements(s) == {s[i] : i \in 1 .. Len(s)}

---------------------------------------------------------------------------
(* Facts about the sequence that models lru_.                              *)

LEMMA WithoutFacts ==
    ASSUME NEW S, NEW s \in Seq(S), Distinct(s), NEW e \in Elements(s)
    PROVE  /\ Without(s, e) \in Seq(S)
           /\ Distinct(Without(s, e))
           /\ Elements(Without(s, e)) = Elements(s) \ {e}
<1> DEFINE i == CHOOSE j \in 1 .. Len(s) : s[j] = e
           w == Without(s, e)
<1>1. i \in 1 .. Len(s) /\ s[i] = e
  BY DEF Elements
<1>2. Len(s) \in Nat /\ Len(s) >= 1 /\ \A j \in 1 .. Len(s) : s[j] \in S
  BY <1>1
<1>3. w = [j \in 1 .. Len(s) - 1 |-> s[IF j < i THEN j ELSE j + 1]]
  BY DEF Without
<1> HIDE DEF i, w
<1>4. \A j \in 1 .. Len(s) - 1 : w[j] = (IF j < i THEN s[j] ELSE s[j + 1])
  BY <1>1, <1>2, <1>3
<1>5. w \in Seq(S) /\ Len(w) = Len(s) - 1
  <2>1. \A j \in 1 .. Len(s) - 1 : s[IF j < i THEN j ELSE j + 1] \in S
    BY <1>1, <1>2
  <2> QED
    BY <1>2, <1>3, <2>1
<1>6. Distinct(w)
  <2> SUFFICES ASSUME NEW a \in 1 .. Len(s) - 1, NEW b \in 1 .. Len(s) - 1, w[a] = w[b]
               PROVE  a = b
    BY <1>5 DEF Distinct
  <2>1. PICK c \in 1 .. Len(s) : c = IF a < i THEN a ELSE a + 1
    BY <1>1, <1>2
  <2>2. PICK d \in 1 .. Len(s) : d = IF b < i THEN b ELSE b + 1
    BY <1>1, <1>2
  <2>3. s[c] = s[d]
    BY <1>4, <2>1, <2>2
  <2>4. c = d
    BY <2>3 DEF Distinct
  <2> QED
    BY <1>1, <1>2, <2>1, <2>2, <2>4
<1>7. ASSUME NEW h \in Elements(w) PROVE h \in Elements(s) \ {e}
  <2>1. PICK a \in 1 .. Len(s) - 1 : h = w[a]
    BY <1>5 DEF Elements
  <2>2. PICK c \in 1 .. Len(s) : (c = IF a < i THEN a ELSE a + 1) /\ c # i
    BY <1>1, <1>2
  <2>3. h = s[c]
    BY <1>4, <2>1, <2>2
  <2>4. h # e
    BY <1>1, <2>2, <2>3 DEF Distinct
  <2> QED
    BY <2>3, <2>4 DEF Elements
<1>8. ASSUME NEW h \in Elements(s) \ {e} PROVE h \in Elements(w)
  <2>1. PICK c \in 1 .. Len(s) : h = s[c]
    BY DEF Elements
  <2>2. c # i
    BY <1>1, <2>1
  <2>3. PICK a \in 1 .. Len(s) - 1 : c = IF a < i THEN a ELSE a + 1
    <3>1. CASE c < i
      BY <1>1, <1>2, <3>1
    <3>2. CASE c > i
      <4>1. c - 1 \in 1 .. Len(s) - 1 /\ ~(c - 1 < i)
        BY <1>1, <1>2, <3>2
      <4> QED
        BY <4>1
    <3> QED
      BY <1>1, <2>2, <3>1, <3>2
  <2>4. h = w[a]
    BY <1>4, <2>1, <2>3
  <2> QED
    BY <1>5, <2>4 DEF Elements
<1> QED
  BY <1>5, <1>6, <1>7, <1>8 DEF w

(* LRU_Append puts an entry that is not on the list at its end.            *)
LEMMA AppendFacts ==
    ASSUME NEW S, NEW s \in Seq(S), Distinct(s), NEW e \in S, e \notin Elements(s)
    PROVE  /\ Append(s, e) \in Seq(S)
           /\ Distinct(Append(s, e))
           /\ Elements(Append(s, e)) = Elements(s) \cup {e}
<1>1. /\ Append(s, e) \in Seq(S)
      /\ Len(Append(s, e)) = Len(s) + 1
      /\ \A j \in 1 .. Len(s) : Append(s, e)[j] = s[j]
      /\ Append(s, e)[Len(s) + 1] = e
      /\ Len(s) \in Nat
  OBVIOUS
<1>2. \A j \in 1 .. Len(s) + 1 : j \in 1 .. Len(s) \/ j = Len(s) + 1
  BY <1>1
<1>3. \A j \in 1 .. Len(s) : s[j] # e
  BY DEF Elements
<1>4. Distinct(Append(s, e))
  BY <1>1, <1>2, <1>3 DEF Distinct
<1>5. Elements(Append(s, e)) = Elements(s) \cup {e}
  BY <1>1, <1>2 DEF Elements
<1> QED
  BY <1>1, <1>4, <1>5

(* LRU_Remove of the oldest entry leaves the list of the others.           *)
LEMMA TailFacts ==
    ASSUME NEW S, NEW s \in Seq(S), Distinct(s), s # << >>
    PROVE  /\ Head(s) \in S
           /\ Head(s) \in Elements(s)
           /\ Tail(s) \in Seq(S)
           /\ Distinct(Tail(s))
           /\ Elements(Tail(s)) = Elements(s) \ {Head(s)}
<1>1. /\ Len(s) \in Nat /\ Len(s) >= 1
      /\ Head(s) = s[1] /\ Head(s) \in S
      /\ Tail(s) \in Seq(S)
      /\ Len(Tail(s)) = Len(s) - 1
      /\ \A j \in 1 .. Len(s) - 1 : Tail(s)[j] = s[j + 1]
  OBVIOUS
<1>2. 1 \in 1 .. Len(s)
  BY <1>1
<1>3. Distinct(Tail(s))
  <2> SUFFICES ASSUME NEW a \in 1 .. Len(s) - 1, NEW b \in 1 .. Len(s) - 1,
                      Tail(s)[a] = Tail(s)[b]
               PROVE  a = b
    BY <1>1 DEF Distinct
  <2>1. s[a + 1] = s[b + 1] /\ a + 1 \in 1 .. Len(s) /\ b + 1 \in 1 .. Len(s)
    BY <1>1
  <2>2. a + 1 = b + 1
    BY <2>1 DEF Distinct
  <2> QED
    BY <2>2
<1>4. ASSUME NEW h \in Elements(Tail(s)) PROVE h \in Elements(s) \ {Head(s)}
  <2>1. PICK a \in 1 .. Len(s) - 1 : h = s[a + 1]
    BY <1>1 DEF Elements
  <2>2. a + 1 \in 1 .. Len(s) /\ a + 1 # 1
    BY <1>1
  <2>3. s[a + 1] # s[1]
    BY <1>2, <2>2 DEF Distinct
  <2> QED
    BY <1>1, <2>1, <2>2, <2>3 DEF Elements
<1>5. ASSUME NEW h \in Elements(s) \ {Head(s)} PROVE h \in Elements(Tail(s))
  <2>1. PICK c \in 1 .. Len(s) : h = s[c] /\ c # 1
    BY <1>1 DEF Elements
  <2>2. c - 1 \in 1 .. Len(s) - 1 /\ Tail(s)[c - 1] = s[c]
    BY <1>1, <2>1
  <2> QED
    BY <1>1, <2>1, <2>2 DEF Elements
<1> QED
  BY <1>1, <1>2, <1>3, <1>4, <1>5 DEF Elements

---------------------------------------------------------------------------
(* The inductive invariant.                                                *)

\* The destructor starts with nothing in use and ends with nothing cached.
DestroyOK ==
    /\ Destroyed => in_use = {}
    /\ running = "destroyed" => lru = << >>

IInv == TypeOK /\ RefsCounted /\ ListsPartition /\ TableExact /\ DestroyOK

\* The same list invariant, with lru_ as the set of its elements.
LEMMA ListsPartitionAlt ==
    ListsPartition <=>
      /\ Distinct(lru)
      /\ \A h \in Handles :
           /\ h \in Elements(lru) <=> in_cache[h] /\ refs[h] = 1
           /\ h \in in_use <=> in_cache[h] /\ refs[h] >= 2
<1>1. \A h : InList(h) <=> h \in Elements(lru)
  BY DEF InList, Elements
<1> QED
  BY <1>1 DEF ListsPartition, Distinct

(* ListsPartition after a step, from what the two lists hold of each entry *)
(* then.                                                                   *)
LEMMA ListsPartitionNext ==
    ASSUME Distinct(lru'),
           \A h \in Handles :
             /\ h \in Elements(lru') <=> in_cache'[h] /\ refs'[h] = 1
             /\ h \in in_use' <=> in_cache'[h] /\ refs'[h] >= 2
    PROVE  ListsPartition'
<1>1. \A h : InList(h)' <=> h \in Elements(lru')
  BY DEF InList, Elements
<1> QED
  BY <1>1 DEF ListsPartition, Distinct

(* The constructor leaves an empty cache.                                  *)
LEMMA InitIInv == Init => IInv
<1> SUFFICES ASSUME Init PROVE IInv
  OBVIOUS
<1> USE NullAssumption, NoKeyAssumption
<1>1. TypeOK
  BY CapacitiesAssumption DEF Init, TypeOK, Running
<1>2. RefsCounted
  BY DEF Init, RefsCounted
<1>3. ListsPartition
  BY DEF Init, ListsPartition, InList
<1>4. TableExact /\ DestroyOK
  BY DEF Init, TableExact, DestroyOK, Destroyed
<1> QED
  BY <1>1, <1>2, <1>3, <1>4 DEF IInv

\* Dropping the cache's entry of a key: what Erase and the loops of Insert and
\* Prune do.
LEMMA DropInv ==
    ASSUME IInv, ~Destroyed, NEW k \in Keys, table[k] # Null,
           FinishErase(table[k]), table' = [table EXCEPT ![k] = Null],
           UNCHANGED <<capacity, held, running>>
    PROVE  IInv'
<1>1. PICK e \in Handles : e = table[k]
  BY DEF IInv, TypeOK
<1>2. TypeOK /\ RefsCounted /\ ListsPartition /\ TableExact
  BY DEF IInv
<1>3. in_cache[e] /\ key[e] = k /\ refs[e] \in Nat /\ refs[e] >= 1
  BY <1>1, <1>2 DEF TableExact, RefsCounted, TypeOK
<1>4. /\ \A h \in Handles : refs'[h] = IF h = e THEN refs[h] - 1 ELSE refs[h]
      /\ ~in_cache'[e] /\ \A h \in Handles \ {e} : in_cache'[h] <=> in_cache[h]
      /\ in_use' = in_use \ {e}
      /\ \A h \in Handles : key'[h] = IF refs'[h] = 0 THEN NoKey ELSE key[h]
  BY <1>1, <1>2 DEF FinishErase, LRU_Remove, Deallocate, TypeOK
<1>5. /\ lru' \in Seq(Handles)
      /\ Distinct(lru')
      /\ Elements(lru') = Elements(lru) \ {e}
  <2>1. Distinct(lru) /\ lru \in Seq(Handles)
    BY <1>2, ListsPartitionAlt DEF TypeOK
  <2>2. CASE e \in Elements(lru)
    <3>1. lru' = Without(lru, e)
      BY <1>1, <2>2 DEF FinishErase, LRU_Remove, InList, Elements
    <3> QED
      BY <2>1, <2>2, <3>1, WithoutFacts
  <2>3. CASE e \notin Elements(lru)
    <3>1. lru' = lru
      BY <1>1, <2>3 DEF FinishErase, LRU_Remove, InList, Elements
    <3> QED
      BY <2>1, <2>3, <3>1
  <2> QED
    BY <2>2, <2>3
<1>6. TypeOK'
  <2>1. refs' \in [Handles -> Nat]
    BY <1>1, <1>2, <1>3 DEF FinishErase, TypeOK
  <2>2. usage' \in Int
    BY <1>1, <1>2 DEF FinishErase, TypeOK
  <2>3. /\ key' \in [Handles -> Keys \cup {NoKey}]
        /\ charge' \in [Handles -> Nat]
    BY <1>2 DEF FinishErase, Deallocate, TypeOK
  <2>4. /\ in_cache' \in [Handles -> BOOLEAN]
        /\ table' \in [Keys -> Handles \cup {Null}]
        /\ in_use' \subseteq Handles
    BY <1>1, <1>2, <1>4 DEF FinishErase, TypeOK
  <2> QED
    BY <1>2, <1>5, <2>1, <2>2, <2>3, <2>4 DEF TypeOK
<1>7. RefsCounted'
  <2> SUFFICES ASSUME NEW h \in Handles
               PROVE  refs'[h] = IF in_cache'[h] THEN held'[h] + 1 ELSE held'[h]
    BY DEF RefsCounted
  <2>1. CASE h = e
    BY <1>2, <1>3, <1>4, <2>1 DEF RefsCounted, TypeOK
  <2>2. CASE h # e
    BY <1>2, <1>4, <2>2 DEF RefsCounted
  <2> QED
    BY <2>1, <2>2
<1>8. ListsPartition'
  <2>1. \A h \in Handles :
          /\ h \in Elements(lru') <=> in_cache'[h] /\ refs'[h] = 1
          /\ h \in in_use' <=> in_cache'[h] /\ refs'[h] >= 2
    BY <1>2, <1>4, <1>5, ListsPartitionAlt
  <2> QED
    BY <1>5, <2>1, ListsPartitionNext
<1>9. TableExact'
  <2>1. \A j \in Keys : table'[j] = IF j = k THEN Null ELSE table[j]
    BY <1>2 DEF TypeOK
  <2>2. ASSUME NEW j \in Keys, table'[j] # Null
        PROVE  in_cache'[table'[j]] /\ key'[table'[j]] = j
    <3>1. /\ table'[j] = table[j] /\ table[j] \in Handles
          /\ in_cache[table[j]] /\ key[table[j]] = j
          /\ j # k
      BY <1>2, <2>1, <2>2 DEF TableExact, TypeOK
    <3>2. table[j] # e
      BY <1>3, <3>1
    <3>3. refs[table[j]] # 0
      BY <1>2, <3>1 DEF RefsCounted, TypeOK
    <3> QED
      BY <1>4, <3>1, <3>2, <3>3
  <2>3. ASSUME NEW h \in Handles, in_cache'[h]
        PROVE  key'[h] \in Keys /\ table'[key'[h]] = h
    <3>1. h # e /\ in_cache[h] /\ key[h] \in Keys /\ table[key[h]] = h
      BY <1>2, <1>4, <2>3 DEF TableExact
    <3>2. refs[h] # 0
      BY <1>2, <3>1 DEF RefsCounted, TypeOK
    <3>3. key'[h] = key[h]
      BY <1>4, <3>1, <3>2
    <3>4. key[h] # k
      BY <1>1, <3>1
    <3> QED
      BY <2>1, <3>1, <3>3, <3>4
  <2> QED
    BY <2>2, <2>3 DEF TableExact, Destroyed
<1>10. DestroyOK'
  BY DEF DestroyOK, Destroyed
<1> QED
  BY <1>6, <1>7, <1>8, <1>9, <1>10 DEF IInv

\* Insert: e was free memory, so it was on no list, in no table entry and in
\* no client's hands.
LEMMA FreeHandle ==
    ASSUME IInv, NEW e \in Handles, refs[e] = 0
    PROVE  ~in_cache[e] /\ held[e] = 0 /\ e \notin in_use /\ e \notin Elements(lru)
<1>1. ~in_cache[e] /\ held[e] = 0
  BY DEF IInv, RefsCounted, TypeOK
<1> QED
  BY <1>1, ListsPartitionAlt DEF IInv

(* Insert into a cache of capacity 0 keeps the invariant: the entry is the *)
(* client's alone.                                                         *)
LEMMA InsertUncachedInv ==
    ASSUME IInv, NEW e \in Handles, refs[e] = 0, NEW k \in Keys, NEW c \in Charges,
           running = "none", InsertUncached(e, k, c),
           held' = [held EXCEPT ![e] = 1], running' = "insert", UNCHANGED capacity
    PROVE  IInv'
<1>1. TypeOK /\ RefsCounted /\ ListsPartition /\ TableExact
  BY DEF IInv
<1>2. ~in_cache[e] /\ held[e] = 0 /\ e \notin in_use /\ e \notin Elements(lru)
  BY FreeHandle
<1>3. /\ \A h \in Handles : refs'[h] = IF h = e THEN 1 ELSE refs[h]
      /\ \A h \in Handles : held'[h] = IF h = e THEN 1 ELSE held[h]
      /\ \A h \in Handles : key'[h] = IF h = e THEN k ELSE key[h]
      /\ in_cache' = in_cache /\ in_use' = in_use /\ lru' = lru /\ table' = table
  BY <1>1 DEF InsertUncached, TypeOK
<1>4. TypeOK'
  BY <1>1, ChargesAssumption DEF TypeOK, InsertUncached, Running
<1>5. RefsCounted'
  <2> SUFFICES ASSUME NEW h \in Handles
               PROVE  refs'[h] = IF in_cache'[h] THEN held'[h] + 1 ELSE held'[h]
    BY DEF RefsCounted
  <2>1. CASE h = e
    BY <1>2, <1>3, <2>1
  <2>2. CASE h # e
    BY <1>1, <1>3, <2>2 DEF RefsCounted
  <2> QED
    BY <2>1, <2>2
<1>6. ListsPartition'
  <2>1. Distinct(lru')
    BY <1>1, <1>3, ListsPartitionAlt
  <2>2. \A h \in Handles :
          /\ h \in Elements(lru') <=> in_cache'[h] /\ refs'[h] = 1
          /\ h \in in_use' <=> in_cache'[h] /\ refs'[h] >= 2
    BY <1>1, <1>2, <1>3, ListsPartitionAlt
  <2> QED
    BY <2>1, <2>2, ListsPartitionNext
<1>7. TableExact'
  <2>1. \A j \in Keys : table[j] # Null => table[j] # e /\ table[j] \in Handles
    BY <1>1, <1>2 DEF TableExact, Destroyed, TypeOK
  <2> QED
    BY <1>1, <1>2, <1>3, <2>1 DEF TableExact, Destroyed
<1>8. DestroyOK'
  BY DEF DestroyOK, Destroyed
<1> QED
  BY <1>4, <1>5, <1>6, <1>7, <1>8 DEF IInv

(* Insert of a key that is not in the table keeps the invariant.           *)
LEMMA InsertNewInv ==
    ASSUME IInv, NEW e \in Handles, refs[e] = 0, NEW k \in Keys, NEW c \in Charges,
           running = "none", InsertNew(e, k, c),
           held' = [held EXCEPT ![e] = 1], running' = "insert", UNCHANGED capacity
    PROVE  IInv'
<1>1. TypeOK /\ RefsCounted /\ ListsPartition /\ TableExact
  BY DEF IInv
<1>2. ~in_cache[e] /\ held[e] = 0 /\ e \notin in_use /\ e \notin Elements(lru)
  BY FreeHandle
<1>3. /\ \A h \in Handles : refs'[h] = IF h = e THEN 2 ELSE refs[h]
      /\ \A h \in Handles : held'[h] = IF h = e THEN 1 ELSE held[h]
      /\ \A h \in Handles : key'[h] = IF h = e THEN k ELSE key[h]
      /\ in_cache'[e] /\ \A h \in Handles \ {e} : in_cache'[h] <=> in_cache[h]
      /\ \A j \in Keys : table'[j] = IF j = k THEN e ELSE table[j]
      /\ in_use' = in_use \cup {e} /\ lru' = lru
      /\ table[k] = Null
  BY <1>1 DEF InsertNew, TypeOK
<1>4. TypeOK'
  BY <1>1, ChargesAssumption DEF TypeOK, InsertNew, Running
<1>5. RefsCounted'
  <2> SUFFICES ASSUME NEW h \in Handles
               PROVE  refs'[h] = IF in_cache'[h] THEN held'[h] + 1 ELSE held'[h]
    BY DEF RefsCounted
  <2>1. CASE h = e
    BY <1>2, <1>3, <2>1
  <2>2. CASE h # e
    BY <1>1, <1>3, <2>2 DEF RefsCounted
  <2> QED
    BY <2>1, <2>2
<1>6. ListsPartition'
  <2>1. Distinct(lru')
    BY <1>1, <1>3, ListsPartitionAlt
  <2>2. \A h \in Handles :
          /\ h \in Elements(lru') <=> in_cache'[h] /\ refs'[h] = 1
          /\ h \in in_use' <=> in_cache'[h] /\ refs'[h] >= 2
    BY <1>1, <1>2, <1>3, ListsPartitionAlt
  <2> QED
    BY <2>1, <2>2, ListsPartitionNext
<1>7. TableExact'
  <2>1. ASSUME NEW j \in Keys, table'[j] # Null
        PROVE  in_cache'[table'[j]] /\ key'[table'[j]] = j
    <3>1. CASE j = k
      BY <1>3, <3>1
    <3>2. CASE j # k
      <4>1. /\ table'[j] = table[j] /\ table[j] \in Handles
            /\ in_cache[table[j]] /\ key[table[j]] = j
        BY <1>1, <1>3, <2>1, <3>2 DEF TableExact, TypeOK, Destroyed
      <4> QED
        BY <1>2, <1>3, <4>1
    <3> QED
      BY <3>1, <3>2
  <2>2. ASSUME NEW h \in Handles, in_cache'[h]
        PROVE  key'[h] \in Keys /\ table'[key'[h]] = h
    <3>1. CASE h = e
      BY <1>3, <3>1
    <3>2. CASE h # e
      <4>1. in_cache[h] /\ key[h] \in Keys /\ table[key[h]] = h
        BY <1>1, <1>3, <2>2, <3>2 DEF TableExact, Destroyed
      <4>2. key[h] # k
        BY <1>3, <4>1, NullAssumption
      <4> QED
        BY <1>3, <3>2, <4>1, <4>2
    <3> QED
      BY <3>1, <3>2
  <2> QED
    BY <2>1, <2>2 DEF TableExact
<1>8. DestroyOK'
  BY DEF DestroyOK, Destroyed
<1> QED
  BY <1>4, <1>5, <1>6, <1>7, <1>8 DEF IInv

(* Insert over the entry of the same key keeps the invariant: the old      *)
(* entry leaves the cache.                                                 *)
LEMMA InsertOverInv ==
    ASSUME IInv, NEW e \in Handles, refs[e] = 0, NEW k \in Keys, NEW c \in Charges,
           running = "none", InsertOver(e, k, c),
           held' = [held EXCEPT ![e] = 1], running' = "insert", UNCHANGED capacity
    PROVE  IInv'
<1>1. TypeOK /\ RefsCounted /\ ListsPartition /\ TableExact
  BY DEF IInv
<1>2. ~in_cache[e] /\ held[e] = 0 /\ e \notin in_use /\ e \notin Elements(lru)
  BY FreeHandle
<1>o. PICK old \in Handles : old = table[k]
  BY <1>1 DEF InsertOver, TypeOK
<1>3. in_cache[old] /\ key[old] = k /\ refs[old] \in Nat /\ refs[old] >= 1 /\ old # e
  <2>1. in_cache[old] /\ key[old] = k
    BY <1>1, <1>o DEF TableExact, InsertOver, Destroyed
  <2> QED
    BY <1>1, <1>2, <2>1 DEF RefsCounted, TypeOK
<1>4. /\ refs' = [refs EXCEPT ![e] = 2, ![old] = @ - 1]
      /\ in_cache' = [in_cache EXCEPT ![e] = TRUE, ![old] = FALSE]
  BY <1>o DEF InsertOver
<1>5. /\ refs'[e] = 2 /\ refs'[old] = refs[old] - 1
      /\ \A h \in Handles \ {e, old} : refs'[h] = refs[h]
      /\ \A h \in Handles : held'[h] = IF h = e THEN 1 ELSE held[h]
      /\ in_cache'[e] /\ ~in_cache'[old]
      /\ \A h \in Handles \ {e, old} : in_cache'[h] <=> in_cache[h]
  BY <1>1, <1>3, <1>4 DEF TypeOK
<1>6. /\ \A h \in Handles : key'[h] = IF h = e THEN k
                                      ELSE IF refs'[h] = 0 THEN NoKey ELSE key[h]
      /\ \A j \in Keys : table'[j] = IF j = k THEN e ELSE table[j]
      /\ in_use' = (in_use \ {old}) \cup {e}
  BY <1>1, <1>o DEF InsertOver, TypeOK
<1>7. /\ lru' \in Seq(Handles)
      /\ Distinct(lru')
      /\ Elements(lru') = Elements(lru) \ {old}
  <2>1. Distinct(lru) /\ lru \in Seq(Handles)
    BY <1>1, ListsPartitionAlt DEF TypeOK
  <2>2. CASE old \in Elements(lru)
    <3>1. lru' = Without(lru, old)
      BY <1>o, <2>2 DEF InsertOver, InList, Elements
    <3> QED
      BY <2>1, <2>2, <3>1, WithoutFacts
  <2>3. CASE old \notin Elements(lru)
    <3>1. lru' = lru
      BY <1>o, <2>3 DEF InsertOver, InList, Elements
    <3> QED
      BY <2>1, <2>3, <3>1
  <2> QED
    BY <2>2, <2>3
<1>8. TypeOK'
  <2>1. refs' \in [Handles -> Nat] /\ in_cache' \in [Handles -> BOOLEAN]
    <3>1. refs[old] - 1 \in Nat
      BY <1>3
    <3>2. refs' \in [Handles -> Nat]
      BY <1>1, <1>4, <3>1 DEF TypeOK
    <3>3. in_cache' \in [Handles -> BOOLEAN]
      BY <1>1, <1>4 DEF TypeOK
    <3> QED
      BY <3>2, <3>3
  <2>2. c \in Nat /\ charge[old] \in Nat
    BY <1>1, ChargesAssumption DEF TypeOK
  <2>3. usage' \in Int
    BY <1>1, <1>o, <2>2 DEF InsertOver, TypeOK
  <2>4. /\ key' \in [Handles -> Keys \cup {NoKey}]
        /\ charge' \in [Handles -> Nat]
    BY <1>1, <2>2 DEF InsertOver, TypeOK
  <2>5. /\ table' \in [Keys -> Handles \cup {Null}]
        /\ in_use' \subseteq Handles
        /\ held' \in [Handles -> Nat]
    BY <1>1, <1>6 DEF InsertOver, TypeOK
  <2> QED
    BY <1>1, <1>7, <2>1, <2>3, <2>4, <2>5 DEF TypeOK, Running
<1>9. RefsCounted'
  <2> SUFFICES ASSUME NEW h \in Handles
               PROVE  refs'[h] = IF in_cache'[h] THEN held'[h] + 1 ELSE held'[h]
    BY DEF RefsCounted
  <2>1. CASE h = e
    BY <1>2, <1>5, <2>1
  <2>2. CASE h = old
    BY <1>1, <1>3, <1>5, <2>2 DEF RefsCounted, TypeOK
  <2>3. CASE h \in Handles \ {e, old}
    BY <1>1, <1>5, <2>3 DEF RefsCounted
  <2> QED
    BY <2>1, <2>2, <2>3
<1>10. ListsPartition'
  <2>1. ASSUME NEW h \in Handles
        PROVE  /\ h \in Elements(lru') <=> in_cache'[h] /\ refs'[h] = 1
               /\ h \in in_use' <=> in_cache'[h] /\ refs'[h] >= 2
    <3>1. CASE h = e
      BY <1>2, <1>5, <1>6, <1>7, <3>1
    <3>2. CASE h = old
      BY <1>3, <1>5, <1>6, <1>7, <3>2
    <3>3. CASE h \in Handles \ {e, old}
      BY <1>1, <1>5, <1>6, <1>7, <3>3, ListsPartitionAlt
    <3> QED
      BY <3>1, <3>2, <3>3
  <2> QED
    BY <1>7, <2>1, ListsPartitionNext
<1>11. TableExact'
  <2>1. ASSUME NEW j \in Keys, table'[j] # Null
        PROVE  in_cache'[table'[j]] /\ key'[table'[j]] = j
    <3>1. CASE j = k
      BY <1>5, <1>6, <3>1
    <3>2. CASE j # k
      <4>1. /\ table'[j] = table[j] /\ table[j] \in Handles
            /\ in_cache[table[j]] /\ key[table[j]] = j
        BY <1>1, <1>6, <2>1, <3>2 DEF TableExact, TypeOK, Destroyed
      <4>2. table[j] \in Handles \ {e, old}
        BY <1>2, <1>3, <3>2, <4>1
      <4>3. refs[table[j]] # 0
        BY <1>1, <4>1 DEF RefsCounted, TypeOK
      <4> QED
        BY <1>5, <1>6, <4>1, <4>2, <4>3
    <3> QED
      BY <3>1, <3>2
  <2>2. ASSUME NEW h \in Handles, in_cache'[h]
        PROVE  key'[h] \in Keys /\ table'[key'[h]] = h
    <3>1. CASE h = e
      BY <1>6, <3>1
    <3>2. CASE h # e
      <4>1. h \in Handles \ {e, old}
        BY <1>5, <2>2, <3>2
      <4>2. in_cache[h] /\ key[h] \in Keys /\ table[key[h]] = h
        BY <1>1, <1>5, <2>2, <4>1 DEF TableExact, Destroyed
      <4>3. key[h] # k /\ refs[h] # 0
        BY <1>1, <1>o, <4>1, <4>2 DEF RefsCounted, TypeOK
      <4> QED
        BY <1>5, <1>6, <3>2, <4>1, <4>2, <4>3
    <3> QED
      BY <3>1, <3>2
  <2> QED
    BY <2>1, <2>2 DEF TableExact
<1>12. DestroyOK'
  BY DEF DestroyOK, Destroyed
<1> QED
  BY <1>8, <1>9, <1>10, <1>11, <1>12 DEF IInv

\* Ref moves an entry that only the cache referenced to in_use_.
LEMMA LookupInv ==
    ASSUME IInv, NEW k \in Keys, Lookup(k)
    PROVE  IInv'
<1>1. TypeOK /\ RefsCounted /\ ListsPartition /\ TableExact
  BY DEF IInv
<1>2. PICK e \in Handles : e = table[k]
  BY <1>1 DEF Lookup, TypeOK
<1>3. in_cache[e] /\ refs[e] \in Nat /\ refs[e] >= 1 /\ held[e] \in Nat
  BY <1>1, <1>2 DEF Lookup, TableExact, Destroyed, RefsCounted, TypeOK
<1>4. /\ refs' = [refs EXCEPT ![e] = @ + 1] /\ held' = [held EXCEPT ![e] = @ + 1]
      /\ UNCHANGED <<capacity, usage, table, key, charge, in_cache, running>>
  BY <1>2 DEF Lookup
<1>5. Distinct(lru) /\ lru \in Seq(Handles)
  BY <1>1, ListsPartitionAlt DEF TypeOK
<1>6. /\ lru' \in Seq(Handles)
      /\ Distinct(lru')
      /\ Elements(lru') = Elements(lru) \ {e}
      /\ in_use' = in_use \cup {e}
  <2>1. CASE refs[e] = 1
    <3>1. e \in Elements(lru) /\ lru' = Without(lru, e) /\ in_use' = in_use \cup {e}
      BY <1>1, <1>2, <1>3, <2>1, ListsPartitionAlt DEF Lookup
    <3> QED
      BY <1>5, <3>1, WithoutFacts
  <2>2. CASE refs[e] # 1
    <3>1. e \notin Elements(lru) /\ e \in in_use /\ lru' = lru /\ in_use' = in_use
      BY <1>1, <1>2, <1>3, <2>2, ListsPartitionAlt DEF Lookup
    <3> QED
      BY <1>5, <3>1
  <2> QED
    BY <2>1, <2>2
<1>7. TypeOK'
  BY <1>1, <1>3, <1>4, <1>6 DEF TypeOK
<1>8. RefsCounted'
  BY <1>1, <1>3, <1>4 DEF RefsCounted, TypeOK
<1>9. ListsPartition'
  <2>1. ASSUME NEW h \in Handles
        PROVE  /\ h \in Elements(lru') <=> in_cache'[h] /\ refs'[h] = 1
               /\ h \in in_use' <=> in_cache'[h] /\ refs'[h] >= 2
    <3>1. CASE h = e
      BY <1>1, <1>3, <1>4, <1>6, <3>1 DEF TypeOK
    <3>2. CASE h # e
      BY <1>1, <1>4, <1>6, <3>2, ListsPartitionAlt DEF TypeOK
    <3> QED
      BY <3>1, <3>2
  <2> QED
    BY <1>6, <2>1, ListsPartitionNext
<1>10. TableExact' /\ DestroyOK'
  BY <1>1, <1>4, <1>6 DEF TableExact, Destroyed, DestroyOK, Lookup
<1> QED
  BY <1>7, <1>8, <1>9, <1>10 DEF IInv

\* Unref by a client: the last reference frees the handle, and when only the
\* cache's is left the entry moves to the end of lru_.
LEMMA ReleaseInv ==
    ASSUME IInv, NEW e \in Handles, Release(e)
    PROVE  IInv'
<1>1. TypeOK /\ RefsCounted /\ ListsPartition /\ TableExact
  BY DEF IInv
<1>2. held[e] \in Nat /\ held[e] > 0 /\ refs[e] \in Nat /\ refs[e] >= 1
  BY <1>1 DEF Release, RefsCounted, TypeOK
<1>3. in_cache[e] => refs[e] >= 2
  BY <1>1, <1>2 DEF RefsCounted
<1>4. /\ refs' = [refs EXCEPT ![e] = @ - 1] /\ held' = [held EXCEPT ![e] = @ - 1]
      /\ UNCHANGED <<capacity, usage, table, in_cache, running>>
      /\ \A h \in Handles : key'[h] = IF refs'[h] = 0 THEN NoKey ELSE key[h]
  BY DEF Release, Deallocate
<1>5. Distinct(lru) /\ lru \in Seq(Handles)
  BY <1>1, ListsPartitionAlt DEF TypeOK
<1>6. /\ lru' \in Seq(Handles) /\ Distinct(lru') /\ in_use' \subseteq Handles
      /\ \A h \in Handles :
           /\ h \in Elements(lru') <=> in_cache'[h] /\ refs'[h] = 1
           /\ h \in in_use' <=> in_cache'[h] /\ refs'[h] >= 2
  <2>1. CASE refs[e] = 2 /\ in_cache[e]
    <3>1. e \notin Elements(lru) /\ lru' = Append(lru, e) /\ in_use' = in_use \ {e}
      BY <1>1, <2>1, ListsPartitionAlt DEF Release
    <3>2. /\ lru' \in Seq(Handles) /\ Distinct(lru')
          /\ Elements(lru') = Elements(lru) \cup {e}
      BY <1>5, <3>1, AppendFacts
    <3> QED
      BY <1>1, <1>4, <2>1, <3>1, <3>2, ListsPartitionAlt DEF TypeOK
  <2>2. CASE ~(refs[e] = 2 /\ in_cache[e])
    <3>1. lru' = lru /\ in_use' = in_use
      BY <2>2 DEF Release
    <3>2. \A h \in Handles :
           /\ h \in Elements(lru) <=> in_cache[h] /\ refs[h] = 1
           /\ h \in in_use <=> in_cache[h] /\ refs[h] >= 2
      BY <1>1, ListsPartitionAlt
    <3>3. ASSUME NEW h \in Handles
          PROVE  /\ h \in Elements(lru') <=> in_cache'[h] /\ refs'[h] = 1
                 /\ h \in in_use' <=> in_cache'[h] /\ refs'[h] >= 2
      <4>1. CASE h = e
        BY <1>1, <1>2, <1>3, <1>4, <2>2, <3>1, <3>2, <4>1 DEF TypeOK
      <4>2. CASE h # e
        BY <1>1, <1>4, <3>1, <3>2, <4>2 DEF TypeOK
      <4> QED
        BY <4>1, <4>2
    <3> QED
      BY <1>1, <1>5, <3>1, <3>3 DEF TypeOK
  <2> QED
    BY <2>1, <2>2
<1>7. TypeOK'
  <2>1. refs' \in [Handles -> Nat] /\ held' \in [Handles -> Nat]
    BY <1>1, <1>2, <1>4 DEF TypeOK
  <2>2. key' \in [Handles -> Keys \cup {NoKey}] /\ charge' \in [Handles -> Nat]
    BY <1>1 DEF Release, Deallocate, TypeOK
  <2> QED
    BY <1>1, <1>4, <1>6, <2>1, <2>2 DEF TypeOK
<1>8. RefsCounted'
  BY <1>1, <1>2, <1>4 DEF RefsCounted, TypeOK
<1>9. ListsPartition'
  BY <1>6, ListsPartitionNext
<1>10. TableExact'
  <2>1. ASSUME NEW h \in Handles, in_cache[h] PROVE key'[h] = key[h]
    <3>1. refs'[h] # 0
      <4>1. CASE h = e
        BY <1>1, <1>2, <1>3, <1>4, <2>1, <4>1 DEF TypeOK
      <4>2. CASE h # e
        BY <1>1, <1>4, <2>1, <4>2 DEF RefsCounted, TypeOK
      <4> QED
        BY <4>1, <4>2
    <3> QED
      BY <1>4, <3>1
  <2>2. \A j \in Keys : table[j] # Null => table[j] \in Handles
    BY <1>1 DEF TypeOK
  <2> QED
    BY <1>1, <1>4, <2>1, <2>2 DEF TableExact, Destroyed
<1>11. DestroyOK'
  BY DEF DestroyOK, Destroyed, Release
<1> QED
  BY <1>7, <1>8, <1>9, <1>10, <1>11 DEF IInv

(* A step of the destructor keeps the invariant.                           *)
LEMMA DestroyOneInv ==
    ASSUME IInv, DestroyOne
    PROVE  IInv'
<1>1. TypeOK /\ RefsCounted /\ ListsPartition
  BY DEF IInv
<1>2. Distinct(lru) /\ lru \in Seq(Handles) /\ lru # << >>
  BY <1>1, ListsPartitionAlt DEF TypeOK, DestroyOne
<1>3. PICK e \in Handles : e = Head(lru) /\ e \in Elements(lru)
  BY <1>2, TailFacts
<1>4. /\ lru' \in Seq(Handles) /\ Distinct(lru')
      /\ Elements(lru') = Elements(lru) \ {e}
  BY <1>2, <1>3, TailFacts DEF DestroyOne
<1>5. in_cache[e] /\ refs[e] = 1 /\ held[e] = 0
  BY <1>1, <1>3, ListsPartitionAlt DEF RefsCounted, TypeOK
<1>6. /\ refs' = [refs EXCEPT ![e] = @ - 1]
      /\ in_cache' = [in_cache EXCEPT ![e] = FALSE]
      /\ UNCHANGED <<capacity, usage, in_use, table, held, running>>
      /\ running = "destroy"
  BY <1>3 DEF DestroyOne
<1>7. /\ refs'[e] = 0 /\ ~in_cache'[e]
      /\ \A h \in Handles \ {e} : refs'[h] = refs[h] /\ (in_cache'[h] <=> in_cache[h])
  BY <1>1, <1>5, <1>6 DEF TypeOK
<1>8. TypeOK'
  <2>1. refs' \in [Handles -> Nat]
    BY <1>1, <1>5, <1>6 DEF TypeOK
  <2>2. in_cache' \in [Handles -> BOOLEAN]
    BY <1>1, <1>6 DEF TypeOK
  <2>3. key' \in [Handles -> Keys \cup {NoKey}] /\ charge' \in [Handles -> Nat]
    BY <1>1 DEF DestroyOne, Deallocate, TypeOK
  <2> QED
    BY <1>1, <1>4, <1>6, <2>1, <2>2, <2>3 DEF TypeOK
<1>9. RefsCounted'
  <2> SUFFICES ASSUME NEW h \in Handles
               PROVE  refs'[h] = IF in_cache'[h] THEN held'[h] + 1 ELSE held'[h]
    BY DEF RefsCounted
  <2>1. CASE h = e
    BY <1>5, <1>6, <1>7, <2>1
  <2>2. CASE h # e
    BY <1>1, <1>6, <1>7, <2>2 DEF RefsCounted
  <2> QED
    BY <2>1, <2>2
<1>10. ListsPartition'
  <2>1. ASSUME NEW h \in Handles
        PROVE  /\ h \in Elements(lru') <=> in_cache'[h] /\ refs'[h] = 1
               /\ h \in in_use' <=> in_cache'[h] /\ refs'[h] >= 2
    <3>1. CASE h = e
      BY <1>1, <1>4, <1>5, <1>6, <1>7, <3>1, ListsPartitionAlt
    <3>2. CASE h # e
      BY <1>1, <1>4, <1>6, <1>7, <3>2, ListsPartitionAlt
    <3> QED
      BY <3>1, <3>2
  <2> QED
    BY <1>4, <2>1, ListsPartitionNext
<1>11. TableExact' /\ DestroyOK'
  BY <1>6 DEF TableExact, Destroyed, DestroyOK, IInv
<1> QED
  BY <1>8, <1>9, <1>10, <1>11 DEF IInv

\* The calls and returns of the loops change only who runs.
LEMMA RunningInv ==
    ASSUME IInv,
           InsertReturn \/ PruneCall \/ PruneReturn \/ DestroyCall \/ DestroyReturn
    PROVE  IInv'
<1>1. UNCHANGED <<capacity, usage, lru, in_use, table, key, charge, in_cache, refs, held>>
  BY DEF InsertReturn, PruneCall, PruneReturn, DestroyCall, DestroyReturn, fields
<1>2. running' \in Running /\ (Destroyed => Destroyed')
  BY DEF InsertReturn, PruneCall, PruneReturn, DestroyCall, DestroyReturn, Running,
         Destroyed
<1>3. TypeOK'
  BY <1>1, <1>2 DEF IInv, TypeOK
<1>4. RefsCounted' /\ ListsPartition'
  BY <1>1 DEF IInv, RefsCounted, ListsPartition, InList
<1>5. TableExact'
  BY <1>1, <1>2 DEF IInv, TableExact
<1>6. DestroyOK'
  BY <1>1 DEF IInv, DestroyOK, Destroyed, InsertReturn, PruneCall, PruneReturn,
              DestroyCall, DestroyReturn
<1> QED
  BY <1>3, <1>4, <1>5, <1>6 DEF IInv

\* The loops drop the head of lru_ itself: nobody holds it.
LEMMA OldestIsDropped ==
    ASSUME IInv, ~Destroyed, lru # << >>
    PROVE  /\ Head(lru) \in Handles
           /\ key[Head(lru)] \in Keys
           /\ table[key[Head(lru)]] = Head(lru)
           /\ held[Head(lru)] = 0
<1>1. TypeOK /\ RefsCounted /\ ListsPartition /\ TableExact
  BY DEF IInv
<1>2. Head(lru) \in Handles /\ Head(lru) \in Elements(lru)
  BY <1>1, ListsPartitionAlt, TailFacts DEF TypeOK
<1>3. in_cache[Head(lru)] /\ refs[Head(lru)] = 1
  BY <1>1, <1>2, ListsPartitionAlt
<1>4. held[Head(lru)] = 0
  BY <1>1, <1>2, <1>3 DEF RefsCounted, TypeOK
<1> QED
  BY <1>1, <1>2, <1>3, <1>4 DEF TableExact

(* Every step of the shard keeps the invariant.                            *)
LEMMA StepIInv == IInv /\ [Next]_vars => IInv'
<1> SUFFICES ASSUME IInv, [Next]_vars PROVE IInv'
  OBVIOUS
<1>1. ASSUME NEW k \in Keys, NEW c \in Charges, Insert(k, c) PROVE IInv'
  <2>1. PICK e \in Handles :
          /\ refs[e] = 0
          /\ InsertUncached(e, k, c) \/ InsertNew(e, k, c) \/ InsertOver(e, k, c)
          /\ held' = [held EXCEPT ![e] = 1]
    BY <1>1 DEF Insert
  <2>2. running = "none" /\ running' = "insert" /\ UNCHANGED capacity
    BY <1>1 DEF Insert
  <2> QED
    BY <2>1, <2>2, InsertUncachedInv, InsertNewInv, InsertOverInv
<1>2. ASSUME NEW k \in Keys, Lookup(k) PROVE IInv'
  BY <1>2, LookupInv
<1>3. ASSUME NEW k \in Keys, Erase(k) PROVE IInv'
  BY <1>3, DropInv DEF Erase, Destroyed
<1>4. ASSUME NEW h \in Handles, Release(h) PROVE IInv'
  BY <1>4, ReleaseInv
<1>5. CASE EvictOne \/ PruneOne
  <2>1. ~Destroyed /\ DropOldest /\ UNCHANGED <<capacity, held, running>>
    BY <1>5 DEF EvictOne, PruneOne, Destroyed
  <2>2. PICK k \in Keys :
          table[k] # Null /\ FinishErase(table[k]) /\ table' = [table EXCEPT ![k] = Null]
    BY <2>1, OldestIsDropped, NullAssumption DEF DropOldest
  <2> QED
    BY <2>1, <2>2, DropInv
<1>6. CASE InsertReturn \/ PruneCall \/ PruneReturn \/ DestroyCall \/ DestroyReturn
  BY <1>6, RunningInv
<1>7. CASE DestroyOne
  BY <1>7, DestroyOneInv
<1>8. CASE UNCHANGED vars
  BY <1>8 DEF vars, IInv, TypeOK, RefsCounted, ListsPartition, InList, TableExact,
              Destroyed, DestroyOK
<1> QED
  BY <1>1, <1>2, <1>3, <1>4, <1>5, <1>6, <1>7, <1>8 DEF Next, LoopStep

(* IInv holds in every state of every run of the shard.                    *)
LEMMA IInvIsInvariant == Spec => []IInv
  BY InitIInv, StepIInv, PTL DEF Spec

---------------------------------------------------------------------------
(* The theorems.                                                           *)

\* refs is exact: in every history of Insert, Lookup, Release, Erase and Prune
\* a handle is freed when, and only when, neither the cache nor a client has it.
THEOREM ReferencesAreCounted == Spec => []RefsCounted
<1>1. IInv => RefsCounted
  BY DEF IInv
<1> QED
  BY <1>1, IInvIsInvariant, PTL

\* Each cached entry is on exactly one list, the one its references say.
THEOREM ListsPartitionTheCache == Spec => []ListsPartition
<1>1. IInv => ListsPartition
  BY DEF IInv
<1> QED
  BY <1>1, IInvIsInvariant, PTL

\* The table and the lists agree: a lookup returns the current entry of a key.
THEOREM TableIsExact == Spec => []TableExact
<1>1. IInv => TableExact
  BY DEF IInv
<1> QED
  BY <1>1, IInvIsInvariant, PTL

\* The destructor frees all that no client holds.
THEOREM DestructorFreesAll == Spec => []NothingLeaks
<1>1. IInv => NothingLeaks
  <2> SUFFICES ASSUME IInv, running = "destroyed", NEW h \in Handles
               PROVE  refs[h] = held[h]
    BY DEF NothingLeaks
  <2>1. lru = << >> /\ in_use = {}
    BY DEF IInv, DestroyOK, Destroyed
  <2>2. ~in_cache[h]
    <3>1. h \notin Elements(lru) /\ h \notin in_use
      BY <2>1 DEF Elements
    <3>2. in_cache[h] => refs[h] # 1 /\ ~(refs[h] >= 2)
      BY <3>1, ListsPartitionAlt DEF IInv
    <3>3. in_cache[h] => refs[h] \in Nat /\ refs[h] >= 1
      BY DEF IInv, RefsCounted, TypeOK
    <3> QED
      BY <3>2, <3>3
  <2> QED
    BY <2>2 DEF IInv, RefsCounted
<1> QED
  BY <1>1, IInvIsInvariant, PTL

\* No loop evicts what a client holds.
THEOREM PinnedEntriesStay == Spec => PinnedStays
<1>1. ASSUME IInv, [Next]_vars, running # "none", NEW h \in Handles, held[h] > 0
      PROVE  in_cache'[h] = in_cache[h]
  <2>1. CASE EvictOne \/ PruneOne
    <3>1. ~Destroyed /\ DropOldest
      BY <2>1 DEF EvictOne, PruneOne, Destroyed
    <3>2. Head(lru) # h /\ table[key[Head(lru)]] = Head(lru)
      BY <1>1, <3>1, OldestIsDropped DEF DropOldest
    <3> QED
      BY <1>1, <3>1, <3>2 DEF DropOldest, FinishErase, IInv, TypeOK
  <2>2. CASE DestroyOne
    <3>1. TypeOK /\ RefsCounted /\ ListsPartition /\ lru # << >>
      BY <1>1, <2>2 DEF IInv, DestroyOne
    <3>2. Head(lru) \in Handles /\ Head(lru) \in Elements(lru)
      BY <3>1, ListsPartitionAlt, TailFacts DEF TypeOK
    <3>3. held[Head(lru)] = 0
      BY <3>1, <3>2, ListsPartitionAlt DEF RefsCounted, TypeOK
    <3>4. h # Head(lru)
      BY <1>1, <3>3
    <3> QED
      BY <2>2, <3>1, <3>4 DEF DestroyOne, TypeOK
  <2>3. CASE InsertReturn \/ PruneReturn \/ DestroyReturn
    BY <2>3 DEF InsertReturn, PruneReturn, DestroyReturn, fields
  <2>4. CASE UNCHANGED vars
    BY <2>4 DEF vars
  <2>5. ~(running = "none")
    BY <1>1
  <2> QED
    BY <1>1, <2>1, <2>2, <2>3, <2>4
    DEF Next, LoopStep, Insert, Lookup, Erase, Release, PruneCall, DestroyCall
<1>2. IInv /\ [Next]_vars =>
        [running # "none" =>
           \A h \in Handles : held[h] > 0 => in_cache'[h] = in_cache[h]]_vars
  BY <1>1
<1> QED
  BY <1>2, IInvIsInvariant, PTL DEF Spec, PinnedStays

\* Insert leaves the shard over its capacity only when clients hold all of it.
THEOREM InsertFits == Spec => FitsOrPinned
<1>1. ASSUME IInv, [Next]_vars, running = "insert", running' = "none",
             ~(usage' <= capacity), NEW h \in Handles, in_cache'[h]
      PROVE  held'[h] > 0
  <2>1. InsertReturn
    BY <1>1 DEF vars, Next, LoopStep, Insert, Lookup, Erase, Release, PruneCall,
                DestroyCall, EvictOne, PruneOne, PruneReturn, DestroyOne, DestroyReturn
  <2>2. lru = << >> /\ in_cache[h] /\ held' = held
    BY <1>1, <2>1 DEF InsertReturn, fields
  <2>3. h \notin Elements(lru)
    BY <2>2 DEF Elements
  <2>4. refs[h] # 1
    BY <1>1, <2>2, <2>3, ListsPartitionAlt DEF IInv
  <2> QED
    BY <1>1, <2>2, <2>4 DEF IInv, RefsCounted, TypeOK
<1>2. IInv /\ [Next]_vars =>
        [(running = "insert" /\ running' = "none") =>
           \/ usage' <= capacity
           \/ \A h \in Handles : in_cache'[h] => held'[h] > 0]_vars
  BY <1>1
<1> QED
  BY <1>2, IInvIsInvariant, PTL DEF Spec, FitsOrPinned

---------------------------------------------------------------------------
(* usage_.                                                                 *)

Cached == {h \in Handles : in_cache[h]}

\* usage_ is exact, and the entries it is the sum of are finitely many.
UInv == IInv /\ UsageExact /\ IsFiniteSet(Cached)

(* The sum of charges is the one that DataInduction reasons about.         *)
LEMMA ChargeIsSum ==
    ASSUME NEW S
    PROVE  ChargeOf(S) = SumOf(charge, S)
  BY Zenon DEF ChargeOf, SumOf, Sums, Any

(* UsageExact in terms of that sum.                                        *)
LEMMA UsageAlt == UsageExact <=> (~Destroyed => usage = SumOf(charge, Cached))
  BY ChargeIsSum DEF UsageExact, Cached

(* UsageExact after a step, in terms of that sum.                          *)
LEMMA UsageAltNext ==
    ASSUME ~Destroyed' => usage' = SumOf(charge', Cached')
    PROVE  UsageExact'
<1>1. ChargeOf({h \in Handles : in_cache[h]})' = SumOf(charge', Cached')
  BY Zenon DEF ChargeOf, SumOf, Sums, Any, Cached
<1> QED
  BY <1>1 DEF UsageExact

\* One entry leaves the cache and its charge usage_.
LEMMA UsageDrops ==
    ASSUME UInv, IInv', ~Destroyed, NEW e \in Cached,
           Cached' = Cached \ {e}, \A h \in Cached' : charge'[h] = charge[h],
           usage' = usage - charge[e]
    PROVE  UsageExact' /\ IsFiniteSet(Cached')
<1>1. IsFiniteSet(Cached) /\ usage = SumOf(charge, Cached)
  BY UsageAlt DEF UInv
<1>2. \A h \in Cached : charge[h] \in Nat
  BY DEF UInv, IInv, TypeOK, Cached
<1>3. SumOf(charge, Cached) = charge[e] + SumOf(charge, Cached \ {e})
  BY <1>1, <1>2, SumRemove
<1>4. IsFiniteSet(Cached')
  BY <1>1, FS_Subset
<1>5. SumOf(charge, Cached') = SumOf(charge', Cached')
  BY <1>4, SumDepends
<1>6. SumOf(charge, Cached') \in Nat
  BY <1>2, <1>4, SumIsNat
<1> QED
  BY <1>1, <1>2, <1>3, <1>4, <1>5, <1>6, UsageAltNext

\* One entry enters the cache and its charge usage_.
LEMMA UsageGrows ==
    ASSUME NEW S, IsFiniteSet(S), S \subseteq Handles, NEW e \in Handles,
           NEW c \in Nat, NEW d \in [Handles -> Nat],
           e \notin S, \A h \in S : d[h] = charge[h], d[e] = c
    PROVE  /\ IsFiniteSet(S \cup {e})
           /\ SumOf(d, S \cup {e}) = c + SumOf(charge, S)
<1>1. IsFiniteSet(S \cup {e})
  BY FS_AddElement
<1>2. (S \cup {e}) \ {e} = S
  OBVIOUS
<1>3. \A h \in S \cup {e} : d[h] \in Nat
  OBVIOUS
<1>4. SumOf(d, S \cup {e}) = d[e] + SumOf(d, (S \cup {e}) \ {e})
  BY <1>1, <1>3, SumRemove
<1>5. SumOf(d, S) = SumOf(charge, S)
  BY SumDepends
<1> QED
  BY <1>1, <1>2, <1>4, <1>5

(* The constructor leaves usage_ at 0 with nothing cached.                 *)
LEMMA InitUInv == Init => UInv
<1> SUFFICES ASSUME Init PROVE UInv
  OBVIOUS
<1>1. Cached = {}
  BY DEF Init, Cached
<1>2. IsFiniteSet(Cached)
  BY <1>1, FS_EmptySet
<1>3. SumOf(charge, Cached) = 0
  BY <1>1, <1>2, SumRecursion
<1>4. UsageExact
  BY <1>3, UsageAlt DEF Init
<1> QED
  BY <1>2, <1>4, InitIInv DEF UInv

\* What Erase and the loops of Insert and Prune do.
LEMMA DropUsage ==
    ASSUME UInv, IInv', ~Destroyed, NEW k \in Keys, table[k] # Null,
           FinishErase(table[k])
    PROVE  UsageExact' /\ IsFiniteSet(Cached')
<1>1. IInv /\ TypeOK /\ TableExact /\ TypeOK' /\ RefsCounted'
  BY DEF UInv, IInv
<1>2. PICK e \in Handles : e = table[k]
  BY <1>1 DEF TypeOK
<1>3. in_cache[e]
  BY <1>1, <1>2 DEF TableExact
<1>4. in_cache' = [in_cache EXCEPT ![e] = FALSE] /\ usage' = usage - charge[e]
  BY <1>2 DEF FinishErase
<1>5. ~in_cache'[e] /\ \A h \in Handles \ {e} : in_cache'[h] <=> in_cache[h]
  BY <1>1, <1>4 DEF TypeOK
<1>6. e \in Cached /\ Cached' = Cached \ {e}
  BY <1>3, <1>5 DEF Cached
<1>7. \A h \in Cached' : charge'[h] = charge[h]
  <2>1. \A h \in Handles : in_cache'[h] => refs'[h] # 0
    BY <1>1 DEF RefsCounted, TypeOK
  <2>2. \A h \in Handles : charge'[h] = IF refs'[h] = 0 THEN 0 ELSE charge[h]
    BY DEF FinishErase, Deallocate
  <2> QED
    BY <2>1, <2>2 DEF Cached
<1> QED
  BY <1>4, <1>6, <1>7, UsageDrops

\* Insert, whichever of its three cases it is.
LEMMA InsertUsage ==
    ASSUME UInv, IInv', NEW e \in Handles, refs[e] = 0, NEW k \in Keys, NEW c \in Charges,
           running = "none", running' = "insert",
           InsertUncached(e, k, c) \/ InsertNew(e, k, c) \/ InsertOver(e, k, c)
    PROVE  UsageExact' /\ IsFiniteSet(Cached')
<1>1. IInv /\ TypeOK /\ TableExact /\ TypeOK' /\ RefsCounted'
  BY DEF UInv, IInv
<1>2. ~in_cache[e]
  BY <1>1, FreeHandle
<1>3. c \in Nat /\ charge \in [Handles -> Nat] /\ charge' \in [Handles -> Nat]
  BY <1>1, ChargesAssumption DEF TypeOK
<1>4. IsFiniteSet(Cached) /\ usage = SumOf(charge, Cached)
  BY UsageAlt DEF UInv, Destroyed
<1>5. CASE InsertUncached(e, k, c)
  <2>1. Cached' = Cached /\ e \notin Cached /\ usage' = usage
    BY <1>2, <1>5 DEF InsertUncached, Cached
  <2>2. \A h \in Cached : charge'[h] = charge[h]
    BY <1>3, <1>5, <2>1 DEF InsertUncached, Cached
  <2>3. SumOf(charge, Cached) = SumOf(charge', Cached)
    BY <1>4, <2>2, SumDepends
  <2> QED
    BY <1>4, <2>1, <2>3, UsageAltNext
<1>6. CASE InsertNew(e, k, c)
  <2>1. Cached' = Cached \cup {e} /\ e \notin Cached /\ usage' = usage + c
    BY <1>1, <1>2, <1>6 DEF InsertNew, Cached, TypeOK
  <2>2. charge'[e] = c /\ \A h \in Cached : charge'[h] = charge[h]
    BY <1>3, <1>6, <2>1 DEF InsertNew, Cached
  <2>3. IsFiniteSet(Cached') /\ SumOf(charge', Cached') = c + SumOf(charge, Cached)
    <3>1. Cached \subseteq Handles
      BY DEF Cached
    <3> QED
      BY <1>3, <1>4, <2>1, <2>2, <3>1, UsageGrows
  <2>4. SumOf(charge, Cached) \in Nat
    BY <1>3, <1>4, SumIsNat DEF Cached
  <2> QED
    BY <1>3, <1>4, <2>1, <2>3, <2>4, UsageAltNext
<1>7. CASE InsertOver(e, k, c)
  <2> DEFINE old == table[k]
             rest == Cached \ {old}
  <2>1. old \in Handles /\ in_cache[old] /\ old # e
    BY <1>1, <1>2, <1>7 DEF InsertOver, TypeOK, TableExact, Destroyed
  <2>2. /\ in_cache' = [in_cache EXCEPT ![e] = TRUE, ![old] = FALSE]
        /\ charge' = [h \in Handles |-> IF h = e THEN c
                                        ELSE IF refs'[h] = 0 THEN 0 ELSE charge[h]]
        /\ usage' = usage + c - charge[old]
    BY <1>7 DEF InsertOver
  <2> HIDE DEF old
  <2>3. /\ in_cache'[e] /\ ~in_cache'[old]
        /\ \A h \in Handles \ {e, old} : in_cache'[h] <=> in_cache[h]
    BY <1>1, <2>1, <2>2 DEF TypeOK
  <2>4. Cached' = rest \cup {e} /\ e \notin rest /\ old \in Cached
    BY <1>2, <2>1, <2>3 DEF Cached
  <2>5. charge'[e] = c /\ \A h \in rest : charge'[h] = charge[h]
    <3>1. \A h \in Handles : in_cache'[h] => refs'[h] # 0
      BY <1>1 DEF RefsCounted, TypeOK
    <3> QED
      BY <2>2, <2>3, <2>4, <3>1 DEF Cached
  <2>6. IsFiniteSet(rest) /\ rest \subseteq Handles
    BY <1>4, FS_Subset DEF Cached
  <2>7. IsFiniteSet(Cached') /\ SumOf(charge', Cached') = c + SumOf(charge, rest)
    BY <1>3, <2>4, <2>5, <2>6, UsageGrows
  <2>8. SumOf(charge, Cached) = charge[old] + SumOf(charge, rest)
    <3>1. \A h \in Cached : charge[h] \in Nat
      BY <1>3 DEF Cached
    <3> QED
      BY <1>4, <2>4, <3>1, SumRemove
  <2>9. SumOf(charge, rest) \in Nat /\ charge[old] \in Nat
    BY <1>3, <2>1, <2>6, SumIsNat
  <2>10. usage' = SumOf(charge', Cached')
    BY <1>3, <1>4, <2>2, <2>7, <2>8, <2>9
  <2> QED
    BY <2>7, <2>10, UsageAltNext
<1> QED
  BY <1>5, <1>6, <1>7

\* What changes neither usage_ nor the cached entries.
LEMMA SameUsage ==
    ASSUME UInv, UNCHANGED <<usage, in_cache>>, Destroyed => Destroyed',
           \A h \in Cached : charge'[h] = charge[h]
    PROVE  UsageExact' /\ IsFiniteSet(Cached')
<1>1. IsFiniteSet(Cached) /\ (~Destroyed => usage = SumOf(charge, Cached))
  BY UsageAlt DEF UInv
<1>2. Cached' = Cached
  BY DEF Cached
<1>3. SumOf(charge, Cached) = SumOf(charge', Cached)
  BY <1>1, SumDepends
<1> QED
  BY <1>1, <1>2, <1>3, UsageAltNext

(* Every step of the shard keeps usage_ exact.                             *)
LEMMA StepUInv == UInv /\ [Next]_vars => UInv'
<1> SUFFICES ASSUME UInv, [Next]_vars PROVE UsageExact' /\ IsFiniteSet(Cached')
  BY StepIInv DEF UInv
<1>0. IInv /\ IInv'
  BY StepIInv DEF UInv
<1>1. ASSUME NEW k \in Keys, NEW c \in Charges, Insert(k, c)
      PROVE  UsageExact' /\ IsFiniteSet(Cached')
  <2>1. PICK e \in Handles :
          /\ refs[e] = 0
          /\ InsertUncached(e, k, c) \/ InsertNew(e, k, c) \/ InsertOver(e, k, c)
    BY <1>1 DEF Insert
  <2>2. running = "none" /\ running' = "insert"
    BY <1>1 DEF Insert
  <2> QED
    BY <1>0, <2>1, <2>2, InsertUsage
<1>2. ASSUME NEW k \in Keys, Lookup(k) PROVE UsageExact' /\ IsFiniteSet(Cached')
  BY <1>2, SameUsage DEF Lookup, Destroyed
<1>3. ASSUME NEW k \in Keys, Erase(k) PROVE UsageExact' /\ IsFiniteSet(Cached')
  BY <1>0, <1>3, DropUsage DEF Erase, Destroyed
<1>4. ASSUME NEW h \in Handles, Release(h) PROVE UsageExact' /\ IsFiniteSet(Cached')
  <2>1. UNCHANGED <<usage, in_cache, running>>
    BY <1>4 DEF Release
  <2>2. \A j \in Handles : in_cache'[j] => refs'[j] # 0
    BY <1>0 DEF IInv, RefsCounted, TypeOK
  <2>3. \A j \in Cached : charge'[j] = charge[j]
    BY <1>4, <2>1, <2>2 DEF Release, Deallocate, Cached
  <2> QED
    BY <2>1, <2>3, SameUsage DEF Destroyed
<1>5. CASE EvictOne \/ PruneOne
  <2>1. ~Destroyed /\ DropOldest
    BY <1>5 DEF EvictOne, PruneOne, Destroyed
  <2>2. PICK k \in Keys : table[k] # Null /\ FinishErase(table[k])
    BY <1>0, <2>1, OldestIsDropped, NullAssumption DEF DropOldest
  <2> QED
    BY <1>0, <2>1, <2>2, DropUsage
<1>6. CASE InsertReturn \/ PruneCall \/ PruneReturn \/ DestroyCall \/ DestroyReturn
  <2>1. UNCHANGED <<usage, charge, in_cache>> /\ (Destroyed => Destroyed')
    BY <1>6 DEF InsertReturn, PruneCall, PruneReturn, DestroyCall, DestroyReturn,
                fields, Destroyed
  <2> QED
    BY <2>1, SameUsage
<1>7. CASE DestroyOne
  <2>1. Destroyed' /\ in_cache' = [in_cache EXCEPT ![Head(lru)] = FALSE]
    BY <1>7 DEF DestroyOne, Destroyed
  <2>2. Cached' \subseteq Cached
    BY <1>0, <2>1 DEF Cached, IInv, TypeOK
  <2> QED
    BY <2>1, <2>2, FS_Subset DEF UInv, UsageExact
<1>8. CASE UNCHANGED vars
  BY <1>8, SameUsage DEF vars, Destroyed
<1> QED
  BY <1>1, <1>2, <1>3, <1>4, <1>5, <1>6, <1>7, <1>8 DEF Next, LoopStep

\* usage_, which eviction compares with the capacity and TotalCharge reports, is
\* the sum of the charges of the entries in the cache after every history of
\* inserts, replacements, erasures, evictions and prunings.
THEOREM UsageIsExact == Spec => []UsageExact
<1>1. UInv => UsageExact
  BY DEF UInv
<1> QED
  BY <1>1, InitUInv, StepUInv, PTL DEF Spec


---------------------------------------------------------------------------
(* The hash table: sequences of handles.                                   *)

LEMMA ElementsIn ==
    ASSUME NEW S, NEW s \in Seq(S)
    PROVE  Elements(s) \subseteq S
  BY DEF Elements

(* Two chains without an entry in common are concatenated to a chain of    *)
(* the entries of both.                                                    *)
LEMMA ConcatFacts ==
    ASSUME NEW S, NEW s \in Seq(S), NEW t \in Seq(S), Distinct(s), Distinct(t),
           Elements(s) \cap Elements(t) = {}
    PROVE  /\ s \o t \in Seq(S)
           /\ Distinct(s \o t)
           /\ Elements(s \o t) = Elements(s) \cup Elements(t)
<1> DEFINE u == s \o t
           m == Len(s)
           n == Len(t)
<1>1. /\ u \in Seq(S) /\ m \in Nat /\ n \in Nat /\ Len(u) = m + n
      /\ \A i \in 1 .. m + n : u[i] = IF i <= m THEN s[i] ELSE t[i - m]
  BY ConcatProperties
<1>2. \A i \in 1 .. m + n : (i <= m => i \in 1 .. m) /\ (~(i <= m) => i - m \in 1 .. n)
  BY <1>1
<1>3. \A i \in 1 .. m : s[i] \in Elements(s)
  BY DEF Elements
<1>4. \A i \in 1 .. n : t[i] \in Elements(t)
  BY DEF Elements
<1>9. \A i, j \in 1 .. m : s[i] = s[j] => i = j
  BY DEF Distinct
<1>10. \A i, j \in 1 .. n : t[i] = t[j] => i = j
  BY DEF Distinct
<1>11. /\ \A i \in 1 .. m : i \in 1 .. m + n /\ i <= m
       /\ \A i \in 1 .. n : i + m \in 1 .. m + n /\ ~(i + m <= m) /\ i + m - m = i
  BY <1>1
<1>12. Elements(s) = {s[i] : i \in 1 .. m} /\ Elements(t) = {t[i] : i \in 1 .. n}
  BY DEF Elements
<1> HIDE DEF u, m, n
<1>5. ASSUME NEW i \in 1 .. m + n, NEW j \in 1 .. m + n, u[i] = u[j] PROVE i = j
  <2>1. CASE i <= m /\ j <= m
    BY <1>1, <1>2, <1>5, <1>9, <2>1
  <2>2. CASE ~(i <= m) /\ ~(j <= m)
    <3>1. i - m = j - m
      BY <1>1, <1>2, <1>5, <1>10, <2>2
    <3> QED
      BY <1>1, <3>1
  <2>3. CASE i <= m /\ ~(j <= m)
    <3>1. u[i] \in Elements(s) /\ u[j] \in Elements(t)
      BY <1>1, <1>2, <1>3, <1>4, <2>3
    <3> QED
      BY <1>5, <3>1
  <2>4. CASE ~(i <= m) /\ j <= m
    <3>1. u[j] \in Elements(s) /\ u[i] \in Elements(t)
      BY <1>1, <1>2, <1>3, <1>4, <2>4
    <3> QED
      BY <1>5, <3>1
  <2> QED
    BY <2>1, <2>2, <2>3, <2>4
<1>6. Distinct(u)
  BY <1>1, <1>5 DEF Distinct
<1>7. ASSUME NEW h \in Elements(u) PROVE h \in Elements(s) \cup Elements(t)
  <2>1. PICK i \in 1 .. m + n : h = u[i]
    BY <1>1, <1>7 DEF Elements
  <2> QED
    BY <1>1, <1>2, <1>3, <1>4, <2>1
<1>8. ASSUME NEW h \in Elements(s) \cup Elements(t) PROVE h \in Elements(u)
  <2>1. CASE h \in Elements(s)
    <3>1. PICK i \in 1 .. m : h = s[i]
      BY <1>12, <2>1
    <3>2. i \in 1 .. m + n /\ u[i] = h
      BY <1>1, <1>11, <3>1
    <3> QED
      BY <1>1, <3>2 DEF Elements
  <2>2. CASE h \in Elements(t)
    <3>1. PICK i \in 1 .. n : h = t[i]
      BY <1>12, <2>2
    <3>2. i + m \in 1 .. m + n /\ u[i + m] = h
      BY <1>1, <1>11, <3>1
    <3> QED
      BY <1>1, <3>2 DEF Elements
  <2> QED
    BY <2>1, <2>2
<1> QED
  BY <1>1, <1>6, <1>7, <1>8 DEF u

(* A chain of one entry.                                                   *)
LEMMA SingleFacts ==
    ASSUME NEW S, NEW h \in S
    PROVE  << h >> \in Seq(S) /\ Distinct(<< h >>) /\ Elements(<< h >>) = {h}
  BY DEF Distinct, Elements

(* The chain of an empty bucket.                                           *)
LEMMA EmptyFacts == \A S : << >> \in Seq(S) /\ Distinct(<< >>) /\ Elements(<< >>) = {}
  BY DEF Distinct, Elements

\* A handle takes the place of another.
LEMMA ReplaceFacts ==
    ASSUME NEW S, NEW s \in Seq(S), Distinct(s), NEW i \in 1 .. Len(s), NEW e \in S,
           e \notin Elements(s)
    PROVE  /\ [s EXCEPT ![i] = e] \in Seq(S)
           /\ Distinct([s EXCEPT ![i] = e])
           /\ Elements([s EXCEPT ![i] = e]) = (Elements(s) \ {s[i]}) \cup {e}
<1> DEFINE r == [s EXCEPT ![i] = e]
<1>1. r \in Seq(S) /\ Len(r) = Len(s) /\ \A j \in 1 .. Len(s) : r[j] = IF j = i THEN e ELSE s[j]
  BY ExceptSeq, LenProperties
<1>2. \A j \in 1 .. Len(s) : s[j] # e
  BY DEF Elements
<1> HIDE DEF r
<1>3. Distinct(r)
  BY <1>1, <1>2 DEF Distinct
<1>4. ASSUME NEW h \in Elements(r) PROVE h \in (Elements(s) \ {s[i]}) \cup {e}
  <2>1. PICK j \in 1 .. Len(s) : h = r[j]
    BY <1>1 DEF Elements
  <2> QED
    BY <1>1, <2>1 DEF Elements, Distinct
<1>5. ASSUME NEW h \in (Elements(s) \ {s[i]}) \cup {e} PROVE h \in Elements(r)
  <2>1. CASE h = e
    BY <1>1, <2>1 DEF Elements
  <2>2. CASE h \in Elements(s) \ {s[i]}
    <3>1. PICK j \in 1 .. Len(s) : h = s[j] /\ j # i
      BY <2>2 DEF Elements
    <3> QED
      BY <1>1, <3>1 DEF Elements
  <2> QED
    BY <2>1, <2>2
<1> QED
  BY <1>1, <1>3, <1>4, <1>5 DEF r

\* A handle is unlinked.
LEMMA UnlinkFacts ==
    ASSUME NEW S, NEW s \in Seq(S), Distinct(s), NEW i \in 1 .. Len(s)
    PROVE  /\ HT!SX!RemoveAt(s, i) \in Seq(S)
           /\ Distinct(HT!SX!RemoveAt(s, i))
           /\ Elements(HT!SX!RemoveAt(s, i)) = Elements(s) \ {s[i]}
<1> DEFINE a == SubSeq(s, 1, i - 1)
           b == SubSeq(s, i + 1, Len(s))
           n == Len(s)
<1>1. n \in Nat /\ i \in Nat /\ i >= 1 /\ i <= n /\ \A j \in 1 .. n : s[j] \in S
  BY ElementOfSeq
<1>2. /\ a \in Seq(S) /\ Len(a) = i - 1 /\ \A j \in 1 .. i - 1 : a[j] = s[j]
  <2>1. \A j \in 1 .. i - 1 : s[j] \in S
    BY <1>1
  <2> QED
    BY <1>1, <2>1, SubSeqProperties
<1>3. /\ b \in Seq(S) /\ Len(b) = n - i /\ \A j \in 1 .. n - i : b[j] = s[i + j]
  <2>1. \A j \in i + 1 .. n : s[j] \in S
    BY <1>1
  <2> QED
    BY <1>1, <2>1, SubSeqProperties
<1>4. HT!SX!RemoveAt(s, i) = a \o b
  BY DEF HT!SX!RemoveAt
<1>5. \A j, k \in 1 .. n : s[j] = s[k] => j = k
  BY DEF Distinct
<1>6. Elements(s) = {s[j] : j \in 1 .. n}
  BY DEF Elements
<1> HIDE DEF a, b, n
<1>7. Distinct(a) /\ Distinct(b)
  <2>1. ASSUME NEW j \in 1 .. i - 1, NEW k \in 1 .. i - 1, a[j] = a[k] PROVE j = k
    <3>1. j \in 1 .. n /\ k \in 1 .. n /\ s[j] = s[k]
      BY <1>1, <1>2, <2>1
    <3> QED
      BY <1>5, <3>1
  <2>2. ASSUME NEW j \in 1 .. n - i, NEW k \in 1 .. n - i, b[j] = b[k] PROVE j = k
    <3>1. i + j \in 1 .. n /\ i + k \in 1 .. n /\ s[i + j] = s[i + k]
      BY <1>1, <1>3, <2>2
    <3>2. i + j = i + k
      BY <1>5, <3>1
    <3> QED
      BY <1>1, <3>2
  <2> QED
    BY <1>2, <1>3, <2>1, <2>2 DEF Distinct
<1>8. ASSUME NEW h PROVE h \in Elements(a) <=> \E j \in 1 .. n : j < i /\ h = s[j]
  <2>1. h \in Elements(a) <=> \E j \in 1 .. i - 1 : h = s[j]
    BY <1>2 DEF Elements
  <2> QED
    BY <1>1, <2>1
<1>9. ASSUME NEW h PROVE h \in Elements(b) <=> \E j \in 1 .. n : j > i /\ h = s[j]
  <2>1. h \in Elements(b) <=> \E j \in 1 .. n - i : h = s[i + j]
    BY <1>3 DEF Elements
  <2>2. ASSUME NEW j \in 1 .. n - i, h = s[i + j] PROVE \E k \in 1 .. n : k > i /\ h = s[k]
    <3>1. i + j \in 1 .. n /\ i + j > i
      BY <1>1
    <3> QED
      BY <2>2, <3>1
  <2>3. ASSUME NEW k \in 1 .. n, k > i, h = s[k] PROVE \E j \in 1 .. n - i : h = s[i + j]
    <3>1. k - i \in 1 .. n - i /\ i + (k - i) = k
      BY <1>1, <2>3
    <3> QED
      BY <2>3, <3>1
  <2> QED
    BY <2>1, <2>2, <2>3
<1>10. Elements(a) \cap Elements(b) = {}
  <2> SUFFICES ASSUME NEW h \in Elements(a), h \in Elements(b) PROVE FALSE
    OBVIOUS
  <2>1. PICK j \in 1 .. n : j < i /\ h = s[j]
    BY <1>8
  <2>2. PICK k \in 1 .. n : k > i /\ h = s[k]
    BY <1>9
  <2>3. j = k
    BY <1>5, <2>1, <2>2
  <2> QED
    BY <1>1, <2>1, <2>2, <2>3
<1>11. Elements(a) \cup Elements(b) = Elements(s) \ {s[i]}
  <2>1. ASSUME NEW h \in Elements(a) \cup Elements(b) PROVE h \in Elements(s) \ {s[i]}
    <3>1. PICK j \in 1 .. n : j # i /\ h = s[j]
      BY <1>1, <1>8, <1>9
    <3> QED
      BY <1>1, <1>5, <1>6, <3>1
  <2>2. ASSUME NEW h \in Elements(s) \ {s[i]} PROVE h \in Elements(a) \cup Elements(b)
    <3>1. PICK j \in 1 .. n : h = s[j]
      BY <1>6
    <3>2. j < i \/ j > i
      BY <1>1, <3>1
    <3> QED
      BY <1>8, <1>9, <3>1, <3>2
  <2> QED
    BY <2>1, <2>2
<1> QED
  BY <1>2, <1>3, <1>4, <1>7, <1>10, <1>11, ConcatFacts

---------------------------------------------------------------------------
(* The hash table: growing.                                                *)

\* The doubling loop ends with room for all.
LEMMA NewLengthFacts ==
    ASSUME NEW n \in Nat
    PROVE  HT!NewLength(n) \in Nat /\ HT!NewLength(n) >= n /\ HT!NewLength(n) >= 1
<1> DEFINE Is(f) == f = [i \in 0 .. n |-> IF i = 0 THEN MinLength ELSE 2 * f[i - 1]]
           d == CHOOSE f : Is(f)
           T == {m \in {d[i] : i \in 0 .. n} : m >= n}
<1>1. \E f : Is(f)
  <2> DEFINE F == [p \in (1 .. n) \X Nat |-> 2 * p[2]]
  <2>1. F \in [(1 .. n) \X Nat -> Nat]
    OBVIOUS
  <2>2. MinLength \in Nat
    BY CacheLengthAssumption
  <2>f. \A i \in 1 .. n, v \in Nat : F[<<i, v>>] = 2 * v
    OBVIOUS
  <2> HIDE DEF F
  <2>r. PICK g \in [0 .. n -> Nat] : Recurs(g, n, MinLength, F)
    BY <2>1, <2>2, SegmentRecursion
  <2>3. g[0] = MinLength /\ \A i \in 1 .. n : g[i] = F[<<i, g[i - 1]>>]
    BY <2>r DEF Recurs
  <2>4. \A i \in 1 .. n : i - 1 \in 0 .. n /\ g[i] = 2 * g[i - 1]
    <3> TAKE i \in 1 .. n
    <3>1. i - 1 \in 0 .. n /\ g[i] = F[<<i, g[i - 1]>>]
      BY <2>3
    <3>2. g[i - 1] \in Nat
      BY <3>1
    <3> QED
      BY <2>f, <3>1, <3>2
  <2>5. Is(g)
    BY <2>3, <2>4
  <2> QED
    BY <2>5
<1>2. Is(d)
  BY <1>1, Zenon
<1>3. HT!NewLength(n) = HT!SX!Min(T)
  BY Zenon DEF HT!NewLength
<1> HIDE DEF d
<1>4. /\ d[0] = MinLength
      /\ \A i \in Nat : i + 1 \in 0 .. n => d[i + 1] = 2 * d[i]
  BY <1>2
<1> DEFINE Z == {i \in Nat : i <= n => d[i] \in Nat /\ d[i] >= i + 1}
<1>5. 0 \in Z
  BY <1>4, CacheLengthAssumption
<1>6. ASSUME NEW i \in Nat, i \in Z PROVE i + 1 \in Z
  <2> SUFFICES ASSUME i + 1 <= n PROVE d[i + 1] \in Nat /\ d[i + 1] >= i + 1 + 1
    OBVIOUS
  <2>1. d[i] \in Nat /\ d[i] >= i + 1 /\ d[i + 1] = 2 * d[i]
    BY <1>4, <1>6
  <2> QED
    BY <2>1
<1> HIDE DEF Z
<1>7. Nat \subseteq Z
  BY <1>5, <1>6, SetInduction
<1>8. \A i \in 0 .. n : d[i] \in Nat /\ d[i] >= i + 1
  BY <1>7 DEF Z
<1>9. T \subseteq Nat /\ d[n] \in T
  BY <1>8
<1>10. \A m \in T : m >= n /\ m >= 1
  BY <1>8
<1> HIDE DEF T
<1>11. \E x \in T : \A y \in T : x <= y
  BY <1>9, LeastNat
<1>12. HT!SX!Min(T) \in T
  BY <1>11 DEF HT!SX!Min
<1> QED
  BY <1>3, <1>9, <1>10, <1>12

\* All the chains one after the other.
LEMMA FlattenFacts ==
    ASSUME NEW S, NEW l \in Seq(Seq(S)), Len(l) >= 1,
           \A b \in 1 .. Len(l) : Distinct(l[b]),
           \A a, b \in 1 .. Len(l) : a # b => Elements(l[a]) \cap Elements(l[b]) = {}
    PROVE  /\ HT!SX!FlattenSeq(l) \in Seq(S)
           /\ Distinct(HT!SX!FlattenSeq(l))
           /\ \A h : h \in Elements(HT!SX!FlattenSeq(l))
                     <=> \E b \in 1 .. Len(l) : h \in Elements(l[b])
<1> DEFINE n == Len(l)
           Is(f) == f = [i \in 1 .. n |-> IF i = 1 THEN l[i] ELSE f[i - 1] \o l[i]]
           f == CHOOSE f : Is(f)
<1>1. n \in Nat /\ n >= 1 /\ \A i \in 1 .. n : l[i] \in Seq(S)
  BY ElementOfSeq
<1>2. \E g : Is(g)
  <2> DEFINE F == [p \in (1 .. n) \X Seq(S) |-> p[2] \o l[p[1]]]
  <2> HIDE DEF n
  <2>1. F \in [(1 .. n) \X Seq(S) -> Seq(S)]
    BY <1>1
  <2>2. << >> \in Seq(S)
    OBVIOUS
  <2>f. \A i \in 1 .. n, v \in Seq(S) : F[<<i, v>>] = v \o l[i]
    OBVIOUS
  <2> HIDE DEF F
  <2>r. PICK g \in [0 .. n -> Seq(S)] : Recurs(g, n, << >>, F)
    BY <1>1, <2>1, <2>2, SegmentRecursion
  <2>3. g[0] = << >> /\ \A i \in 1 .. n : g[i] = F[<<i, g[i - 1]>>]
    BY <2>r DEF Recurs
  <2>4. \A i \in 1 .. n : i - 1 \in 0 .. n /\ g[i] = g[i - 1] \o l[i]
    <3> TAKE i \in 1 .. n
    <3>1. i - 1 \in 0 .. n
      BY <1>1
    <3>2. g[i - 1] \in Seq(S)
      BY <2>3, <3>1
    <3> QED
      BY <2>3, <2>f, <3>1, <3>2
  <2>5. g[1] = l[1]
    <3>1. 1 \in 1 .. n /\ l[1] \in Seq(S)
      BY <1>1
    <3>2. g[1] = g[1 - 1] \o l[1]
      BY <2>4, <3>1
    <3>0. 1 - 1 = 0
      OBVIOUS
    <3>3. g[1] = << >> \o l[1]
      BY <2>3, <3>0, <3>2, Zenon
    <3> QED
      BY <3>1, <3>3, ConcatEmptySeq
  <2> DEFINE r == [i \in 1 .. n |-> g[i]]
  <2>6. \A i \in 1 .. n : r[i] = IF i = 1 THEN l[i] ELSE r[i - 1] \o l[i]
    <3> TAKE i \in 1 .. n
    <3>1. CASE i = 1
      BY <2>5, <3>1
    <3>2. CASE i # 1
      <4>1. i - 1 \in 1 .. n
        BY <1>1, <3>2
      <4> QED
        BY <2>4, <3>2, <4>1
    <3> QED
      BY <3>1, <3>2
  <2>7. Is(r)
    BY <2>6
  <2> QED
    BY <2>7
<1>3. Is(f)
  BY <1>2, Zenon
<1>4. HT!SX!FlattenSeq(l) = f[n]
  <2>1. Len(l) # 0
    BY <1>1
  <2> QED
    BY <2>1 DEF HT!SX!FlattenSeq
<1>5. \A i \in 1 .. n : f[i] = IF i = 1 THEN l[i] ELSE f[i - 1] \o l[i]
  BY <1>3
<1>6. /\ \A b \in 1 .. n : Distinct(l[b])
      /\ \A a, b \in 1 .. n : a # b => Elements(l[a]) \cap Elements(l[b]) = {}
  OBVIOUS
<1> HIDE DEF f, n
<1> DEFINE Holds(i) == /\ f[i] \in Seq(S) /\ Distinct(f[i])
                       /\ \A h : h \in Elements(f[i]) <=> \E b \in 1 .. i : h \in Elements(l[b])
           Z == {i \in Nat : i + 1 <= n => Holds(i + 1)}
<1>7. 0 \in Z
  <2>1. 1 \in 1 .. n /\ f[1] = l[1]
    BY <1>1, <1>5
  <2>2. \A b : b \in 1 .. 1 <=> b = 1
    OBVIOUS
  <2>3. Holds(1)
    BY <1>1, <1>6, <2>1, <2>2
  <2> QED
    BY <2>3
<1>8. ASSUME NEW i \in Nat, i \in Z PROVE i + 1 \in Z
  <2> SUFFICES ASSUME i + 2 <= n PROVE Holds(i + 2)
    OBVIOUS
  <2> DEFINE a == f[i + 1]
             t == l[i + 2]
  <2>1. Holds(i + 1)
    BY <1>1, <1>8
  <2>2. i + 2 \in 1 .. n /\ i + 1 \in 1 .. n /\ f[i + 2] = a \o t
    <3>1. i + 2 \in 1 .. n /\ i + 1 \in 1 .. n /\ i + 2 # 1 /\ (i + 2) - 1 = i + 1
      BY <1>1
    <3> QED
      BY <1>5, <3>1
  <2>3. t \in Seq(S) /\ Distinct(t)
    BY <1>1, <1>6, <2>2
  <2>4. Elements(a) \cap Elements(t) = {}
    <3> SUFFICES ASSUME NEW h \in Elements(a), h \in Elements(t) PROVE FALSE
      OBVIOUS
    <3>1. PICK b \in 1 .. i + 1 : h \in Elements(l[b])
      BY <2>1
    <3>2. b \in 1 .. n /\ b # i + 2
      <4> HIDE DEF Z, Holds, a, t
      <4> QED
        BY <1>1, <2>2, <3>1
    <3> QED
      BY <1>6, <2>2, <3>1, <3>2
  <2>5. /\ a \o t \in Seq(S) /\ Distinct(a \o t)
        /\ Elements(a \o t) = Elements(a) \cup Elements(t)
    BY <2>1, <2>3, <2>4, ConcatFacts
  <2>6. \A b : b \in 1 .. i + 2 <=> b \in 1 .. i + 1 \/ b = i + 2
    OBVIOUS
  <2>7. \A h : h \in Elements(a) <=> \E b \in 1 .. i + 1 : h \in Elements(l[b])
    BY <2>1
  <2>8. \A h : h \in Elements(a \o t) <=> \E b \in 1 .. i + 2 : h \in Elements(l[b])
    BY <2>5, <2>6, <2>7
  <2> QED
    BY <2>2, <2>5, <2>8
<1> HIDE DEF Z
<1>9. n - 1 \in Z
  <2>1. Nat \subseteq Z
    BY <1>7, <1>8, SetInduction
  <2> QED
    BY <1>1, <2>1
<1>10. (n - 1) + 1 = n /\ n <= n
  BY <1>1
<1> HIDE DEF Holds
<1>11. Holds(n)
  BY <1>9, <1>10 DEF Z
<1> QED
  BY <1>4, <1>11 DEF Holds, n

\* f puts those of the handles hs that are in P at the head of a chain.
Moves(f, hs, P) ==
    /\ f[0] = << >>
    /\ \A i \in 1 .. Len(hs) :
         f[i] = IF hs[i] \in P THEN << hs[i] >> \o f[i - 1] ELSE f[i - 1]

(* Going through a chain and putting the entries of P in front, one after  *)
(* the other, leaves a chain of exactly the entries of P.                  *)
LEMMA MovedFacts ==
    ASSUME NEW S, NEW hs \in Seq(S), Distinct(hs), NEW P, NEW f, Moves(f, hs, P)
    PROVE  /\ f[Len(hs)] \in Seq(S) /\ Distinct(f[Len(hs)])
           /\ Elements(f[Len(hs)]) = Elements(hs) \cap P
<1> DEFINE n == Len(hs)
           Holds(i) == /\ f[i] \in Seq(S) /\ Distinct(f[i])
                       /\ \A h : h \in Elements(f[i]) <=> h \in P /\ \E j \in 1 .. i : h = hs[j]
           Z == {i \in Nat : i <= n => Holds(i)}
<1>1. n \in Nat /\ \A i \in 1 .. n : hs[i] \in S
  BY ElementOfSeq
<1>2. /\ \A i \in 1 .. n :
           f[i] = IF hs[i] \in P THEN << hs[i] >> \o f[i - 1] ELSE f[i - 1]
      /\ \A i, j \in 1 .. n : hs[i] = hs[j] => i = j
      /\ Elements(hs) = {hs[i] : i \in 1 .. n}
      /\ f[0] = << >>
  BY DEF Distinct, Elements, Moves
<1> HIDE DEF n
<1>3. 0 \in Z
  <2>1. \A j : j \notin 1 .. 0
    OBVIOUS
  <2> QED
    BY <1>2, <2>1, EmptyFacts
<1>4. ASSUME NEW i \in Nat, i \in Z PROVE i + 1 \in Z
  <2> SUFFICES ASSUME i + 1 <= n PROVE Holds(i + 1)
    OBVIOUS
  <2> DEFINE h0 == hs[i + 1]
             old == f[i]
  <2>1. Holds(i)
    BY <1>1, <1>4
  <2>2. i + 1 \in 1 .. n /\ h0 \in S /\ (i + 1) - 1 = i
    BY <1>1
  <2>3. f[i + 1] = IF h0 \in P THEN << h0 >> \o old ELSE old
    BY <1>2, <2>2
  <2>4. \A j : j \in 1 .. i + 1 <=> j \in 1 .. i \/ j = i + 1
    OBVIOUS
  <2>5. h0 \notin Elements(old)
    <3>1. \A j \in 1 .. i : j \in 1 .. n /\ j # i + 1
      <4> HIDE DEF Z, Holds
      <4> QED
        BY <1>1, <2>2
    <3>2. \A j \in 1 .. i : hs[j] # h0
      BY <1>2, <2>2, <3>1
    <3> QED
      BY <2>1, <3>2
  <2>6. \A h : h \in Elements(old) <=> h \in P /\ \E j \in 1 .. i : h = hs[j]
    BY <2>1
  <2>7. CASE h0 \in P
    <3>1. << h0 >> \in Seq(S) /\ Distinct(<< h0 >>) /\ Elements(<< h0 >>) = {h0}
      BY <2>2, SingleFacts
    <3>2. old \in Seq(S) /\ Distinct(old) /\ Elements(<< h0 >>) \cap Elements(old) = {}
      BY <2>1, <2>5, <3>1
    <3>3. /\ << h0 >> \o old \in Seq(S) /\ Distinct(<< h0 >> \o old)
          /\ Elements(<< h0 >> \o old) = Elements(<< h0 >>) \cup Elements(old)
      <4> DEFINE one == << h0 >>
      <4>1. one \in Seq(S) /\ Distinct(one) /\ Elements(one) \cap Elements(old) = {}
        BY <3>1, <3>2
      <4> HIDE DEF one, old, h0
      <4>2. /\ one \o old \in Seq(S) /\ Distinct(one \o old)
            /\ Elements(one \o old) = Elements(one) \cup Elements(old)
        BY <3>2, <4>1, ConcatFacts
      <4> QED
        BY <4>2 DEF one
    <3> HIDE DEF old
    <3>4. f[i + 1] = << h0 >> \o old
      BY <2>3, <2>7
    <3>5. \A h : h \in Elements(f[i + 1]) <=> h = h0 \/ h \in Elements(old)
      BY <3>1, <3>3, <3>4
    <3>6. \A h : h \in Elements(f[i + 1]) <=> h \in P /\ \E j \in 1 .. i + 1 : h = hs[j]
      BY <2>4, <2>6, <2>7, <3>5
    <3> QED
      BY <3>3, <3>4, <3>6
  <2>8. CASE h0 \notin P
    <3>1. \A h : h \in Elements(old) <=> h \in P /\ \E j \in 1 .. i + 1 : h = hs[j]
      BY <2>4, <2>6, <2>8
    <3> QED
      BY <2>1, <2>3, <2>8, <3>1
  <2> QED
    BY <2>7, <2>8
<1> HIDE DEF Z
<1>5. n \in Z /\ n <= n
  BY <1>1, <1>3, <1>4, SetInduction
<1> HIDE DEF Holds
<1>6. Holds(n)
  BY <1>5 DEF Z
<1>7. f[n] \in Seq(S) /\ Distinct(f[n]) /\ Elements(f[n]) = Elements(hs) \cap P
  BY <1>2, <1>6 DEF Holds
<1> QED
  BY <1>7 DEF n

(* Resize makes a table of NewLength buckets in which the chain of a       *)
(* bucket has exactly the entries of the old table that hash to it, each   *)
(* of them once.                                                           *)
LEMMA ResizeFacts ==
    ASSUME NEW l \in Seq(Seq(Handles)), Len(l) >= 1,
           \A b \in 1 .. Len(l) : Distinct(l[b]),
           \A a, b \in 1 .. Len(l) : a # b => Elements(l[a]) \cap Elements(l[b]) = {},
           NEW n \in Nat, NEW K
    PROVE  LET r == HT!Resize(l, n, K) IN
           /\ r \in Seq(Seq(Handles)) /\ Len(r) = HT!NewLength(n)
           /\ \A b \in 1 .. Len(r) :
                /\ Distinct(r[b])
                /\ \A h : h \in Elements(r[b]) <=>
                     /\ HT!Bucket(K[h], Len(r)) = b
                     /\ \E a \in 1 .. Len(l) : h \in Elements(l[a])
<1> DEFINE m == HT!NewLength(n)
           hs == HT!SX!FlattenSeq(l)
           Is(b, f) == f = [i \in 0 .. Len(hs) |->
                              IF i = 0 THEN << >>
                              ELSE IF HT!Bucket(K[hs[i]], m) = b
                                   THEN << hs[i] >> \o f[i - 1] ELSE f[i - 1]]
           chain(b) == (CHOOSE f : Is(b, f))[Len(hs)]
           r == HT!Resize(l, n, K)
           In(h) == \E a \in 1 .. Len(l) : h \in Elements(l[a])
<1>1. hs \in Seq(Handles) /\ Distinct(hs) /\ \A h : h \in Elements(hs) <=> In(h)
  BY FlattenFacts
<1>2. m \in Nat /\ m >= 1
  BY NewLengthFacts
<1>3. r = [b \in 1 .. m |-> chain(b)]
  BY Zenon DEF HT!Resize
<1> HIDE DEF r, m, hs, In
<1>4. ASSUME NEW b \in 1 .. m
      PROVE  /\ chain(b) \in Seq(Handles) /\ Distinct(chain(b))
             /\ \A h : h \in Elements(chain(b)) <=> HT!Bucket(K[h], m) = b /\ In(h)
  <2> DEFINE k == Len(hs)
             P == {h \in Handles : HT!Bucket(K[h], m) = b}
             f == CHOOSE f : Is(b, f)
  <2>1. k \in Nat /\ \A i \in 1 .. k : hs[i] \in Handles
    BY <1>1, ElementOfSeq
  <2>2. \E g : Is(b, g)
    <3> DEFINE F == [p \in (1 .. k) \X Seq(Handles) |->
                       IF HT!Bucket(K[hs[p[1]]], m) = b THEN << hs[p[1]] >> \o p[2] ELSE p[2]]
    <3> HIDE DEF k
    <3>1. F \in [(1 .. k) \X Seq(Handles) -> Seq(Handles)]
      <4>1. \A i \in 1 .. k : << hs[i] >> \in Seq(Handles)
        BY <2>1
      <4>2. \A i \in 1 .. k, s \in Seq(Handles) : << hs[i] >> \o s \in Seq(Handles)
        BY <4>1, ConcatProperties
      <4> QED
        BY <4>2
    <3>2. << >> \in Seq(Handles)
      OBVIOUS
    <3>f. \A i \in 1 .. k, v \in Seq(Handles) :
            F[<<i, v>>] = IF HT!Bucket(K[hs[i]], m) = b THEN << hs[i] >> \o v ELSE v
      OBVIOUS
    <3> HIDE DEF F
    <3>r. PICK g \in [0 .. k -> Seq(Handles)] : Recurs(g, k, << >>, F)
      BY <2>1, <3>1, <3>2, SegmentRecursion
    <3>3. g[0] = << >> /\ \A i \in 1 .. k : g[i] = F[<<i, g[i - 1]>>]
      BY <3>r DEF Recurs
    <3>4. \A i \in 1 .. k :
            g[i] = IF HT!Bucket(K[hs[i]], m) = b THEN << hs[i] >> \o g[i - 1] ELSE g[i - 1]
      <4> TAKE i \in 1 .. k
      <4>1. i - 1 \in 0 .. k
        BY <2>1
      <4>2. g[i - 1] \in Seq(Handles)
        BY <3>3, <4>1
      <4>3. g[i] = F[<<i, g[i - 1]>>]
        BY <3>3
      <4> QED
        BY <3>f, <4>2, <4>3
    <3>5. \A i \in 0 .. k : i # 0 => i \in 1 .. k
      BY <2>1
    <3>6. g = [i \in 0 .. k |->
                 IF i = 0 THEN << >>
                 ELSE IF HT!Bucket(K[hs[i]], m) = b THEN << hs[i] >> \o g[i - 1] ELSE g[i - 1]]
      BY <3>3, <3>4, <3>5
    <3>7. Is(b, g)
      BY <3>6 DEF k
    <3> QED
      BY <3>7
  <2>3. Is(b, f)
    BY <2>2, Zenon
  <2>4. chain(b) = f[Len(hs)]
    OBVIOUS
  <2> HIDE DEF f, chain
  <2>5. /\ f[0] = << >>
        /\ \A i \in 1 .. Len(hs) :
             f[i] = IF HT!Bucket(K[hs[i]], m) = b THEN << hs[i] >> \o f[i - 1] ELSE f[i - 1]
    <3>1. 0 \in 0 .. Len(hs) /\ \A i \in 1 .. Len(hs) : i \in 0 .. Len(hs) /\ i # 0
      BY <2>1
    <3> QED
      BY <2>3, <3>1, Zenon
  <2>6. \A i \in 1 .. Len(hs) : hs[i] \in P <=> HT!Bucket(K[hs[i]], m) = b
    BY <2>1
  <2>7. \A i \in 1 .. Len(hs) :
          f[i] = IF hs[i] \in P THEN << hs[i] >> \o f[i - 1] ELSE f[i - 1]
    BY <2>5, <2>6
  <2> HIDE DEF P
  <2>8. /\ f[Len(hs)] \in Seq(Handles) /\ Distinct(f[Len(hs)])
        /\ Elements(f[Len(hs)]) = Elements(hs) \cap P
    <3>1. Moves(f, hs, P)
      BY <2>5, <2>7 DEF Moves
    <3>2. hs \in Seq(Handles) /\ Distinct(hs)
      BY <1>1
    <3> HIDE DEF Is, k
    <3> QED
      BY <3>1, <3>2, MovedFacts
  <2>9. \A h \in Elements(hs) : h \in Handles
    BY <1>1, ElementsIn
  <2> QED
    BY <1>1, <2>4, <2>8, <2>9 DEF P
<1> HIDE DEF chain
<1>5. r \in Seq(Seq(Handles)) /\ Len(r) = m /\ \A b \in 1 .. m : r[b] = chain(b)
  <2>1. \A b \in 1 .. m : chain(b) \in Seq(Handles)
    BY <1>4
  <2>2. r \in [1 .. m -> Seq(Handles)]
    BY <1>3, <2>1
  <2>3. r \in Seq(Seq(Handles)) /\ Len(r) = m
    BY <1>2, <2>2, IsASeq, LenProperties
  <2> QED
    BY <1>3, <2>3
<1>6. \A b \in 1 .. Len(r) :
        /\ Distinct(r[b])
        /\ \A h : h \in Elements(r[b]) <=> HT!Bucket(K[h], Len(r)) = b /\ In(h)
  BY <1>4, <1>5
<1> QED
  BY <1>5, <1>6 DEF r, m, In

---------------------------------------------------------------------------
(* The hash table: its invariant.                                          *)

\* Bucket by bucket, the chains l hold the handles of C, whose keys are K,
\* each once.
Chained(l, C, K) ==
    /\ l \in Seq(Seq(Handles)) /\ Len(l) \in Nat /\ Len(l) >= 1
    /\ \A b \in 1 .. Len(l) :
         /\ l[b] \in Seq(Handles) /\ Distinct(l[b])
         /\ \A h : h \in Elements(l[b]) <=> h \in C /\ HT!Bucket(K[h], Len(l)) = b

TInv ==
    /\ UInv
    /\ ~Destroyed =>
         /\ Chained(list, Cached, key)
         /\ elems = Cardinality(Cached)
         /\ elems <= Len(list)

(* The bucket that the mask of the hash chooses is one of the table.       *)
LEMMA BucketIn ==
    ASSUME NEW k \in Keys, NEW n \in Nat, n >= 1
    PROVE  HT!Bucket(k, n) \in 1 .. n
<1>1. Hash[k] \in Nat
  BY CacheHashAssumption
<1>2. Hash[k] % n \in 0 .. n - 1
  BY <1>1
<1> QED
  BY <1>2 DEF HT!Bucket

\* A change of one chain.
LEMMA ChainedPut ==
    ASSUME NEW l, NEW C, NEW K, Chained(l, C, K), NEW b \in 1 .. Len(l),
           NEW ch \in Seq(Handles), Distinct(ch), NEW D, NEW M,
           \A h : h \in Elements(ch) <=> h \in D /\ HT!Bucket(M[h], Len(l)) = b,
           \A h : ~(h \in C <=> h \in D) => HT!Bucket(M[h], Len(l)) = b /\ HT!Bucket(K[h], Len(l)) = b,
           \A h \in C \cap D : HT!Bucket(K[h], Len(l)) = HT!Bucket(M[h], Len(l))
    PROVE  /\ Chained([l EXCEPT ![b] = ch], D, M)
           /\ Len([l EXCEPT ![b] = ch]) = Len(l)
<1> DEFINE r == [l EXCEPT ![b] = ch]
<1>1. /\ r \in Seq(Seq(Handles)) /\ Len(r) = Len(l)
      /\ \A a \in 1 .. Len(l) : r[a] = IF a = b THEN ch ELSE l[a]
  BY ExceptSeq, LenProperties DEF Chained
<1> HIDE DEF r
<1>2. ASSUME NEW a \in 1 .. Len(l)
      PROVE  /\ r[a] \in Seq(Handles) /\ Distinct(r[a])
             /\ \A h : h \in Elements(r[a]) <=> h \in D /\ HT!Bucket(M[h], Len(l)) = a
  <2>1. CASE a = b
    BY <1>1, <2>1
  <2>2. CASE a # b
    <3>1. /\ r[a] = l[a] /\ l[a] \in Seq(Handles) /\ Distinct(l[a])
          /\ \A h : h \in Elements(l[a]) <=> h \in C /\ HT!Bucket(K[h], Len(l)) = a
      BY <1>1, <2>2 DEF Chained
    <3>2. \A h : h \in C /\ HT!Bucket(K[h], Len(l)) = a <=> h \in D /\ HT!Bucket(M[h], Len(l)) = a
      BY <2>2
    <3> QED
      BY <3>1, <3>2
  <2> QED
    BY <2>1, <2>2
<1>3. Len(r) \in Nat /\ Len(r) >= 1
  BY <1>1 DEF Chained
<1>4. Chained(r, D, M)
  BY <1>1, <1>2, <1>3 DEF Chained
<1> QED
  BY <1>1, <1>4 DEF r

(* Resize keeps the table that of the cached entries, and leaves it long   *)
(* enough for n of them.                                                   *)
LEMMA ChainedResize ==
    ASSUME NEW l, NEW C, NEW K, Chained(l, C, K), NEW n \in Nat,
           \A h \in C : K[h] \in Keys
    PROVE  /\ Chained(HT!Resize(l, n, K), C, K)
           /\ Len(HT!Resize(l, n, K)) >= n
<1> DEFINE r == HT!Resize(l, n, K)
<1>1. \A b \in 1 .. Len(l) : Distinct(l[b])
  BY DEF Chained
<1>2. \A a, b \in 1 .. Len(l) : a # b => Elements(l[a]) \cap Elements(l[b]) = {}
  BY DEF Chained
<1>3. l \in Seq(Seq(Handles)) /\ Len(l) >= 1 /\ Len(l) \in Nat
  BY DEF Chained
<1>4. /\ r \in Seq(Seq(Handles)) /\ Len(r) = HT!NewLength(n)
      /\ \A b \in 1 .. Len(r) :
           /\ Distinct(r[b])
           /\ \A h : h \in Elements(r[b]) <=>
                /\ HT!Bucket(K[h], Len(r)) = b
                /\ \E a \in 1 .. Len(l) : h \in Elements(l[a])
  BY <1>1, <1>2, <1>3, ResizeFacts
<1>5. \A h : h \in C <=> \E a \in 1 .. Len(l) : h \in Elements(l[a])
  <2>1. ASSUME NEW h \in C PROVE \E a \in 1 .. Len(l) : h \in Elements(l[a])
    <3>1. HT!Bucket(K[h], Len(l)) \in 1 .. Len(l)
      BY <1>3, BucketIn
    <3> QED
      BY <3>1 DEF Chained
  <2> QED
    BY <2>1 DEF Chained
<1>6. Len(r) \in Nat /\ Len(r) >= n /\ Len(r) >= 1
  BY <1>4, NewLengthFacts
<1> HIDE DEF r
<1>7. \A b \in 1 .. Len(r) : r[b] \in Seq(Handles)
  BY <1>4, ElementOfSeq
<1>8. Chained(r, C, K)
  BY <1>4, <1>5, <1>6, <1>7 DEF Chained
<1> QED
  BY <1>6, <1>8 DEF r

\* FindPointer stops at the key's one handle.
LEMMA LookupFinds ==
    ASSUME IInv, ~Destroyed, Chained(list, Cached, key), NEW k \in Keys
    PROVE  LET b == HT!Bucket(k, Len(list)) IN
           /\ b \in 1 .. Len(list)
           /\ HT!Lookup(k) = table[k]
           /\ table[k] # Null =>
                /\ HT!FindPointer(k) \in 1 .. Len(list[b])
                /\ list[b][HT!FindPointer(k)] = table[k]
<1> DEFINE b == HT!Bucket(k, Len(list))
           chain == list[b]
           hits == {i \in 1 .. Len(chain) : key[chain[i]] = k}
           p == HT!FindPointer(k)
<1>1. b \in 1 .. Len(list)
  BY BucketIn DEF Chained
<1>2. /\ chain \in Seq(Handles) /\ Distinct(chain)
      /\ \A h : h \in Elements(chain) <=> h \in Cached /\ HT!Bucket(key[h], Len(list)) = b
  BY <1>1 DEF Chained
<1>3. p = IF hits = {} THEN Len(chain) + 1 ELSE HT!SX!Min(hits)
  BY DEF HT!FindPointer
<1>4. HT!Lookup(k) = IF p > Len(chain) THEN Null ELSE chain[p]
  BY DEF HT!Lookup
<1>5. TypeOK /\ TableExact
  BY DEF IInv
<1>6. \A i \in 1 .. Len(chain) : chain[i] \in Elements(chain)
  BY DEF Elements
<1>7. Len(chain) \in Nat
  BY <1>2, LenProperties
<1>8. Elements(chain) = {chain[i] : i \in 1 .. Len(chain)}
  BY DEF Elements
<1> HIDE DEF chain, p, b
<1>9. \A i \in hits : table[k] = chain[i] /\ i \in 1 .. Len(chain)
  <2> TAKE i \in hits
  <2>1. i \in 1 .. Len(chain) /\ chain[i] \in Cached /\ key[chain[i]] = k
    BY <1>2, <1>6
  <2> QED
    BY <1>5, <2>1 DEF TableExact, Cached
<1>10. hits \subseteq Nat
  BY <1>7
<1>11. CASE hits = {}
  <2>1. table[k] = Null
    <3> SUFFICES ASSUME table[k] # Null PROVE FALSE
      OBVIOUS
    <3>1. table[k] \in Cached /\ key[table[k]] = k
      BY <1>5 DEF TableExact, TypeOK, Cached
    <3>2. table[k] \in Elements(chain)
      BY <1>2, <3>1 DEF b
    <3>3. PICK i \in 1 .. Len(chain) : table[k] = chain[i]
      BY <1>8, <3>2
    <3> QED
      BY <1>11, <3>1, <3>3
  <2>2. p > Len(chain)
    BY <1>3, <1>7, <1>11
  <2> QED
    BY <1>1, <1>4, <2>1, <2>2 DEF p, b, chain
<1>12. CASE hits # {}
  <2>1. \E x \in hits : \A y \in hits : x <= y
    BY <1>10, <1>12, LeastNat
  <2>2. p \in hits
    <3> HIDE DEF hits
    <3> QED
      BY <1>3, <1>12, <2>1 DEF HT!SX!Min
  <2>3. p \in 1 .. Len(chain) /\ table[k] = chain[p]
    BY <1>9, <2>2
  <2>4. ~(p > Len(chain))
    BY <1>7, <2>3
  <2> QED
    BY <1>1, <1>4, <2>3, <2>4 DEF p, b, chain
<1> QED
  BY <1>11, <1>12

\* What the steps of the cache do to the cached handles and their keys.
LEMMA CachedKeys ==
    ASSUME IInv, ~Destroyed
    PROVE  \A h \in Cached : h \in Handles /\ key[h] \in Keys /\ table[key[h]] = h
  BY DEF IInv, TableExact, Cached

TableGoal == Chained(list, Cached, key) /\ elems = Cardinality(Cached) /\ elems <= Len(list)

\* Insert of a new key puts its handle at the end of a chain, and the table
\* grows when it has more handles than buckets.
LEMMA InsertNewTable ==
    ASSUME TInv, IInv', running = "none", NEW e \in Handles, refs[e] = 0, NEW k \in Keys,
           NEW c \in Charges, InsertNew(e, k, c), HT!Insert(e, k)
    PROVE  TableGoal'
<1> DEFINE n == Len(list)
           b == HT!Bucket(k, n)
           ch == Append(list[b], e)
           put == [list EXCEPT ![b] = ch]
           K == [key EXCEPT ![e] = k]
<1>1. /\ IInv /\ ~Destroyed /\ TypeOK /\ IsFiniteSet(Cached)
      /\ Chained(list, Cached, key) /\ elems = Cardinality(Cached) /\ elems <= n
  BY DEF TInv, UInv, IInv, Destroyed
<1>2. e \notin Cached /\ Cached' = Cached \cup {e} /\ table[k] = Null /\ key' = K
  <2>1. ~in_cache[e]
    BY <1>1, FreeHandle
  <2> QED
    BY <1>1, <2>1 DEF InsertNew, Cached, TypeOK
<1>3. b \in 1 .. n /\ HT!Lookup(k) = Null
  BY <1>1, <1>2, LookupFinds
<1>4. /\ elems' = elems + 1
      /\ list' = IF elems + 1 > n THEN HT!Resize(put, elems + 1, K) ELSE put
  BY <1>3 DEF HT!Insert
<1>5. /\ list[b] \in Seq(Handles) /\ Distinct(list[b])
      /\ \A h : h \in Elements(list[b]) <=> h \in Cached /\ HT!Bucket(key[h], n) = b
      /\ n \in Nat
  BY <1>1, <1>3 DEF Chained
<1>6. K[e] = k /\ \A h \in Cached : K[h] = key[h] /\ h # e
  BY <1>1, <1>2 DEF TypeOK, Cached
<1>7. ch \in Seq(Handles) /\ Distinct(ch) /\ Elements(ch) = Elements(list[b]) \cup {e}
  BY <1>2, <1>5, AppendFacts
<1>8. /\ IsFiniteSet(Cached') /\ elems' = Cardinality(Cached') /\ elems \in Nat
  BY <1>1, <1>2, <1>4, FS_AddElement, FS_CardinalityType
<1>9. /\ \A h \in Cached : key[h] \in Keys
  BY <1>1, CachedKeys
<1> HIDE DEF K, ch, b
<1>10. \A h : h \in Elements(ch) <=> h \in Cached \cup {e} /\ HT!Bucket(K[h], n) = b
  BY <1>2, <1>5, <1>6, <1>7 DEF b
<1>11. \A h : ~(h \in Cached <=> h \in Cached \cup {e}) => h = e
  OBVIOUS
<1>12. \A h \in Cached : HT!Bucket(key[h], n) = HT!Bucket(K[h], n)
  BY <1>6
<1>13. Chained(put, Cached \cup {e}, K) /\ Len(put) = n
  <2> DEFINE K0 == [key EXCEPT ![e] = k]
  <2>1. Chained(list, Cached, K0)
    <3>1. \A h \in Cached : K0[h] = key[h]
      BY <1>6 DEF K
    <3> HIDE DEF K0
    <3> QED
      BY <1>1, <3>1 DEF Chained
  <2>2. K0 = K
    BY DEF K
  <2> HIDE DEF K0
  <2>3. \A h : ~(h \in Cached <=> h \in Cached \cup {e}) => HT!Bucket(K[h], n) = b
    BY <1>6, <1>11 DEF b
  <2>4. \A h \in Cached \cap (Cached \cup {e}) : HT!Bucket(K[h], n) = HT!Bucket(K[h], n)
    OBVIOUS
  <2>5. Chained(list, Cached, K)
    BY <2>1, <2>2
  <2> QED
    BY <1>3, <1>7, <1>10, <2>3, <2>4, <2>5, ChainedPut
<1> HIDE DEF put
<1>14. CASE elems + 1 > n
  <2>1. list' = HT!Resize(put, elems + 1, K) /\ elems + 1 \in Nat
    BY <1>4, <1>8, <1>14
  <2>2. \A h \in Cached \cup {e} : K[h] \in Keys
    BY <1>6, <1>9
  <2>3. Chained(list', Cached \cup {e}, K) /\ Len(list') >= elems + 1
    BY <1>13, <2>1, <2>2, ChainedResize
  <2>4. Len(list') \in Nat
    BY <2>3 DEF Chained
  <2> QED
    BY <1>2, <1>4, <1>8, <2>3, <2>4 DEF TableGoal, Chained
<1>15. CASE ~(elems + 1 > n)
  <2>1. list' = put /\ elems + 1 <= n
    BY <1>4, <1>5, <1>8, <1>15
  <2> QED
    BY <1>2, <1>4, <1>8, <1>13, <2>1 DEF TableGoal, Chained
<1> QED
  BY <1>14, <1>15

\* Insert over an older entry puts the new handle in its place.
LEMMA InsertOverTable ==
    ASSUME TInv, IInv', running = "none", NEW e \in Handles, refs[e] = 0, NEW k \in Keys,
           NEW c \in Charges, InsertOver(e, k, c), HT!Insert(e, k)
    PROVE  TableGoal'
<1> DEFINE n == Len(list)
           b == HT!Bucket(k, n)
           p == HT!FindPointer(k)
           old == table[k]
           ch == [list[b] EXCEPT ![p] = e]
           put == [list EXCEPT ![b] = ch]
           D == (Cached \ {old}) \cup {e}
<1>1. /\ IInv /\ ~Destroyed /\ TypeOK /\ IsFiniteSet(Cached)
      /\ Chained(list, Cached, key) /\ elems = Cardinality(Cached) /\ elems <= n
  BY DEF TInv, UInv, IInv, Destroyed
<1>2. /\ old # Null /\ old \in Cached /\ e \notin Cached /\ old # e /\ key[old] = k
      /\ old \in Handles
  <2>1. ~in_cache[e]
    BY <1>1, FreeHandle
  <2>2. old # Null /\ old \in Handles
    BY <1>1 DEF InsertOver, TypeOK
  <2>3. in_cache[old] /\ key[old] = k
    BY <1>1, <2>2 DEF IInv, TableExact
  <2> QED
    BY <2>1, <2>2, <2>3 DEF Cached
<1>3. /\ b \in 1 .. n /\ HT!Lookup(k) # Null
      /\ p \in 1 .. Len(list[b]) /\ list[b][p] = old
  BY <1>1, <1>2, LookupFinds
<1>4. elems' = elems /\ list' = put
  BY <1>3 DEF HT!Insert
<1>5. /\ list[b] \in Seq(Handles) /\ Distinct(list[b])
      /\ \A h : h \in Elements(list[b]) <=> h \in Cached /\ HT!Bucket(key[h], n) = b
      /\ n \in Nat
  BY <1>1, <1>3 DEF Chained
<1>6. Cached' = D
  <2>1. in_cache' = [in_cache EXCEPT ![e] = TRUE, ![old] = FALSE]
    BY DEF InsertOver
  <2> HIDE DEF old
  <2>2. /\ in_cache'[e] /\ ~in_cache'[old]
        /\ \A h \in Handles \ {e, old} : in_cache'[h] <=> in_cache[h]
    BY <1>1, <1>2, <2>1 DEF TypeOK
  <2> QED
    BY <1>2, <2>2 DEF Cached
<1>7. key'[e] = k /\ \A h \in Cached \ {old} : key'[h] = key[h] /\ h # e
  <2>1. \A h \in Handles : key'[h] = IF h = e THEN k ELSE IF refs'[h] = 0 THEN NoKey ELSE key[h]
    BY DEF InsertOver
  <2>2. \A h \in Handles : in_cache'[h] => refs'[h] # 0
    BY DEF IInv, RefsCounted, TypeOK
  <2>3. \A h \in Cached \ {old} : h \in Handles /\ in_cache'[h]
    BY <1>6 DEF Cached
  <2> QED
    BY <1>2, <2>1, <2>2, <2>3
<1>8. /\ ch \in Seq(Handles) /\ Distinct(ch)
      /\ Elements(ch) = (Elements(list[b]) \ {old}) \cup {e}
  <2>1. e \notin Elements(list[b])
    BY <1>2, <1>5
  <2> HIDE DEF b, p, old
  <2> QED
    BY <1>3, <1>5, <2>1, ReplaceFacts
<1>9. IsFiniteSet(D) /\ Cardinality(D) = Cardinality(Cached)
  <2>1. /\ IsFiniteSet(Cached \ {old}) /\ Cardinality(Cached \ {old}) = Cardinality(Cached) - 1
        /\ Cardinality(Cached) \in Nat
    BY <1>1, <1>2, FS_RemoveElement, FS_CardinalityType
  <2> DEFINE R == Cached \ {old}
  <2>2. e \notin R
    BY <1>2
  <2> HIDE DEF R
  <2>3. IsFiniteSet(R \cup {e}) /\ Cardinality(R \cup {e}) = Cardinality(R) + 1
    BY <2>1, <2>2, FS_AddElement DEF R
  <2>4. Cardinality(R) = Cardinality(Cached) - 1
    BY <2>1 DEF R
  <2>5. Cardinality(R \cup {e}) = Cardinality(Cached)
    BY <2>1, <2>3, <2>4
  <2> QED
    BY <2>3, <2>5 DEF R
<1> HIDE DEF b, p, old, ch
<1> DEFINE M == key'
           L == [h \in Handles |-> IF h = old THEN k ELSE M[h]]
<1>10. /\ L[old] = k /\ L[e] = k /\ \A h \in Cached : L[h] = key[h]
       /\ \A h \in Cached \ {old} : L[h] = M[h]
       /\ M[e] = k
  <2>1. \A h \in Cached : h \in Handles
    BY DEF Cached
  <2> QED
    BY <1>2, <1>7, <2>1
<1>11. Chained(list, Cached, L)
  <2>1. \A h \in Cached : L[h] = key[h]
    BY <1>10
  <2> HIDE DEF L
  <2> QED
    BY <1>1, <2>1 DEF Chained
<1>12. Chained(put, D, L) /\ Len(put) = n
  <2>1. L[e] = k /\ L[old] = k /\ \A h \in Cached \ {old} : L[h] = key[h]
    BY <1>10
  <2> HIDE DEF L, M
  <2>2. \A h : h \in Elements(ch) <=> h \in D /\ HT!Bucket(L[h], n) = b
    BY <1>2, <1>5, <1>8, <2>1 DEF b
  <2>3. \A h : ~(h \in Cached <=> h \in D) => h = old \/ h = e
    OBVIOUS
  <2>4. \A h : ~(h \in Cached <=> h \in D) => HT!Bucket(L[h], n) = b
    BY <2>1, <2>3 DEF b
  <2> HIDE DEF D
  <2> QED
    BY <1>3, <1>8, <1>11, <2>2, <2>4, ChainedPut
<1>13. Chained(put, D, M)
  <2>1. \A h \in D : L[h] = M[h]
    BY <1>2, <1>10 DEF Cached
  <2> HIDE DEF L, M, D, put
  <2> QED
    BY <1>12, <2>1 DEF Chained
<1> HIDE DEF put, D
<1>14. Chained(list', Cached', key')
  BY <1>4, <1>6, <1>13
<1>15. elems' = Cardinality(Cached') /\ elems' <= Len(list')
  BY <1>1, <1>4, <1>6, <1>9, <1>12
<1> QED
  BY <1>14, <1>15 DEF TableGoal, Chained

\* Erase and the loops of Insert and Prune unlink the handle they drop.
LEMMA RemoveTable ==
    ASSUME TInv, IInv', ~Destroyed, NEW k \in Keys, table[k] # Null, FinishErase(table[k]),
           HT!Remove(k)
    PROVE  TableGoal'
<1> DEFINE n == Len(list)
           b == HT!Bucket(k, n)
           p == HT!FindPointer(k)
           e == table[k]
           ch == HT!SX!RemoveAt(list[b], p)
           put == [list EXCEPT ![b] = ch]
           D == Cached \ {e}
<1>1. /\ IInv /\ TypeOK /\ IsFiniteSet(Cached)
      /\ Chained(list, Cached, key) /\ elems = Cardinality(Cached) /\ elems <= n
  BY DEF TInv, UInv, IInv
<1>2. e \in Handles /\ e \in Cached /\ key[e] = k
  <2>1. e \in Handles
    BY <1>1 DEF TypeOK
  <2> QED
    BY <1>1, <2>1 DEF IInv, TableExact, Cached
<1>3. /\ b \in 1 .. n /\ HT!Lookup(k) # Null
      /\ p \in 1 .. Len(list[b]) /\ list[b][p] = e
  BY <1>1, LookupFinds
<1>4. elems' = elems - 1 /\ list' = put
  BY <1>3 DEF HT!Remove
<1>5. /\ list[b] \in Seq(Handles) /\ Distinct(list[b])
      /\ \A h : h \in Elements(list[b]) <=> h \in Cached /\ HT!Bucket(key[h], n) = b
      /\ n \in Nat
  BY <1>1, <1>3 DEF Chained
<1>6. Cached' = D
  <2>1. in_cache' = [in_cache EXCEPT ![e] = FALSE]
    BY DEF FinishErase
  <2> HIDE DEF e
  <2> QED
    BY <1>1, <1>2, <2>1 DEF Cached, TypeOK
<1>7. \A h \in D : key'[h] = key[h]
  <2>1. \A h \in Handles : key'[h] = IF refs'[h] = 0 THEN NoKey ELSE key[h]
    BY DEF FinishErase, Deallocate
  <2>2. \A h \in Handles : in_cache'[h] => refs'[h] # 0
    BY DEF IInv, RefsCounted, TypeOK
  <2>3. \A h \in D : h \in Handles /\ in_cache'[h]
    BY <1>6 DEF Cached
  <2> QED
    BY <2>1, <2>2, <2>3
<1>8. /\ ch \in Seq(Handles) /\ Distinct(ch)
      /\ Elements(ch) = Elements(list[b]) \ {e}
  <2> HIDE DEF b, p, e
  <2> QED
    BY <1>3, <1>5, UnlinkFacts
<1>9. IsFiniteSet(D) /\ Cardinality(D) = Cardinality(Cached) - 1 /\ Cardinality(Cached) \in Nat
  BY <1>1, <1>2, FS_RemoveElement, FS_CardinalityType
<1> HIDE DEF b, p, e, ch
<1>10. Chained(put, D, key) /\ Len(put) = n
  <2>1. \A h : h \in Elements(ch) <=> h \in D /\ HT!Bucket(key[h], n) = b
    BY <1>5, <1>8
  <2>2. \A h : ~(h \in Cached <=> h \in D) => HT!Bucket(key[h], n) = b
    BY <1>2 DEF b
  <2> HIDE DEF D
  <2> QED
    BY <1>1, <1>3, <1>8, <2>1, <2>2, ChainedPut
<1>11. Chained(put, D, key')
  <2> HIDE DEF D, put
  <2> QED
    BY <1>7, <1>10 DEF Chained
<1> HIDE DEF put, D
<1>12. Chained(list', Cached', key')
  BY <1>4, <1>6, <1>11
<1>13. elems' = Cardinality(Cached') /\ elems' <= Len(list')
  BY <1>1, <1>4, <1>5, <1>6, <1>9, <1>10
<1> QED
  BY <1>12, <1>13 DEF TableGoal, Chained

\* What leaves the table and the cached handles alone.
LEMMA SameTable ==
    ASSUME TInv, ~Destroyed, UNCHANGED <<list, elems>>, Cached' = Cached,
           \A h \in Cached : key'[h] = key[h]
    PROVE  TableGoal'
<1>1. Chained(list, Cached, key) /\ elems = Cardinality(Cached) /\ elems <= Len(list)
  BY DEF TInv
<1>2. Chained(list, Cached, key')
  BY <1>1 DEF Chained
<1>3. Chained(list', Cached', key')
  BY <1>2
<1> QED
  BY <1>1, <1>3 DEF TableGoal, Chained

(* The constructors leave an empty table of four buckets.                  *)
LEMMA InitTInv == CacheInit => TInv
<1> SUFFICES ASSUME CacheInit PROVE TInv
  OBVIOUS
<1>1. UInv
  BY InitUInv DEF CacheInit
<1>2. Cached = {} /\ list = [i \in 1 .. MinLength |-> << >>] /\ elems = 0
  BY DEF CacheInit, Init, HT!Init, Cached
<1>3. MinLength \in Nat /\ MinLength >= 1
  BY CacheLengthAssumption
<1>4. list \in [1 .. MinLength -> Seq(Handles)]
  BY <1>2
<1>5. list \in Seq(Seq(Handles)) /\ Len(list) = MinLength
  BY <1>3, <1>4, IsASeq, LenProperties
<1>6. Chained(list, Cached, key)
  <2>1. ASSUME NEW b \in 1 .. Len(list)
        PROVE  /\ list[b] \in Seq(Handles) /\ Distinct(list[b])
               /\ \A h : h \in Elements(list[b]) <=> h \in Cached /\ HT!Bucket(key[h], Len(list)) = b
    <3>1. list[b] = << >>
      BY <1>2, <1>5
    <3> QED
      BY <1>2, <3>1, EmptyFacts
  <2> QED
    BY <1>3, <1>5, <2>1 DEF Chained
<1>7. Cardinality(Cached) = 0
  BY <1>2, FS_EmptySet
<1> QED
  BY <1>1, <1>2, <1>3, <1>5, <1>6, <1>7 DEF TInv

(* Every step of a shard and its table keeps the invariant.                *)
LEMMA StepTInv == TInv /\ [CacheNext]_cacheVars => TInv'
<1> SUFFICES ASSUME TInv, [CacheNext]_cacheVars PROVE TInv'
  OBVIOUS
<1>1. [Next]_vars
  <2>1. CASE UNCHANGED cacheVars
    BY <2>1 DEF cacheVars
  <2>2. CASE CacheNext
    BY <2>2 DEF CacheNext, CacheInsert, CacheErase, CacheDrop, CacheOther, Next, LoopStep
  <2> QED
    BY <2>1, <2>2
<1>2. UInv /\ UInv' /\ IInv /\ IInv'
  BY <1>1, StepUInv DEF TInv, UInv
<1> SUFFICES ASSUME ~Destroyed' PROVE TableGoal'
  BY <1>2 DEF TInv, TableGoal, Chained
<1>3. ~Destroyed
  BY <1>1 DEF Destroyed, Next, vars, LoopStep, Insert, Lookup, Erase, Release, PruneCall,
              DestroyCall, EvictOne, InsertReturn, PruneOne, PruneReturn, DestroyOne,
              DestroyReturn
<1>4. ASSUME NEW k \in Keys, NEW c \in Charges, CacheInsert(k, c) PROVE TableGoal'
  <2>1. PICK e \in Handles :
          /\ refs[e] = 0
          /\ InsertUncached(e, k, c) \/ InsertNew(e, k, c) \/ InsertOver(e, k, c)
    BY <1>4 DEF CacheInsert, Insert
  <2>2. running = "none"
    BY <1>4 DEF CacheInsert, Insert
  <2>3. table \in [Keys -> Handles \cup {Null}] /\ ~in_cache[e] /\ capacity \in Nat
    BY <1>2, <2>1, FreeHandle DEF IInv, TypeOK
  <2>4. CASE InsertUncached(e, k, c)
    <3>1. UNCHANGED <<list, elems>> /\ Cached' = Cached
      BY <1>4, <2>4 DEF CacheInsert, InsertUncached, Cached
    <3>2. \A h \in Cached : key'[h] = key[h]
      BY <1>2, <2>3, <2>4 DEF InsertUncached, Cached, IInv, TypeOK
    <3> QED
      BY <1>3, <3>1, <3>2, SameTable
  <2>5. CASE InsertNew(e, k, c)
    <3>1. HT!Insert(table'[k], k) /\ table'[k] = e
      BY <1>4, <2>3, <2>5 DEF CacheInsert, InsertNew
    <3>2. HT!Insert(e, k)
      BY <3>1
    <3> QED
      BY <1>2, <2>1, <2>2, <2>5, <3>2, InsertNewTable
  <2>6. CASE InsertOver(e, k, c)
    <3>1. HT!Insert(table'[k], k) /\ table'[k] = e
      BY <1>4, <2>3, <2>6 DEF CacheInsert, InsertOver
    <3>2. HT!Insert(e, k)
      BY <3>1
    <3> QED
      BY <1>2, <2>1, <2>2, <2>6, <3>2, InsertOverTable
  <2> QED
    BY <2>1, <2>4, <2>5, <2>6
<1>5. ASSUME NEW k \in Keys, CacheErase(k) PROVE TableGoal'
  BY <1>2, <1>3, <1>5, RemoveTable DEF CacheErase, Erase
<1>6. CASE CacheDrop
  <2>1. DropOldest /\ HT!Remove(key[Head(lru)]) /\ lru # << >>
    BY <1>6 DEF CacheDrop, EvictOne, PruneOne, DropOldest
  <2>2. /\ key[Head(lru)] \in Keys /\ table[key[Head(lru)]] # Null
        /\ FinishErase(table[key[Head(lru)]])
    BY <1>2, <1>3, <2>1, OldestIsDropped, NullAssumption DEF DropOldest
  <2> QED
    BY <1>2, <1>3, <2>1, <2>2, RemoveTable
<1>7. CASE CacheOther
  <2>1. UNCHANGED <<list, elems>>
    BY <1>7 DEF CacheOther
  <2>2. in_cache' = in_cache /\ \A h \in Cached : key'[h] = key[h]
    <3>1. \A h \in Handles : in_cache'[h] => refs'[h] # 0
      BY <1>2 DEF IInv, RefsCounted, TypeOK
    <3>2. ASSUME NEW h \in Handles, Release(h)
          PROVE  in_cache' = in_cache /\ \A j \in Cached : key'[j] = key[j]
      BY <3>1, <3>2 DEF Release, Deallocate, Cached
    <3>3. ~DestroyOne
      BY <1>3 DEF DestroyOne, Destroyed
    <3> QED
      BY <1>7, <3>2, <3>3
      DEF CacheOther, Lookup, PruneCall, PruneReturn, InsertReturn, DestroyCall,
          DestroyReturn, fields
  <2>3. Cached' = Cached
    BY <2>2 DEF Cached
  <2> QED
    BY <1>3, <2>1, <2>2, <2>3, SameTable
<1>8. CASE UNCHANGED cacheVars
  BY <1>3, <1>8, SameTable DEF cacheVars, vars, Cached
<1> QED
  BY <1>4, <1>5, <1>6, <1>7, <1>8 DEF CacheNext

\* The hash table of every shard is the map that the shard takes it for, after
\* every history of insertions, replacements, removals and growing.
THEOREM TableIsTheMap == CacheSpec => []TableIsMap
<1>1. ASSUME TInv, ~Destroyed
      PROVE  /\ \A k \in Keys : HT!Lookup(k) = table[k]
             /\ \A h \in Handles : Cardinality(Places(h)) = IF in_cache[h] THEN 1 ELSE 0
             /\ elems = Cardinality({h \in Handles : in_cache[h]})
             /\ elems <= Len(list)
  <2>1. IInv /\ Chained(list, Cached, key) /\ elems = Cardinality(Cached) /\ elems <= Len(list)
    BY <1>1 DEF TInv, UInv
  <2>2. \A k \in Keys : HT!Lookup(k) = table[k]
    BY <1>1, <2>1, LookupFinds
  <2>3. ASSUME NEW h \in Handles PROVE Cardinality(Places(h)) = IF in_cache[h] THEN 1 ELSE 0
    <3> DEFINE b == HT!Bucket(key[h], Len(list))
    <3>1. \A a, i : <<a, i>> \in Places(h) <=> a \in 1 .. Len(list) /\ i \in 1 .. Len(list[a]) /\ list[a][i] = h
      BY DEF Places
    <3>2. \A q \in Places(h) : \E a, i : q = <<a, i>>
      BY DEF Places
    <3>3. \A a \in 1 .. Len(list) : \A i \in 1 .. Len(list[a]) : list[a][i] = h => in_cache[h] /\ a = b
      BY <2>1 DEF Chained, Elements, Cached
    <3>4. CASE in_cache[h]
      <4>1. h \in Cached /\ key[h] \in Keys
        BY <1>1, <2>1, <3>4, CachedKeys DEF Cached
      <4>2. b \in 1 .. Len(list)
        BY <2>1, <4>1, BucketIn DEF Chained
      <4>3. h \in Elements(list[b]) /\ Distinct(list[b])
        BY <2>1, <4>1, <4>2 DEF Chained
      <4>4. PICK i \in 1 .. Len(list[b]) : list[b][i] = h
        BY <4>3 DEF Elements
      <4>5. \A j \in 1 .. Len(list[b]) : list[b][j] = h => j = i
        BY <4>3, <4>4 DEF Distinct
      <4> HIDE DEF b
      <4>6. Places(h) = {<<b, i>>}
        BY <3>1, <3>2, <3>3, <4>2, <4>4, <4>5
      <4>7. Cardinality({<<b, i>>}) = 1
        BY FS_Singleton
      <4> QED
        BY <3>4, <4>6, <4>7
    <3>5. CASE ~in_cache[h]
      <4>1. Places(h) = {}
        BY <3>1, <3>2, <3>3, <3>5
      <4> QED
        BY <3>5, <4>1, FS_EmptySet
    <3> QED
      BY <3>4, <3>5
  <2>4. Cached = {h \in Handles : in_cache[h]}
    BY DEF Cached
  <2> QED
    BY <2>1, <2>2, <2>3, <2>4
<1>2. TInv => TableIsMap
  BY <1>1 DEF TableIsMap
<1> QED
  BY <1>2, InitTInv, StepTInv, PTL DEF CacheSpec

---------------------------------------------------------------------------
(* The shards together.                                                    *)

Scan == [method : {"TotalCharge", "Prune"}, s : 0 .. kNumShards, total : Nat,
         least : [ShardNumbers -> Nat], most : [ShardNumbers -> Nat],
         untouched : SUBSET ShardKeys]

\* What a TotalCharge has added up lies between the least and the greatest
\* usages of the shards it has been to.
TotalWithin(c) ==
    c.method = "TotalCharge" =>
      /\ SumOf(c.least, 0 .. c.s - 1) <= c.total
      /\ c.total <= SumOf(c.most, 0 .. c.s - 1)

\* A scan in a state with these entries: its bounds hold of the shards as they
\* are, and what it has seen untouched is still there and, for a Prune, in a
\* shard that it has not been to.
ScanSound(c, entriesNow, pinnedNow) ==
    /\ c \in Scan
    /\ \A s \in ShardNumbers :
         c.least[s] <= SumOf(entriesNow, InShard(s)) /\ SumOf(entriesNow, InShard(s)) <= c.most[s]
    /\ TotalWithin(c)
    /\ \A k \in c.untouched : entriesNow[k] > 0 /\ k \notin pinnedNow
    /\ c.method = "Prune" => \A k \in c.untouched : Shard(KeyHash[k]) >= c.s

ScanInv(c, entriesNow, pinnedNow) == c = NoScan \/ ScanSound(c, entriesNow, pinnedNow)

ShardedInv ==
    /\ entries \in [ShardKeys -> Nat]
    /\ pinned \subseteq ShardKeys
    /\ DOMAIN scans = Scanners
    /\ \A t \in Scanners : ScanInv(scans[t], entries, pinned)

(* The sum of the community modules is the one that DataInduction reasons  *)
(* about.                                                                  *)
LEMMA SumFunctionIsSum ==
    ASSUME NEW f, NEW S
    PROVE  FX!SumFunctionOnSet(f, S) = SumOf(f, S)
  BY Zenon DEF FX!SumFunctionOnSet, FX!FoldFunctionOnSet, FX!MapThenFoldSet, SumOf,
               Sums, Any

(* The usage of a shard is the sum of the charges of its keys, before and  *)
(* after a step.                                                           *)
LEMMA UsageIsSum ==
    ASSUME NEW s
    PROVE  UsageOf(s) = SumOf(entries, InShard(s)) /\ UsageOf(s)' = SumOf(entries', InShard(s))
  BY SumFunctionIsSum DEF UsageOf, ChargesOf, InShard

\* The shards are the numbers below kNumShards, and each key is in one.
LEMMA ShardOfKey ==
    ASSUME NEW k \in ShardKeys
    PROVE  Shard(KeyHash[k]) \in ShardNumbers
<1> DEFINE w == 2^(ShardHashBits - kNumShardBits)
           n == 2^kNumShardBits
<1>1. w \in Nat \ {0} /\ n \in Nat \ {0} /\ 2^ShardHashBits = n * w
  BY PowersAssumption
<1>2. KeyHash[k] \in 0 .. n * w - 1
  <2>1. KeyHash[k] \in 0 .. 2^ShardHashBits - 1
    BY KeyHashAssumption DEF ShardKeys
  <2> QED
    BY <1>1, <2>1
<1> HIDE DEF w, n
<1>3. ASSUME NEW h \in Nat, h < n * w PROVE h \div w \in 0 .. n - 1
  BY <1>1, <1>3, SMTT(30)
<1>4. n * w \in Nat
  BY <1>1
<1>5. KeyHash[k] \div w \in 0 .. n - 1
  BY <1>2, <1>3, <1>4
<1> QED
  BY <1>5 DEF Shard, ShardNumbers, kNumShards, w, n

(* There is at least one shard, and the keys of a shard are finitely many. *)
LEMMA ShardsFinite ==
    /\ kNumShards \in Nat \ {0}
    /\ \A s : IsFiniteSet(InShard(s)) /\ InShard(s) \subseteq ShardKeys
<1>1. IsFiniteSet(ShardKeys)
  BY KeyHashAssumption DEF ShardKeys
<1>2. \A s : InShard(s) \subseteq ShardKeys
  BY DEF InShard
<1> QED
  BY <1>1, <1>2, FS_Subset, PowersAssumption DEF kNumShards

(* The usage of a shard is a natural number.                               *)
LEMMA UsageIsNat ==
    ASSUME NEW e \in [ShardKeys -> Nat], NEW s
    PROVE  SumOf(e, InShard(s)) \in Nat
<1>1. \A k \in InShard(s) : e[k] \in Nat
  BY DEF InShard
<1> QED
  BY <1>1, ShardsFinite, SumIsNat

(* The least and the greatest of two numbers.                              *)
LEMMA MinMax ==
    ASSUME NEW a \in Nat, NEW b \in Nat
    PROVE  /\ FX!Min({a, b}) \in Nat /\ FX!Min({a, b}) <= a /\ FX!Min({a, b}) <= b
           /\ FX!Max({a, b}) \in Nat /\ FX!Max({a, b}) >= a /\ FX!Max({a, b}) >= b
<1>1. /\ FX!Min({a, b}) \in {a, b} /\ FX!Min({a, b}) <= a /\ FX!Min({a, b}) <= b
  BY DEF FX!Min
<1>2. /\ FX!Max({a, b}) \in {a, b} /\ FX!Max({a, b}) >= a /\ FX!Max({a, b}) >= b
  BY DEF FX!Max
<1> QED
  BY <1>1, <1>2

(* The shards that a scan has gone through are finitely many.              *)
LEMMA PrefixFinite ==
    ASSUME NEW c \in Scan
    PROVE  IsFiniteSet(0 .. c.s - 1) /\ 0 .. c.s - 1 \subseteq ShardNumbers
<1>1. c.s \in Nat /\ c.s <= kNumShards /\ kNumShards \in Nat
  BY ShardsFinite DEF Scan
<1>2. 0 \in Int /\ c.s - 1 \in Int
  BY <1>1
<1>3. IsFiniteSet(0 .. c.s - 1)
  BY <1>2, FS_Interval
<1>4. 0 .. c.s - 1 \subseteq ShardNumbers
  BY <1>1 DEF ShardNumbers
<1> QED
  BY <1>3, <1>4

\* A change to the shards while a scan runs.
LEMMA WatchedSound ==
    ASSUME ShardedInv, entries' \in [ShardKeys -> Nat], NEW c \in Scan, TotalWithin(c),
           \A k \in c.untouched : entries[k] > 0,
           c.method = "Prune" =>
             \A k \in c.untouched : entries'[k] = entries[k] /\ k \notin pinned' => Shard(KeyHash[k]) >= c.s
    PROVE  ScanSound(Watched(c), entries', pinned')
<1> DEFINE use == [s \in ShardNumbers |-> SumOf(entries', InShard(s))]
           lo == [s \in ShardNumbers |-> FX!Min({c.least[s], use[s]})]
           hi == [s \in ShardNumbers |-> FX!Max({c.most[s], use[s]})]
           un == {k \in c.untouched : entries'[k] = entries[k] /\ k \notin pinned'}
           w == [c EXCEPT !.least = lo, !.most = hi, !.untouched = un]
<1>0. /\ c.method \in {"TotalCharge", "Prune"} /\ c.s \in 0 .. kNumShards /\ c.total \in Nat
      /\ c.least \in [ShardNumbers -> Nat] /\ c.most \in [ShardNumbers -> Nat]
      /\ c.untouched \subseteq ShardKeys
  BY DEF Scan
<1>1. Watched(c) = w
  <2>1. c.method # "none"
    BY <1>0
  <2>2. \A s \in ShardNumbers : UsageOf(s)' = use[s]
    BY UsageIsSum
  <2>3. /\ lo = [s \in ShardNumbers |-> FX!Min({c.least[s], UsageOf(s)'})]
        /\ hi = [s \in ShardNumbers |-> FX!Max({c.most[s], UsageOf(s)'})]
    BY <2>2
  <2> HIDE DEF lo, hi
  <2> QED
    BY <2>1, <2>3 DEF Watched
<1>2. \A s \in ShardNumbers : use[s] \in Nat
  BY UsageIsNat
<1>3. \A s \in ShardNumbers :
        /\ lo[s] \in Nat /\ lo[s] <= c.least[s] /\ lo[s] <= use[s]
        /\ hi[s] \in Nat /\ hi[s] >= c.most[s] /\ hi[s] >= use[s]
  <2> TAKE s \in ShardNumbers
  <2>1. c.least[s] \in Nat /\ c.most[s] \in Nat /\ use[s] \in Nat
    BY <1>0, <1>2
  <2>2. lo[s] = FX!Min({c.least[s], use[s]}) /\ hi[s] = FX!Max({c.most[s], use[s]})
    OBVIOUS
  <2> HIDE DEF lo, hi, use
  <2> QED
    BY <2>1, <2>2, MinMax
<1>4. lo \in [ShardNumbers -> Nat] /\ hi \in [ShardNumbers -> Nat]
  BY <1>3
<1>5. \A s \in ShardNumbers : use[s] = SumOf(entries', InShard(s))
  OBVIOUS
<1> HIDE DEF use, lo, hi
<1>6. /\ w \in Scan /\ w.method = c.method /\ w.s = c.s /\ w.total = c.total
      /\ w.least = lo /\ w.most = hi /\ w.untouched = un
  BY <1>0, <1>4 DEF Scan
<1>7. TotalWithin(w)
  <2> SUFFICES ASSUME c.method = "TotalCharge"
               PROVE  /\ SumOf(lo, 0 .. c.s - 1) <= c.total
                      /\ c.total <= SumOf(hi, 0 .. c.s - 1)
    BY <1>6 DEF TotalWithin
  <2>1. IsFiniteSet(0 .. c.s - 1) /\ 0 .. c.s - 1 \subseteq ShardNumbers
    BY PrefixFinite
  <2>2. \A s \in 0 .. c.s - 1 :
          /\ lo[s] \in Nat /\ c.least[s] \in Nat /\ lo[s] <= c.least[s]
          /\ hi[s] \in Nat /\ c.most[s] \in Nat /\ c.most[s] <= hi[s]
    BY <1>0, <1>3, <2>1
  <2> DEFINE P == 0 .. c.s - 1
  <2> HIDE DEF P
  <2>3. SumOf(lo, P) <= SumOf(c.least, P) /\ SumOf(c.most, P) <= SumOf(hi, P)
    BY <2>1, <2>2, SumMonotone DEF P
  <2>4. /\ SumOf(lo, P) \in Nat /\ SumOf(c.least, P) \in Nat
        /\ SumOf(hi, P) \in Nat /\ SumOf(c.most, P) \in Nat
    BY <2>1, <2>2, SumIsNat DEF P
  <2>5. SumOf(c.least, P) <= c.total /\ c.total <= SumOf(c.most, P)
    BY DEF TotalWithin, P
  <2>6. SumOf(lo, P) <= c.total /\ c.total <= SumOf(hi, P)
    BY <1>0, <2>3, <2>4, <2>5
  <2> QED
    BY <2>6 DEF P
<1>8. \A k \in un : entries'[k] > 0 /\ k \notin pinned'
  OBVIOUS
<1>9. c.method = "Prune" => \A k \in un : Shard(KeyHash[k]) >= c.s
  OBVIOUS
<1> HIDE DEF w, un
<1> QED
  BY <1>1, <1>3, <1>5, <1>6, <1>7, <1>8, <1>9 DEF ScanSound

\* The methods that lock one shard.
LEMMA OthersInv ==
    ASSUME ShardedInv, entries' \in [ShardKeys -> Nat], pinned' \subseteq ShardKeys, Others
    PROVE  ShardedInv'
<1>1. ASSUME NEW t \in Scanners PROVE ScanInv(scans'[t], entries', pinned')
  <2>1. scans'[t] = Watched(scans[t]) /\ ScanInv(scans[t], entries, pinned)
    BY DEF Others, ShardedInv
  <2>2. CASE scans[t] = NoScan
    BY <2>1, <2>2 DEF Watched, NoScan, ScanInv
  <2>3. CASE ScanSound(scans[t], entries, pinned)
    <3>1. ScanSound(Watched(scans[t]), entries', pinned')
      BY <2>3, WatchedSound DEF ScanSound
    <3> QED
      BY <2>1, <3>1 DEF ScanInv
  <2> QED
    BY <2>1, <2>2, <2>3 DEF ScanInv
<1>2. DOMAIN scans' = Scanners
  BY DEF Others
<1> QED
  BY <1>1, <1>2 DEF ShardedInv

(* No scan has started in an initial state.                                *)
LEMMA ShardedInitInv == ShardedInit => ShardedInv
  BY DEF ShardedInit, ShardedInv, ScanInv

(* A scan starts at shard 0, with nothing counted and nothing observed.    *)
LEMMA ScanCallInv ==
    ASSUME ShardedInv, NEW t \in Scanners, NEW m \in {"TotalCharge", "Prune"},
           ScanCall(t, m)
    PROVE  ShardedInv'
<1> DEFINE use == [s \in ShardNumbers |-> UsageOf(s)]
           un == { k \in ShardKeys \ pinned : entries[k] > 0 }
           c == [method |-> m, s |-> 0, total |-> 0, least |-> use, most |-> use,
                 untouched |-> un]
<1>1. \A s \in ShardNumbers : use[s] = SumOf(entries, InShard(s)) /\ use[s] \in Nat
  BY UsageIsSum, UsageIsNat DEF ShardedInv
<1>2. scans' = [scans EXCEPT ![t] = c] /\ UNCHANGED <<entries, pinned>>
  BY DEF ScanCall
<1>3. use \in [ShardNumbers -> Nat]
  BY <1>1
<1> HIDE DEF use
<1>4. c \in Scan
  BY <1>3, ShardsFinite DEF Scan
<1>5. TotalWithin(c)
  <2>1. 0 .. c.s - 1 = {}
    OBVIOUS
  <2>2. SumOf(use, {}) = 0
    BY SumRecursion, FS_EmptySet
  <2> QED
    BY <2>1, <2>2 DEF TotalWithin
<1>6. \A k \in un : entries[k] > 0 /\ k \notin pinned /\ Shard(KeyHash[k]) >= 0
  BY ShardOfKey DEF ShardNumbers
<1>7. ScanSound(c, entries, pinned)
  BY <1>1, <1>3, <1>4, <1>5, <1>6 DEF ScanSound
<1>8. \A u \in Scanners : ScanInv(scans'[u], entries, pinned)
  BY <1>2, <1>7 DEF ShardedInv, ScanInv
<1> QED
  BY <1>2, <1>8 DEF ShardedInv

(* Adding the usage of one shard keeps the total between the sums of the   *)
(* least and of the greatest usages observed.                              *)
LEMMA TotalChargeInv ==
    ASSUME ShardedInv, NEW t \in Scanners, TotalChargeStep(t)
    PROVE  ShardedInv'
<1> DEFINE c == scans[t]
           u == UsageOf(c.s)
           d == [c EXCEPT !.total = @ + u, !.s = @ + 1]
           P == 0 .. c.s - 1
<1>1. c.method = "TotalCharge" /\ c.s < kNumShards
  BY DEF TotalChargeStep, More
<1>2. ScanSound(c, entries, pinned)
  BY <1>1 DEF ShardedInv, ScanInv, NoScan
<1>3. scans' = [scans EXCEPT ![t] = d] /\ UNCHANGED <<entries, pinned>>
  BY DEF TotalChargeStep, ShardedInv
<1>4. u = SumOf(entries, InShard(c.s)) /\ u \in Nat
  BY UsageIsSum, UsageIsNat DEF ShardedInv
<1>5. /\ c \in Scan /\ c.s \in Nat /\ c.s <= kNumShards /\ c.total \in Nat /\ kNumShards \in Nat
      /\ c.least \in [ShardNumbers -> Nat] /\ c.most \in [ShardNumbers -> Nat]
  BY <1>2, ShardsFinite DEF ScanSound, Scan
<1>6. c.s \in ShardNumbers /\ c.least[c.s] <= u /\ u <= c.most[c.s]
  <2>1. c.s \in ShardNumbers
    BY <1>1, <1>5 DEF ShardNumbers
  <2> QED
    BY <1>2, <1>4, <2>1 DEF ScanSound
<1> HIDE DEF u
<1>7. /\ d \in Scan /\ d.method = c.method /\ d.s = c.s + 1 /\ d.total = c.total + u
      /\ d.least = c.least /\ d.most = c.most /\ d.untouched = c.untouched
  <2>1. c.s + 1 \in 0 .. kNumShards /\ c.total + u \in Nat
    BY <1>1, <1>4, <1>5
  <2> QED
    BY <1>5, <2>1 DEF Scan
<1>8. TotalWithin(d)
  <2>1. IsFiniteSet(P) /\ P \subseteq ShardNumbers
    BY <1>5, PrefixFinite
  <2>2. 0 .. d.s - 1 = P \cup {c.s} /\ c.s \notin P
    BY <1>5, <1>7
  <2>3. IsFiniteSet(P \cup {c.s})
    BY <2>1, FS_AddElement
  <2> HIDE DEF P, c, d
  <2>4. (P \cup {c.s}) \ {c.s} = P
    BY <2>2
  <2>5. \A s \in P \cup {c.s} : c.least[s] \in Nat /\ c.most[s] \in Nat
    BY <1>5, <1>6, <2>1
  <2>6. /\ SumOf(c.least, P \cup {c.s}) = c.least[c.s] + SumOf(c.least, P)
        /\ SumOf(c.most, P \cup {c.s}) = c.most[c.s] + SumOf(c.most, P)
    <3>1. c.s \in P \cup {c.s}
      OBVIOUS
    <3>2. SumOf(c.least, P \cup {c.s}) = c.least[c.s] + SumOf(c.least, (P \cup {c.s}) \ {c.s})
      BY <2>3, <2>5, <3>1, SumRemove
    <3>3. SumOf(c.most, P \cup {c.s}) = c.most[c.s] + SumOf(c.most, (P \cup {c.s}) \ {c.s})
      BY <2>3, <2>5, <3>1, SumRemove
    <3> QED
      BY <2>4, <3>2, <3>3
  <2>7. SumOf(c.least, P) \in Nat /\ SumOf(c.most, P) \in Nat
    BY <2>1, <2>5, SumIsNat
  <2>8. SumOf(c.least, P) <= c.total /\ c.total <= SumOf(c.most, P)
    BY <1>1, <1>2 DEF ScanSound, TotalWithin, P
  <2>9. /\ c.least[c.s] + SumOf(c.least, P) <= c.total + u
        /\ c.total + u <= c.most[c.s] + SumOf(c.most, P)
    BY <1>4, <1>5, <1>6, <2>5, <2>7, <2>8
  <2> QED
    BY <1>7, <2>2, <2>6, <2>9 DEF TotalWithin
<1>9. ScanSound(d, entries, pinned)
  BY <1>1, <1>2, <1>7, <1>8 DEF ScanSound
<1>10. \A v \in Scanners : ScanInv(scans'[v], entries, pinned)
  BY <1>3, <1>9 DEF ShardedInv, ScanInv
<1> QED
  BY <1>3, <1>10 DEF ShardedInv

(* Pruning one shard keeps what the scan has counted and what it has gone  *)
(* through.                                                                *)
LEMMA PruneStepInv ==
    ASSUME ShardedInv, NEW t \in Scanners, PruneStep(t)
    PROVE  ShardedInv'
<1> DEFINE c == scans[t]
           d == [c EXCEPT !.s = @ + 1]
<1>1. c.method = "Prune" /\ c.s < kNumShards
  BY DEF PruneStep, More
<1>2. ScanSound(c, entries, pinned)
  BY <1>1 DEF ShardedInv, ScanInv, NoScan
<1>3. /\ \A k \in ShardKeys :
           entries'[k] = IF k \in InShard(c.s) \ pinned THEN 0 ELSE entries[k]
      /\ entries' \in [ShardKeys -> Nat] /\ pinned' = pinned
      /\ DOMAIN scans' = Scanners /\ scans'[t] = Watched(d)
      /\ \A v \in Scanners \ {t} : scans'[v] = Watched(scans[v])
  BY DEF PruneStep, ShardedInv
<1>4. c \in Scan /\ c.s \in Nat /\ kNumShards \in Nat /\ c.untouched \subseteq ShardKeys
  BY <1>2, ShardsFinite DEF ScanSound, Scan
<1>5. d \in Scan /\ d.method = "Prune" /\ d.untouched = c.untouched /\ d.s = c.s + 1
  <2>1. c.s + 1 \in 0 .. kNumShards
    BY <1>1, <1>4
  <2> QED
    BY <1>1, <1>4, <2>1 DEF Scan
<1>6. \A k \in d.untouched : entries[k] > 0
  BY <1>2, <1>5 DEF ScanSound
<1>7. ASSUME NEW k \in d.untouched, entries'[k] = entries[k], k \notin pinned'
      PROVE  Shard(KeyHash[k]) >= d.s
  <2>1. k \in ShardKeys /\ entries[k] > 0 /\ Shard(KeyHash[k]) >= c.s
    BY <1>1, <1>2, <1>4, <1>5 DEF ScanSound
  <2>2. k \notin InShard(c.s)
    BY <1>3, <1>7, <2>1
  <2>3. Shard(KeyHash[k]) # c.s
    BY <2>1, <2>2 DEF InShard
  <2>4. Shard(KeyHash[k]) \in Nat
    BY <2>1, ShardOfKey DEF ShardNumbers
  <2> QED
    BY <1>4, <1>5, <2>1, <2>3, <2>4
<1>8. TotalWithin(d)
  BY <1>5 DEF TotalWithin
<1> HIDE DEF d
<1>9. ScanSound(Watched(d), entries', pinned')
  BY <1>3, <1>5, <1>6, <1>7, <1>8, WatchedSound
<1>10. ASSUME NEW v \in Scanners \ {t} PROVE ScanInv(scans'[v], entries', pinned')
  <2>1. scans'[v] = Watched(scans[v]) /\ ScanInv(scans[v], entries, pinned)
    BY <1>3 DEF ShardedInv
  <2>2. CASE scans[v] = NoScan
    BY <2>1, <2>2 DEF Watched, NoScan, ScanInv
  <2>3. CASE ScanSound(scans[v], entries, pinned)
    <3>1. ScanSound(Watched(scans[v]), entries', pinned')
      BY <1>3, <2>3, WatchedSound DEF ScanSound
    <3> QED
      BY <2>1, <3>1 DEF ScanInv
  <2> QED
    BY <2>1, <2>2, <2>3 DEF ScanInv
<1>11. \A v \in Scanners : ScanInv(scans'[v], entries', pinned')
  BY <1>3, <1>9, <1>10 DEF ScanInv
<1> QED
  BY <1>3, <1>11 DEF ShardedInv

(* Every step of a client or of a scan keeps the invariant.                *)
LEMMA ShardedStepInv == ShardedInv /\ [ShardedNext]_shardedVars => ShardedInv'
<1> SUFFICES ASSUME ShardedInv, [ShardedNext]_shardedVars PROVE ShardedInv'
  OBVIOUS
<1>1. ASSUME NEW k \in ShardKeys, NEW c \in EntryCharges, InsertEntry(k, c)
      PROVE  ShardedInv'
  <2>1. /\ \E d : entries' = [j \in ShardKeys |-> IF j = k THEN c
                                               ELSE IF j \in d THEN 0 ELSE entries[j]]
        /\ pinned' = pinned \cup {k} /\ Others
    BY <1>1, Zenon DEF InsertEntry
  <2>2. c \in Nat /\ entries \in [ShardKeys -> Nat] /\ pinned \subseteq ShardKeys
    BY EntryChargesAssumption DEF ShardedInv
  <2>3. entries' \in [ShardKeys -> Nat] /\ pinned' \subseteq ShardKeys
    BY <2>1, <2>2
  <2> QED
    BY <2>1, <2>3, OthersInv
<1>2. ASSUME NEW k \in ShardKeys, LookupEntry(k) \/ ReleaseEntry(k) \/ EraseEntry(k)
      PROVE  ShardedInv'
  <2>1. entries' \in [ShardKeys -> Nat] /\ pinned' \subseteq ShardKeys /\ Others
    BY <1>2 DEF LookupEntry, ReleaseEntry, EraseEntry, ShardedInv
  <2> QED
    BY <2>1, OthersInv
<1>3. CASE NewId
  BY <1>3 DEF NewId, ShardedInv
<1>4. ASSUME NEW t \in Scanners, NEW m \in {"TotalCharge", "Prune"}, ScanCall(t, m)
      PROVE  ShardedInv'
  BY <1>4, ScanCallInv
<1>5. ASSUME NEW t \in Scanners, TotalChargeStep(t) \/ PruneStep(t) PROVE ShardedInv'
  BY <1>5, TotalChargeInv, PruneStepInv
<1>6. ASSUME NEW t \in Scanners, ScanReturn(t) PROVE ShardedInv'
  BY <1>6 DEF ScanReturn, ShardedInv, ScanInv
<1>7. CASE UNCHANGED shardedVars
  BY <1>7 DEF shardedVars, ShardedInv
<1> QED
  BY <1>1, <1>2, <1>3, <1>4, <1>5, <1>6, <1>7 DEF ShardedNext

\* However the shards change while it goes through them, TotalCharge's result
\* lies between what they held at least and at most, and Prune leaves nothing
\* that lay unused in the cache all the while.
THEOREM ScansAreSound == ShardedSpec => []ScansSeeAll
<1>1. ASSUME ShardedInv, NEW t \in Scanners, scans[t].method # "none", ~More(scans[t])
      PROVE  /\ scans[t].method = "Prune" => scans[t].untouched = {}
             /\ scans[t].method = "TotalCharge" =>
                  /\ FX!SumFunction(scans[t].least) <= scans[t].total
                  /\ scans[t].total <= FX!SumFunction(scans[t].most)
  <2> DEFINE c == scans[t]
  <2>1. ScanSound(c, entries, pinned)
    BY <1>1 DEF ShardedInv, ScanInv, NoScan
  <2>2. c \in Scan /\ c.s = kNumShards /\ kNumShards \in Nat
    <3>1. c \in Scan
      BY <2>1 DEF ScanSound
    <3>2. c.s \in 0 .. kNumShards /\ ~(c.s < kNumShards)
      BY <1>1, <3>1 DEF Scan, More
    <3> QED
      BY <3>1, <3>2, ShardsFinite
  <2>3. c.method = "Prune" => c.untouched = {}
    <3> SUFFICES ASSUME c.method = "Prune", NEW k \in c.untouched PROVE FALSE
      OBVIOUS
    <3>1. k \in ShardKeys /\ Shard(KeyHash[k]) >= c.s
      BY <2>1, <2>2 DEF ScanSound, Scan
    <3>2. Shard(KeyHash[k]) \in 0 .. kNumShards - 1
      BY <3>1, ShardOfKey DEF ShardNumbers
    <3> QED
      BY <2>2, <3>1, <3>2
  <2>4. /\ DOMAIN c.least = 0 .. c.s - 1 /\ DOMAIN c.most = 0 .. c.s - 1
    BY <2>2 DEF Scan, ShardNumbers
  <2>5. /\ FX!SumFunction(c.least) = SumOf(c.least, 0 .. c.s - 1)
        /\ FX!SumFunction(c.most) = SumOf(c.most, 0 .. c.s - 1)
    BY <2>4, SumFunctionIsSum DEF FX!SumFunction
  <2> QED
    BY <2>1, <2>3, <2>5 DEF ScanSound, TotalWithin
<1>2. ShardedInv => ScansSeeAll
  BY <1>1 DEF ScansSeeAll
<1> QED
  BY <1>2, ShardedInitInv, ShardedStepInv, PTL DEF ShardedSpec
===========================================================================
