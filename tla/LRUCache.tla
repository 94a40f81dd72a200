----------------------------- MODULE LRUCache -----------------------------
(***************************************************************************)
(* One shard of src/src/cache/cache.cpp: the reference-counted LRU cache.  *)
(*                                                                         *)
(* Every method holds mutex_ from beginning to end, so a method is one     *)
(* step; the loops of Insert, Prune and the destructor, which call the     *)
(* user's deleter once per turn, are one step per turn, and while one runs *)
(* (running # "none") no other method does.                                *)
(*                                                                         *)
(* A handle is the address of an LRUHandle; an address whose refs are 0 is *)
(* free memory and may be allocated again.  held[h] is what the clients    *)
(* know: the number of Insert and Lookup results they have not released.   *)
(* lru_ is a sequence, oldest first; in_use_ is never walked, so it is a   *)
(* set.  table_ is modelled as the map that HandleTable implements.        *)
(***************************************************************************)
EXTENDS Integers, Sequences

CONSTANTS
    Handles,     \* addresses of LRUHandles
    Keys,        \* user keys
    Charges,     \* charges a client may give
    Capacities,  \* capacities the shard may be created with
    MaxHeld,     \* bound: results of one handle a client keeps unreleased
    Null,        \* nullptr
    NoKey        \* the key of freed memory

ASSUME NullAssumption == Null \notin Handles
ASSUME NoKeyAssumption == NoKey \notin Keys
ASSUME ChargesAssumption == Charges \subseteq Nat
ASSUME CapacitiesAssumption == Capacities \subseteq Nat
ASSUME MaxHeldAssumption == MaxHeld \in Nat

VARIABLES
    capacity,  \* capacity_
    usage,     \* usage_
    lru,       \* lru_: in the cache and held by no client
    in_use,    \* in_use_: in the cache and held by a client
    table,     \* table_
    key, charge, in_cache, refs,  \* the fields of each LRUHandle
    held,      \* results each handle was returned in and not released
    running    \* the loop that holds the mutex

fields == <<key, charge, in_cache, refs>>
vars == <<capacity, usage, lru, in_use, table, key, charge, in_cache, refs, held, running>>

\* The constructor and SetCapacity.
Init ==
    /\ capacity \in Capacities
    /\ usage = 0
    /\ lru = << >>
    /\ in_use = {}
    /\ table = [k \in Keys |-> Null]
    /\ key = [h \in Handles |-> NoKey]
    /\ charge = [h \in Handles |-> 0]
    /\ in_cache = [h \in Handles |-> FALSE]
    /\ refs = [h \in Handles |-> 0]
    /\ held = [h \in Handles |-> 0]
    /\ running = "none"

---------------------------------------------------------------------------
(* The two lists.                                                          *)

InList(h) == \E i \in 1 .. Len(lru) : lru[i] = h

\* s without its entry e, in the same order.
Without(s, e) ==
    LET i == CHOOSE j \in 1 .. Len(s) : s[j] = e
    IN  [j \in 1 .. Len(s) - 1 |-> s[IF j < i THEN j ELSE j + 1]]

\* LRU_Remove unlinks e from whichever list it is on.
LRU_Remove(e) ==
    /\ lru' = IF InList(e) THEN Without(lru, e) ELSE lru
    /\ in_use' = in_use \ {e}

\* Unref on the last reference calls the deleter and frees the handle: its
\* fields are gone.
Deallocate ==
    /\ key' = [h \in Handles |-> IF refs'[h] = 0 THEN NoKey ELSE key[h]]
    /\ charge' = [h \in Handles |-> IF refs'[h] = 0 THEN 0 ELSE charge[h]]

\* FinishErase(e) for an entry that was just removed from the table.
FinishErase(e) ==
    /\ LRU_Remove(e)
    /\ in_cache' = [in_cache EXCEPT ![e] = FALSE]
    /\ usage' = usage - charge[e]
    /\ refs' = [refs EXCEPT ![e] = @ - 1]
    /\ Deallocate

---------------------------------------------------------------------------
(* The methods.                                                            *)

\* Insert of an entry e that is not cached: the capacity is 0.
InsertUncached(e, k, c) ==
    /\ capacity = 0
    /\ key' = [key EXCEPT ![e] = k]
    /\ charge' = [charge EXCEPT ![e] = c]
    /\ refs' = [refs EXCEPT ![e] = 1]
    /\ UNCHANGED <<usage, lru, in_use, table, in_cache>>

\* Fault: the cache takes no reference of its own.
InsertNewUncounted(e, k, c) ==
    /\ capacity > 0
    /\ table[k] = Null
    /\ key' = [key EXCEPT ![e] = k]
    /\ charge' = [charge EXCEPT ![e] = c]
    /\ in_cache' = [in_cache EXCEPT ![e] = TRUE]
    /\ refs' = [refs EXCEPT ![e] = 1]
    /\ usage' = usage + c
    /\ table' = [table EXCEPT ![k] = e]
    /\ in_use' = in_use \cup {e}
    /\ lru' = lru

\* Insert of e under a key that is not in the table.
InsertNew(e, k, c) ==
    /\ capacity > 0
    /\ table[k] = Null
    /\ key' = [key EXCEPT ![e] = k]
    /\ charge' = [charge EXCEPT ![e] = c]
    /\ in_cache' = [in_cache EXCEPT ![e] = TRUE]
    /\ refs' = [refs EXCEPT ![e] = 2]
    /\ usage' = usage + c
    /\ table' = [table EXCEPT ![k] = e]
    /\ in_use' = in_use \cup {e}
    /\ lru' = lru

\* Fault: the charge of the replaced entry is not taken back.
InsertOverKeepsCharge(e, k, c) ==
    LET old == table[k] IN
    /\ capacity > 0
    /\ old # Null
    /\ in_cache' = [in_cache EXCEPT ![e] = TRUE, ![old] = FALSE]
    /\ refs' = [refs EXCEPT ![e] = 2, ![old] = @ - 1]
    /\ key' = [h \in Handles |-> IF h = e THEN k
                                 ELSE IF refs'[h] = 0 THEN NoKey ELSE key[h]]
    /\ charge' = [h \in Handles |-> IF h = e THEN c
                                    ELSE IF refs'[h] = 0 THEN 0 ELSE charge[h]]
    /\ usage' = usage + c
    /\ table' = [table EXCEPT ![k] = e]
    /\ in_use' = (in_use \ {old}) \cup {e}
    /\ lru' = IF InList(old) THEN Without(lru, old) ELSE lru

\* Insert of e over an older entry of the key, which FinishErase drops: it
\* is freed unless a client still holds it.
InsertOver(e, k, c) ==
    LET old == table[k] IN
    /\ capacity > 0
    /\ old # Null
    /\ in_cache' = [in_cache EXCEPT ![e] = TRUE, ![old] = FALSE]
    /\ refs' = [refs EXCEPT ![e] = 2, ![old] = @ - 1]
    /\ key' = [h \in Handles |-> IF h = e THEN k
                                 ELSE IF refs'[h] = 0 THEN NoKey ELSE key[h]]
    /\ charge' = [h \in Handles |-> IF h = e THEN c
                                    ELSE IF refs'[h] = 0 THEN 0 ELSE charge[h]]
    /\ usage' = usage + c - charge[old]
    /\ table' = [table EXCEPT ![k] = e]
    /\ in_use' = (in_use \ {old}) \cup {e}
    /\ lru' = IF InList(old) THEN Without(lru, old) ELSE lru

\* Insert up to the eviction loop.
Insert(k, c) ==
    /\ running = "none"
    /\ \E e \in Handles :
         /\ refs[e] = 0
         /\ InsertUncached(e, k, c) \/ InsertNew(e, k, c) \/ InsertOver(e, k, c)
         /\ held' = [held EXCEPT ![e] = 1]
    /\ running' = "insert"
    /\ UNCHANGED capacity

\* Fault: the loops do not spare the entries that are in use.
DropAny ==
    /\ lru # << >>
    /\ \E h \in in_use :
         /\ FinishErase(h)
         /\ table' = [table EXCEPT ![key[h]] = Null]

\* One turn of a loop that drops the oldest entry nobody holds.
DropOldest ==
    /\ lru # << >>
    /\ LET k == key[Head(lru)] IN
         /\ FinishErase(table[k])
         /\ table' = [table EXCEPT ![k] = Null]

EvictOne ==
    /\ running = "insert"
    /\ usage > capacity
    /\ DropOldest
    /\ UNCHANGED <<capacity, held, running>>

\* Fault: Insert evicts at most one entry or none.
InsertReturnEarly ==
    /\ running = "insert"
    /\ running' = "none"
    /\ UNCHANGED <<capacity, usage, lru, in_use, table, fields, held>>

InsertReturn ==
    /\ running = "insert"
    /\ usage <= capacity \/ lru = << >>
    /\ running' = "none"
    /\ UNCHANGED <<capacity, usage, lru, in_use, table, fields, held>>

\* Fault: Ref leaves the entry on lru_.
LookupLeavesOnLru(k) ==
    LET e == table[k] IN
    /\ running = "none"
    /\ e # Null
    /\ held[e] < MaxHeld
    /\ refs' = [refs EXCEPT ![e] = @ + 1]
    /\ held' = [held EXCEPT ![e] = @ + 1]
    /\ UNCHANGED <<capacity, usage, lru, in_use, table, key, charge, in_cache, running>>

\* Lookup that finds the key: Ref(e).  A miss changes nothing.
Lookup(k) ==
    LET e == table[k] IN
    /\ running = "none"
    /\ e # Null
    /\ held[e] < MaxHeld
    /\ IF refs[e] = 1 /\ in_cache[e]
         THEN lru' = Without(lru, e) /\ in_use' = in_use \cup {e}
         ELSE UNCHANGED <<lru, in_use>>
    /\ refs' = [refs EXCEPT ![e] = @ + 1]
    /\ held' = [held EXCEPT ![e] = @ + 1]
    /\ UNCHANGED <<capacity, usage, table, key, charge, in_cache, running>>

\* Release of a handle the client holds: Unref(h).
Release(h) ==
    /\ running = "none"
    /\ held[h] > 0
    /\ refs' = [refs EXCEPT ![h] = @ - 1]
    /\ IF refs[h] = 2 /\ in_cache[h]
         THEN in_use' = in_use \ {h} /\ lru' = Append(lru, h)
         ELSE UNCHANGED <<lru, in_use>>
    /\ Deallocate
    /\ held' = [held EXCEPT ![h] = @ - 1]
    /\ UNCHANGED <<capacity, usage, table, in_cache, running>>

\* Fault: the erased entry stays in the table.
EraseKeepsTable(k) ==
    /\ running = "none"
    /\ table[k] # Null
    /\ FinishErase(table[k])
    /\ UNCHANGED <<capacity, table, held, running>>

\* Erase of a key that is in the table.
Erase(k) ==
    /\ running = "none"
    /\ table[k] # Null
    /\ FinishErase(table[k])
    /\ table' = [table EXCEPT ![k] = Null]
    /\ UNCHANGED <<capacity, held, running>>

PruneCall ==
    /\ running = "none"
    /\ running' = "prune"
    /\ UNCHANGED <<capacity, usage, lru, in_use, table, fields, held>>

PruneOne ==
    /\ running = "prune"
    /\ DropOldest
    /\ UNCHANGED <<capacity, held, running>>

PruneReturn ==
    /\ running = "prune"
    /\ lru = << >>
    /\ running' = "none"
    /\ UNCHANGED <<capacity, usage, lru, in_use, table, fields, held>>

\* The destructor.  The caller must have released what is in use (asserted);
\* it drops the cache's reference of each entry and nothing else.
DestroyCall ==
    /\ running = "none"
    /\ in_use = {}
    /\ running' = "destroy"
    /\ UNCHANGED <<capacity, usage, lru, in_use, table, fields, held>>

DestroyOne ==
    /\ running = "destroy"
    /\ lru # << >>
    /\ in_cache' = [in_cache EXCEPT ![Head(lru)] = FALSE]
    /\ refs' = [refs EXCEPT ![Head(lru)] = @ - 1]
    /\ Deallocate
    /\ lru' = Tail(lru)
    /\ UNCHANGED <<capacity, usage, in_use, table, held, running>>

\* Fault: the destructor leaves entries behind.
DestroyReturnEarly ==
    /\ running = "destroy"
    /\ running' = "destroyed"
    /\ UNCHANGED <<capacity, usage, lru, in_use, table, fields, held>>

DestroyReturn ==
    /\ running = "destroy"
    /\ lru = << >>
    /\ running' = "destroyed"
    /\ UNCHANGED <<capacity, usage, lru, in_use, table, fields, held>>

LoopStep ==
    \/ EvictOne \/ InsertReturn
    \/ PruneOne \/ PruneReturn
    \/ DestroyOne \/ DestroyReturn

Next ==
    \/ \E k \in Keys, c \in Charges : Insert(k, c)
    \/ \E k \in Keys : Lookup(k) \/ Erase(k)
    \/ \E h \in Handles : Release(h)
    \/ PruneCall \/ DestroyCall
    \/ LoopStep

Spec == Init /\ [][Next]_vars

---------------------------------------------------------------------------
(* Properties.                                                             *)

Running == {"none", "insert", "prune", "destroy", "destroyed"}

TypeOK ==
    /\ capacity \in Nat
    /\ usage \in Int
    /\ lru \in Seq(Handles)
    /\ in_use \subseteq Handles
    /\ table \in [Keys -> Handles \cup {Null}]
    /\ key \in [Handles -> Keys \cup {NoKey}]
    /\ charge \in [Handles -> Nat]
    /\ in_cache \in [Handles -> BOOLEAN]
    /\ refs \in [Handles -> Nat]
    /\ held \in [Handles -> Nat]
    /\ running \in Running

\* refs counts the clients' results plus one for the cache: nothing a client
\* holds is ever freed, and nothing unreferenced is kept.
RefsCounted ==
    \A h \in Handles : refs[h] = IF in_cache[h] THEN held[h] + 1 ELSE held[h]

\* The list invariant of doc/cache/cache.md: an entry of the cache is on
\* exactly one of the two lists, once, an entry outside it on neither; lru_
\* has the entries whose only reference is the cache's ("assert(old->refs ==
\* 1)"), in_use_ those that clients hold.
ListsPartition ==
    /\ \A i, j \in 1 .. Len(lru) : lru[i] = lru[j] => i = j
    /\ \A h \in Handles :
         /\ InList(h) <=> in_cache[h] /\ refs[h] = 1
         /\ h \in in_use <=> in_cache[h] /\ refs[h] >= 2

Destroyed == running \in {"destroy", "destroyed"}

\* The table maps a key to the one entry of the cache with that key: a
\* lookup never returns a replaced or erased value or freed memory, and
\* removing "old->key()" from the table removes old itself.
TableExact ==
    ~Destroyed =>
      /\ \A k \in Keys : table[k] # Null => in_cache[table[k]] /\ key[table[k]] = k
      /\ \A h \in Handles : in_cache[h] => key[h] \in Keys /\ table[key[h]] = h

\* The sum of the charges of a set of handles.
ChargeOf(S) ==
    LET sum[T \in SUBSET S] ==
          IF T = {} THEN 0
          ELSE LET h == CHOOSE h \in T : TRUE IN charge[h] + sum[T \ {h}]
    IN  sum[S]

\* usage_ (what TotalCharge reports and eviction compares with the capacity)
\* is the charge of the entries in the cache, so it never wraps below 0.
UsageExact == ~Destroyed => usage = ChargeOf({h \in Handles : in_cache[h]})

\* The loops of Insert, Prune and the destructor never drop an entry that a
\* client holds.
PinnedStays ==
    [][running # "none" =>
         \A h \in Handles : held[h] > 0 => in_cache'[h] = in_cache[h]]_vars

\* When Insert returns, the shard is within its capacity unless clients hold
\* everything that is left in it.
FitsOrPinned ==
    [][(running = "insert" /\ running' = "none") =>
         \/ usage' <= capacity
         \/ \A h \in Handles : in_cache'[h] => held'[h] > 0]_vars

\* After the destructor only what clients still hold is left: every other
\* value was passed to its deleter.
NothingLeaks == running = "destroyed" => \A h \in Handles : refs[h] = held[h]

===========================================================================
