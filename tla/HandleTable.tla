---------------------------- MODULE HandleTable ----------------------------
(***************************************************************************)
(* HandleTable of src/src/cache/cache.cpp: the hash table of a shard.      *)
(*                                                                         *)
(* list_ is a sequence of length_ buckets; a bucket is the sequence of the *)
(* handles that the next_hash pointers chain together.  A handle's key and *)
(* hash are read from its memory, whoever it belongs to now.               *)
(***************************************************************************)
EXTENDS Naturals, Sequences
SX == INSTANCE SequencesExt

CONSTANTS
    Handles,    \* addresses of LRUHandles
    Keys,       \* user keys
    Null,       \* nullptr
    Hash,       \* the hash of each key
    MinLength   \* buckets of a new table, 4 in the code

VARIABLES
    key,    \* the key of each LRUHandle
    list,   \* list_; its length is length_
    elems   \* elems_

Init ==
    /\ list = [i \in 1 .. MinLength |-> << >>]
    /\ elems = 0

\* hash & (length_ - 1), of a table with the given number of buckets.
Bucket(k, length) == 1 + (Hash[k] % length)

\* The place of the key in its chain, or one past the end.
FindPointer(k) ==
    LET chain == list[Bucket(k, Len(list))]
        hits == { i \in 1 .. Len(chain) : key[chain[i]] = k }
    IN  IF hits = {} THEN Len(chain) + 1 ELSE SX!Min(hits)

Lookup(k) ==
    LET chain == list[Bucket(k, Len(list))]
    IN  IF FindPointer(k) > Len(chain) THEN Null ELSE chain[FindPointer(k)]

\* MinLength, doubled until it is at least n.
NewLength(n) ==
    LET doubled[i \in 0 .. n] == IF i = 0 THEN MinLength ELSE 2 * doubled[i - 1]
    IN  SX!Min({ m \in { doubled[i] : i \in 0 .. n } : m >= n })

\* Fault: the rest of a chain is not moved.
ResizeHeads(chains, n, keyOf) ==
    LET length == NewLength(n)
        heads == SX!FlattenSeq([ i \in DOMAIN chains |-> SubSeq(chains[i], 1, 1) ])
    IN  [ b \in 1 .. length |->
            SelectSeq(heads, LAMBDA h : Bucket(keyOf[h], length) = b) ]

\* The handles are taken bucket by bucket, each chain from its head, and put
\* at the head of their new bucket.
Resize(chains, n, keyOf) ==
    LET length == NewLength(n)
        handles == SX!FlattenSeq(chains)
    IN  [ b \in 1 .. length |->
            LET moved[i \in 0 .. Len(handles)] ==
                  IF i = 0 THEN << >>
                  ELSE IF Bucket(keyOf[handles[i]], length) = b
                       THEN << handles[i] >> \o moved[i - 1]
                       ELSE moved[i - 1]
            IN  moved[Len(handles)] ]

\* Insert of a handle whose key is set to k: it takes the place of the key's
\* older handle, or comes last in the chain.
Insert(h, k) ==
    LET b == Bucket(k, Len(list))
        old == Lookup(k)
        chain == IF old = Null THEN Append(list[b], h)
                 ELSE [list[b] EXCEPT ![FindPointer(k)] = h]
        put == [list EXCEPT ![b] = chain]
    IN  IF old = Null
        THEN /\ elems' = elems + 1
             /\ list' = IF elems + 1 > Len(list)
                        THEN Resize(put, elems + 1, [key EXCEPT ![h] = k])
                        ELSE put
        ELSE /\ elems' = elems
             /\ list' = put

\* Remove of the key's handle, if there is one.
Remove(k) ==
    LET b == Bucket(k, Len(list)) IN
    IF Lookup(k) = Null
    THEN UNCHANGED <<list, elems>>
    ELSE /\ list' = [list EXCEPT ![b] = SX!RemoveAt(@, FindPointer(k))]
         /\ elems' = elems - 1

=============================================================================
