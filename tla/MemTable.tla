----------------------------- MODULE MemTable -----------------------------
(***************************************************************************)
(* src/src/data_structure/mem_table.cpp: entries in a skip list.           *)
(*                                                                         *)
(* The list is the sequence of its entries, each the bytes that Add wrote. *)
(* The skip list finds the same place as a walk along its lowest level,    *)
(* the SkipList module shows, because being before a key is monotone along *)
(* the list; that is so here too, where only the user keys are in order.   *)
(***************************************************************************)
EXTENDS KeyFormat

CONSTANTS
    UserKeys,  \* user keys: sequences of bytes
    Values     \* values: sequences of bytes

ASSUME SlicesAssumption == UserKeys \cup Values \subseteq Seq(0 .. ByteRadix - 1)
\* Their lengths, and that of an internal key, are 32-bit numbers.
ASSUME LengthsAssumption ==
    \A s \in UserKeys \cup Values : Len(s) + Fixed64 < ByteRadix^Fixed32

VARIABLE table  \* table_

\* What Add allocates for an entry.
EncodedLen(user, value) ==
    LET size == Len(user) + Fixed64
    IN  VarintLength(size) + size + VarintLength(Len(value)) + Len(value)

\* What Add writes.
Entry(seq, type, user, value) ==
    PutLengthPrefixedSlice(InternalKey(user, seq, type)) \o PutLengthPrefixedSlice(value)

\* The internal key and the value of an entry: key() and value() of an iterator.
KeyOf(entry) == GetLengthPrefixedSlice(entry).value
ValueOf(entry) == GetLengthPrefixedSlice(GetLengthPrefixedSlice(entry).rest).value

\* MemTable::KeyComparator.
KeyCompare(a, b) == Compare(KeyOf(a), KeyOf(b))

\* The index of the first entry that the key is not after, or one past the end:
\* SkipList::FindGreaterOrEqual.
FindGreaterOrEqual(s, key) ==
    1 + Cardinality({ i \in 1 .. Len(s) :
                        \A j \in 1 .. i : KeyCompare(s[j], key) = Before })

\* Fault: new entries go behind the others.
InsertBehind(s, e) == Append(s, e)

\* SkipList::Insert links the entry before that one.
Insert(s, e) ==
    LET n == FindGreaterOrEqual(s, e) - 1
    IN  SubSeq(s, 1, n) \o <<e>> \o SubSeq(s, n + 1, Len(s))

\* Fault: the end of the table is found for the last key.
SeekShort(user, seq) ==
    LET n == FindGreaterOrEqual(table, LookupKey(user, seq))
    IN  IF n = Len(table) THEN n + 1 ELSE n

\* Where a lookup, or an iterator's Seek, of the user key at seq stops.
Seek(user, seq) == FindGreaterOrEqual(table, LookupKey(user, seq))

\* Get: the entry Seek stops at, if its user key compares equal.
Get(user, seq) ==
    LET i == Seek(user, seq)
        k == KeyOf(table[i])
    IN  IF i <= Len(table) /\ UserCompare(ExtractUserKey(k), user) = Equal
        THEN [found |-> TRUE, type |-> Type(k), value |-> ValueOf(table[i])]
        ELSE [found |-> FALSE, type |-> kTypeDeletion, value |-> << >>]

\* Add.
Add(seq, type, user, value) ==
    table' = Insert(table, Entry(seq, type, user, value))

---------------------------------------------------------------------------
(* Properties of the table, in every state a reader may meet it in.        *)

\* The user key and the sequence number of the entry in place i.
UserAt(i) == ExtractUserKey(KeyOf(table[i]))
SequenceAt(i) == Sequence(KeyOf(table[i]))

\* a is before b in the order of byte strings.
Precedes(a, b) ==
    \E n \in 0 .. Len(a) :
        /\ n < Len(b)
        /\ SubSeq(a, 1, n) = SubSeq(b, 1, n)
        /\ n = Len(a) \/ a[n + 1] < b[n + 1]

\* Entries are in the order of their user keys, and those of one user key from
\* the newest to the oldest, so an iterator meets the last write first; the
\* order that the tests of write batches print.
NewestFirst ==
    \A i, j \in 1 .. Len(table) : i < j =>
        \/ Precedes(UserAt(i), UserAt(j))
        \/ UserAt(i) = UserAt(j) /\ SequenceAt(i) > SequenceAt(j)

\* What a lookup, or an iterator's Seek, of the user key at seq is to find when
\* none of the key's entries is newer than seq: the newest of them, with only
\* smaller user keys before it.
SeekReaches(user, seq) ==
    LET own == { i \in 1 .. Len(table) : UserAt(i) = user }
        n == Seek(user, seq)
    IN  (own # {} /\ \A i \in own : SequenceAt(i) <= seq) =>
            /\ n \in own
            /\ \A i \in own : SequenceAt(i) <= SequenceAt(n)
            /\ \A i \in 1 .. n - 1 : Precedes(UserAt(i), user)

\* The sequence numbers at which the table has changed, and the largest one.
Snapshots == { SequenceAt(i) : i \in 1 .. Len(table) } \cup {kMaxSequenceNumber}

\* A reader whose sequence number covers all writes to a user key finds the last
\* of them, whatever else is in the table (prefixes of the key, later writes to
\* other keys), also after a part of a batch.  Of sequence numbers below a
\* write to the key, GetTakesVisible speaks.
SeekReachesKey == \A k \in UserKeys, s \in Snapshots : SeekReaches(k, s)

\* If Seek stops at an entry of the user key, it is not newer than the lookup,
\* "since the Seek() call above should have skipped all entries with overly
\* large sequence numbers", and Get takes it, having checked "that it belongs to
\* same user key": mem_table.cpp 111-113.
GetTakesVisible ==
    \A k \in UserKeys, s \in {0, Len(table)} :
        LET n == Seek(k, s) IN
        (n <= Len(table) /\ UserAt(n) = k) => SequenceAt(n) <= s /\ Get(k, s).found

=============================================================================
