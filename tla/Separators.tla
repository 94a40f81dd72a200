---------------------------- MODULE Separators ----------------------------
(***************************************************************************)
(* The keys that an index may have in place of longer ones:                *)
(* FindShortestSeparator and FindShortSuccessor of                         *)
(* src/src/comparator/comparator.cpp, for user keys, and of                *)
(* src/src/db_format/db_format.cpp, for internal keys.                     *)
(***************************************************************************)
EXTENDS KeyFormat

LastByte == ByteRadix - 1  \* 0xFF

\* The loop over the common prefix compares a char of start with a uint8_t of
\* limit.  A char is signed on the platforms the build is for, so that bytes
\* from Radix (0x80) on are never equal to themselves.
DiffIndex(start, limit) ==
    1 + Cardinality({ i \in 1 .. Len(start) :
                        /\ i <= Len(limit)
                        /\ \A j \in 1 .. i : start[j] = limit[j] /\ start[j] < Radix })

\* The first d bytes, the last of them incremented.
Shortened(key, d) == Append(SubSeq(key, 1, d - 1), key[d] + 1)

\* Fault: the incremented byte may become the limit's.
FindShortestSeparatorClose(start, limit) ==
    LET d == DiffIndex(start, limit) IN
    IF d <= Len(start) /\ d <= Len(limit) /\ start[d] < limit[d]
    THEN Shortened(start, d)
    ELSE start

FindShortestSeparator(start, limit) ==
    LET d == DiffIndex(start, limit) IN
    IF d <= Len(start) /\ d <= Len(limit) /\ start[d] < LastByte /\ start[d] + 1 < limit[d]
    THEN Shortened(start, d)
    ELSE start

FindShortSuccessor(key) ==
    LET d == 1 + Cardinality({ i \in 1 .. Len(key) : \A j \in 1 .. i : key[j] = LastByte })
    IN  IF d > Len(key) THEN key ELSE Shortened(key, d)

\* The internal key whose user key was shortened to user, with the tag that is
\* first among those of its user key; or the old one, if nothing was gained.
Replaced(key, user) ==
    IF Len(user) < Len(ExtractUserKey(key)) /\ UserCompare(ExtractUserKey(key), user) = Before
    THEN InternalKey(user, kMaxSequenceNumber, kValueTypeForSeek)
    ELSE key

InternalSeparator(start, limit) ==
    Replaced(start, FindShortestSeparator(ExtractUserKey(start), ExtractUserKey(limit)))

InternalSuccessor(key) == Replaced(key, FindShortSuccessor(ExtractUserKey(key)))

---------------------------------------------------------------------------
(* What they promise, over two internal keys that grow byte by byte.       *)

CONSTANTS
    MaxLength,  \* bound: bytes of a user key
    Tags        \* the sequence numbers of the two keys

VARIABLES start, limit  \* two internal keys

separatorVars == <<start, limit>>

SeparatorInit ==
    \E s, t \in Tags :
        /\ start = InternalKey(<< >>, s, kTypeValue)
        /\ limit = InternalKey(<< >>, t, kTypeDeletion)

\* The internal key with one more byte at the end of its user key.
Longer(key, byte) ==
    InternalKey(Append(ExtractUserKey(key), byte), Sequence(key), Type(key))

SeparatorNext ==
    \E byte \in 0 .. LastByte :
        \/ /\ Len(ExtractUserKey(start)) < MaxLength
           /\ start' = Longer(start, byte)
           /\ UNCHANGED limit
        \/ /\ Len(ExtractUserKey(limit)) < MaxLength
           /\ limit' = Longer(limit, byte)
           /\ UNCHANGED start

SeparatorSpec == SeparatorInit /\ [][SeparatorNext]_separatorVars

\* a is before b in the order of byte strings.
Lexicographic(a, b) ==
    \E n \in 0 .. Len(a) :
        /\ n < Len(b)
        /\ SubSeq(a, 1, n) = SubSeq(b, 1, n)
        /\ n = Len(a) \/ a[n + 1] < b[n + 1]

\* The order of internal keys: by user key, the larger tag first.
InOrder(a, b) ==
    \/ Lexicographic(ExtractUserKey(a), ExtractUserKey(b))
    \/ ExtractUserKey(a) = ExtractUserKey(b) /\ Tag(a) > Tag(b)

\* The result is no longer than the key, and not before it.
Shortens(key, short, Order(_, _)) ==
    (short = key \/ Order(key, short)) /\ Len(short) <= Len(key)

\* "FindShortestSeparator" puts start into [start, limit), doc/dbformat/
\* dbformat.md: the result is no longer than start, not before it, and before
\* limit, so that it divides the keys as start does; for user keys, where the
\* code asserts the last of these, and for internal keys.  A successor is no
\* longer than its key and not before it, also when the bytes are all 0xFF.
SeparatorDivides ==
    LET user == ExtractUserKey(start)
        userLimit == ExtractUserKey(limit)
        short == FindShortestSeparator(user, userLimit)
        internal == InternalSeparator(start, limit)
    IN  /\ Lexicographic(user, userLimit) =>
             Shortens(user, short, Lexicographic) /\ Lexicographic(short, userLimit)
        /\ InOrder(start, limit) =>
             Shortens(start, internal, InOrder) /\ InOrder(internal, limit)
        /\ Shortens(user, FindShortSuccessor(user), Lexicographic)
        /\ Shortens(start, InternalSuccessor(start), InOrder)

=============================================================================
