---------------------------- MODULE KeyFormat ----------------------------
(***************************************************************************)
(* Keys and their order: Slice::compare of data_structure/slice.h, the     *)
(* bytewise comparator and db_format/db_format.cpp, all under src/src.     *)
(*                                                                         *)
(* A user key is a sequence of bytes.  An internal key is a user key and   *)
(* the bytes of its tag: the sequence number and, in the last place, the   *)
(* value type.                                                             *)
(***************************************************************************)
EXTENDS Coding

kTypeDeletion == 0
kTypeValue == 1
kValueTypeForSeek == kTypeValue

\* The largest that fits in a tag beside the type.
kMaxSequenceNumber == ByteRadix^(Fixed64 - 1) - 1

Before == "before"  \* a comparison that is negative
Equal == "equal"    \* zero
After == "after"    \* positive

\* The length of the longest common prefix.
Common(a, b) ==
    Cardinality({ i \in 1 .. Len(a) :
                    i <= Len(b) /\ \A j \in 1 .. i : a[j] = b[j] })

\* Slice::compare: memcmp, then the lengths; it tells only "shorter" from the
\* rest, so a slice comes after one with the same bytes.
SliceCompare(a, b) ==
    LET n == Common(a, b) + 1 IN
    IF n <= Len(a) /\ n <= Len(b)
    THEN IF a[n] < b[n] THEN Before ELSE After
    ELSE IF Len(a) < Len(b) THEN Before ELSE After

\* The bytewise comparator compares slices.
UserCompare(a, b) == SliceCompare(a, b)

PackSequenceAndType(seq, type) == seq * ByteRadix + type

\* A user key with its tag.
InternalKey(user, seq, type) ==
    user \o EncodeFixed(PackSequenceAndType(seq, type), Fixed64)

ExtractUserKey(k) == SubSeq(k, 1, Len(k) - Fixed64)

Tag(k) == DecodeFixed(SubSeq(k, Len(k) - Fixed64 + 1, Len(k)))

\* ParseInternalKey: the tag's parts.
Sequence(k) == Tag(k) \div ByteRadix
Type(k) == Tag(k) % ByteRadix

\* InternalKeyComparator::Compare: larger tags first among equal user keys.
Compare(a, b) ==
    LET r == UserCompare(ExtractUserKey(a), ExtractUserKey(b)) IN
    IF r = Equal
    THEN IF Tag(a) > Tag(b) THEN Before ELSE After
    ELSE r

\* The key that a lookup of a user key at a sequence number seeks.
LookupKey(user, seq) == PutLengthPrefixedSlice(InternalKey(user, seq, kValueTypeForSeek))

=============================================================================
