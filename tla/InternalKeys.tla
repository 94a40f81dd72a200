--------------------------- MODULE InternalKeys ---------------------------
(***************************************************************************)
(* InternalKey and ParseInternalKey of src/src/db_format/db_format.h, with *)
(* AppendInternalKey of db_format.cpp: an internal key that is built from  *)
(* the parts of another and taken apart again.                             *)
(*                                                                         *)
(* A user key is a slice of a std::string: where it begins and how long it *)
(* is.  Behind the characters of the string lies a NUL.                    *)
(***************************************************************************)
EXTENDS KeyFormat

CONSTANTS
    MaxString,  \* bound: bytes of the string
    Sequences   \* sequence numbers

NUL == 0

VARIABLES
    string,   \* what the user keys are slices of
    rep_,     \* the InternalKey's
    set_from  \* the ParsedInternalKey it was set from, if it was

internalKeyVars == <<string, rep_, set_from>>

Strings == UNION { [1 .. n -> 0 .. ByteRadix - 1] : n \in 0 .. MaxString }

InternalKeyInit ==
    /\ string \in Strings
    /\ rep_ = << >>
    /\ set_from = {}

\* std::string::append(char const *): the bytes from first up to a NUL.
CString(first) ==
    LET bytes == Append(string, NUL)
        end == CHOOSE i \in first .. Len(bytes) :
                 bytes[i] = NUL /\ \A j \in first .. i - 1 : bytes[j] # NUL
    IN  SubSeq(bytes, first, end - 1)

\* What is appended for a key whose user_key.data() is first.
AppendInternalKey(first, seq, type) == InternalKey(CString(first), seq, type)

\* SetFrom, and the constructor with the three parts.
SetFrom(first, size, seq, type) ==
    /\ rep_' = AppendInternalKey(first, seq, type)
    /\ set_from' = { [user_key |-> SubSeq(string, first, first + size - 1),
                      sequence |-> seq, type |-> type] }
    /\ UNCHANGED string

\* DecodeFrom takes any bytes.
DecodeFrom(first, size) ==
    /\ rep_' = SubSeq(string, first, first + size - 1)
    /\ set_from' = {}
    /\ UNCHANGED string

ClearKey ==
    /\ rep_' = << >>
    /\ set_from' = {}
    /\ UNCHANGED string

\* ParseInternalKey: the parts of a key, if it has a tag with a known type.
ParseInternalKey(k) ==
    IF Len(k) < Fixed64 \/ Type(k) > kTypeValue THEN {}
    ELSE { [user_key |-> ExtractUserKey(k), sequence |-> Sequence(k), type |-> Type(k)] }

InternalKeyNext ==
    \/ \E first \in 1 .. Len(string) + 1 : \E size \in 0 .. Len(string) - first + 1 :
         \/ \E seq \in Sequences, type \in {kTypeDeletion, kTypeValue} : SetFrom(first, size, seq, type)
         \/ DecodeFrom(first, size)
    \/ ClearKey

InternalKeySpec == InternalKeyInit /\ [][InternalKeyNext]_internalKeyVars

---------------------------------------------------------------------------
\* A key that was set from a std::string, a sequence number and a type is
\* parsed into them again, as TestKey of test/test_db_format.cpp asserts:
\* "ASSERT_EQ(key, decoded.user_key.ToString())".
ParsesBack ==
    \A p \in set_from : p.user_key = string => ParseInternalKey(rep_) = {p}

=============================================================================
