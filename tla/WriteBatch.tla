---------------------------- MODULE WriteBatch ----------------------------
(***************************************************************************)
(* src/src/write_batch/write_batch.cpp: batches of updates, and their      *)
(* insertion in a MemTable while readers look at it.                       *)
(*                                                                         *)
(* A batch is its rep_, a sequence of bytes: the sequence number and the   *)
(* count of its header and the records behind it.  SetContents may take    *)
(* contents from a damaged log that end at any byte behind the header.     *)
(* InsertInto is one step for each record it adds.                         *)
(*                                                                         *)
(* The client is external: as a database does, it numbers batches without  *)
(* gaps, from the last number of the batch before, whether or not that one *)
(* was applied without an error; and it adds to whole batches only.        *)
(***************************************************************************)
EXTENDS MemTable

CONSTANTS
    Batches,     \* the client's batches
    Deleted,     \* bound: user keys the client deletes
    MaxRecords,  \* bound: records in a batch
    MaxSequence, \* bound: sequence numbers
    MaxCut       \* bound: damaged batches at a time

ASSUME WidthsSuffice ==
    /\ MaxRecords \in Nat /\ MaxRecords < ByteRadix^Fixed32
    /\ MaxSequence \in Nat /\ MaxSequence < ByteRadix^(Fixed64 - 1)
ASSUME DeletedAssumption == Deleted \subseteq UserKeys

VARIABLES
    rep,            \* each batch's rep_
    updates,        \* what the client has asked each whole batch for
    cut,            \* batches whose contents were cut off
    last_sequence,  \* the client's last sequence number
    inserter,       \* the InsertInto that runs or has just returned: its batch,
                    \* the inserter's sequence_, Iterate's input and found
    status          \* what it returned: "none" yet, "ok", "corruption"

vars == <<table, rep, updates, cut, last_sequence, inserter, status>>

---------------------------------------------------------------------------
(* The header.                                                             *)

kHeader == Fixed64 + Fixed32

EmptyRep == [i \in 1 .. kHeader |-> 0]

Sequence_(r) == DecodeFixed(SubSeq(r, 1, Fixed64))

SetSequence(r, seq) == EncodeFixed(seq, Fixed64) \o SubSeq(r, Fixed64 + 1, Len(r))

Count(r) == DecodeFixed(SubSeq(r, Fixed64 + 1, kHeader))

SetCount(r, n) ==
    SubSeq(r, 1, Fixed64) \o EncodeFixed(n, Fixed32) \o SubSeq(r, kHeader + 1, Len(r))

\* The records of a batch.
Data(r) == SubSeq(r, kHeader + 1, Len(r))

Idle == [active |-> FALSE, batch |-> "none", sequence |-> 0, input |-> << >>, found |-> 0]

Init ==
    /\ table = << >>
    /\ rep = [b \in Batches |-> EmptyRep]
    /\ updates = [b \in Batches |-> << >>]
    /\ cut = {}
    /\ last_sequence = 0
    /\ inserter = Idle
    /\ status = "none"

---------------------------------------------------------------------------
(* Building a batch.                                                       *)

\* The client goes on to something else; InsertInto has returned.
Client ==
    /\ ~inserter.active
    /\ inserter' = Idle
    /\ status' = "none"
    /\ UNCHANGED <<table, last_sequence>>

\* The client asks the batch b for more.
Building(b, more) ==
    /\ Client
    /\ b \notin cut
    /\ Len(updates[b]) + Len(more) <= MaxRecords
    /\ updates' = [updates EXCEPT ![b] = @ \o more]
    /\ UNCHANGED cut

Put(b, user, value) ==
    /\ Building(b, <<[type |-> kTypeValue, user |-> user, value |-> value]>>)
    /\ rep' = [rep EXCEPT ![b] = SetCount(@, Count(@) + 1) \o <<kTypeValue>>
                 \o PutLengthPrefixedSlice(user) \o PutLengthPrefixedSlice(value)]

Delete(b, user) ==
    /\ Building(b, <<[type |-> kTypeDeletion, user |-> user, value |-> << >>]>>)
    /\ rep' = [rep EXCEPT ![b] = SetCount(@, Count(@) + 1) \o <<kTypeDeletion>>
                 \o PutLengthPrefixedSlice(user)]

\* Clear leaves an empty header.
Clear(b) ==
    /\ Client
    /\ rep[b] # EmptyRep
    /\ rep' = [rep EXCEPT ![b] = EmptyRep]
    /\ updates' = [updates EXCEPT ![b] = << >>]
    /\ cut' = cut \ {b}

\* Fault: the records of src are put before those of dst.
AppendFront(dst, src) ==
    /\ src \notin cut
    /\ updates[src] # << >>
    /\ Building(dst, updates[src])
    /\ rep' = [rep EXCEPT ![dst] =
                 SubSeq(SetCount(@, Count(@) + Count(rep[src])), 1, kHeader)
                   \o Data(rep[src]) \o Data(@)]

\* Append(dst, src); a batch may be appended to itself.
AppendBatch(dst, src) ==
    /\ src \notin cut
    /\ updates[src] # << >>
    /\ Building(dst, updates[src])
    /\ rep' = [rep EXCEPT ![dst] = SetCount(@, Count(@) + Count(rep[src])) \o Data(rep[src])]

\* SetContents with contents that end too early.
CutOff(b) ==
    /\ Client
    /\ b \notin cut
    /\ Cardinality(cut) < MaxCut
    /\ \E n \in kHeader .. Len(rep[b]) - 1 : rep' = [rep EXCEPT ![b] = SubSeq(@, 1, n)]
    /\ cut' = cut \cup {b}
    /\ updates' = [updates EXCEPT ![b] = << >>]

---------------------------------------------------------------------------
(* InsertInto.                                                             *)

\* The client numbers the batch, and calls InsertInto.
InsertInto(b) ==
    /\ ~inserter.active
    /\ Count(rep[b]) > 0
    /\ last_sequence + Count(rep[b]) <= MaxSequence
    /\ rep' = [rep EXCEPT ![b] = SetSequence(@, last_sequence + 1)]
    /\ inserter' = [active |-> TRUE, batch |-> b, sequence |-> Sequence_(rep'[b]),
                    input |-> Data(rep'[b]), found |-> 0]
    /\ last_sequence' = last_sequence + Count(rep[b])
    /\ status' = "none"
    /\ UNCHANGED <<table, updates, cut>>

\* The key and, in a Put, the value behind the tag that is first in the input;
\* a tag is a value type or unknown.
NextKey == GetLengthPrefixedSlice(Tail(inserter.input))
NextValue == GetLengthPrefixedSlice(NextKey.rest)
Parsed(tag) ==
    CASE tag = kTypeValue    -> NextKey.ok /\ NextValue.ok
      [] tag = kTypeDeletion -> NextKey.ok
      [] OTHER               -> FALSE

\* Fault: a deletion takes no sequence number.
IterateSame ==
    LET tag == Head(inserter.input)
        put == tag = kTypeValue
    IN  /\ inserter.active
        /\ inserter.input # << >>
        /\ Parsed(tag)
        /\ Add(inserter.sequence, tag, NextKey.value, IF put THEN NextValue.value ELSE << >>)
        /\ inserter' = [inserter EXCEPT !.found = @ + 1,
                                        !.sequence = IF put THEN @ + 1 ELSE @,
                                        !.input = IF put THEN NextValue.rest ELSE NextKey.rest]
        /\ UNCHANGED <<rep, updates, cut, last_sequence, status>>

\* Iterate hands a record to the inserter, which adds it.
IterateRecord ==
    LET tag == Head(inserter.input)
        put == tag = kTypeValue
    IN  /\ inserter.active
        /\ inserter.input # << >>
        /\ Parsed(tag)
        /\ Add(inserter.sequence, tag, NextKey.value, IF put THEN NextValue.value ELSE << >>)
        /\ inserter' = [inserter EXCEPT !.found = @ + 1,
                                        !.sequence = @ + 1,
                                        !.input = IF put THEN NextValue.rest ELSE NextKey.rest]
        /\ UNCHANGED <<rep, updates, cut, last_sequence, status>>

\* Iterate meets a record that it cannot parse, and returns before its end.
IterateCorrupt ==
    /\ inserter.active
    /\ inserter.input # << >>
    /\ ~Parsed(Head(inserter.input))
    /\ status' = "corruption"
    /\ inserter' = [inserter EXCEPT !.active = FALSE]
    /\ UNCHANGED <<table, rep, updates, cut, last_sequence>>

\* Fault: the number of records is not compared with the header's.
IterateEndUnchecked ==
    /\ inserter.active
    /\ inserter.input = << >>
    /\ status' = "ok"
    /\ inserter' = [inserter EXCEPT !.active = FALSE]
    /\ UNCHANGED <<table, rep, updates, cut, last_sequence>>

\* Iterate is through, and compares the number of records with the header's.
IterateEnd ==
    /\ inserter.active
    /\ inserter.input = << >>
    /\ status' = IF inserter.found = Count(rep[inserter.batch]) THEN "ok" ELSE "corruption"
    /\ inserter' = [inserter EXCEPT !.active = FALSE]
    /\ UNCHANGED <<table, rep, updates, cut, last_sequence>>

---------------------------------------------------------------------------
Build(b) ==
    \/ \E k \in UserKeys, v \in Values : Put(b, k, v)
    \/ \E k \in Deleted : Delete(b, k)
    \/ Clear(b)
    \/ \E src \in Batches : AppendBatch(b, src)
    \/ CutOff(b)
    \/ InsertInto(b)

Iterate == IterateRecord \/ IterateCorrupt \/ IterateEnd

Next ==
    \/ \E b \in Batches : Build(b)
    \/ Iterate

Spec == Init /\ [][Next]_vars

---------------------------------------------------------------------------
(* Properties.                                                             *)

\* No two entries have the same sequence number, and none has one the client
\* has not given out: batches may be appended, cut off, fail in the middle and
\* be inserted again.
SequencesUnique ==
    /\ \A i, j \in 1 .. Len(table) : SequenceAt(i) = SequenceAt(j) => i = j
    /\ \A i \in 1 .. Len(table) : SequenceAt(i) \in 1 .. last_sequence

\* InsertInto reports an error exactly for the batches that were cut off, at
\* whatever byte: inside a length, a key or a value, or between two records.
CorruptionFound ==
    /\ status = "ok" => inserter.batch \notin cut
    /\ status = "corruption" => inserter.batch \in cut

\* A batch without errors is in the table completely: each update that the
\* client asked for, numbered in the order it asked, is read back from an
\* entry with the type, key and value it was given, which has as many bytes as
\* Add allocated for it ("assert(p + val_size == buf + encoded_len)").
AppliedWhole ==
    status = "ok" =>
        LET asked == updates[inserter.batch] IN
        \A n \in 1 .. Len(asked) : \E i \in 1 .. Len(table) :
            /\ SequenceAt(i) = last_sequence - Len(asked) + n
            /\ Type(KeyOf(table[i])) = asked[n].type
            /\ UserAt(i) = asked[n].user
            /\ ValueOf(table[i]) = asked[n].value
            /\ Len(table[i]) = EncodedLen(asked[n].user, asked[n].value)

=============================================================================
