---------------------------- MODULE LogReader ----------------------------
(***************************************************************************)
(* src/src/log_reader/log_reader.cpp: ReadRecord puts records together     *)
(* again from the fragments of a file.  A step is one read of a block or   *)
(* one turn of ReadRecord's loop.  The Slice buffer_ is the bytes it       *)
(* spans; the file is a PosixSequentialFile at position pos.               *)
(***************************************************************************)
EXTENDS LogFormat, Integers

CONSTANT
    SizeModulus  \* the modulus of size arithmetic, 2^64 in the code

ASSUME ModulusAssumption == SizeModulus \in Nat \ {0}

VARIABLES
    contents, pos,         \* the file and its position
    buffer,                \* buffer_
    eof,                   \* eof_
    last_record_offset, end_of_buffer_offset, initial_offset, resyncing,
    in_fragmented_record, scratch, prospective_record_offset,
                           \* ReadRecord's variables
    reading,               \* "closed", "idle", in a "call", or at its "end"
    out,                   \* the records returned so far
    reports,               \* calls of reporter_->Corruption
    io_error               \* whether the file has failed a read or a seek

readerVars == <<contents, pos, buffer, eof, last_record_offset,
                end_of_buffer_offset, initial_offset, resyncing,
                in_fragmented_record, scratch, prospective_record_offset,
                reading, out, reports, io_error>>

fileVars == <<contents, initial_offset>>
fragmentVars == <<in_fragmented_record, scratch, prospective_record_offset>>

ReaderInit ==
    /\ contents = << >> /\ pos = 0 /\ buffer = << >> /\ eof = FALSE
    /\ last_record_offset = 0 /\ end_of_buffer_offset = 0
    /\ initial_offset = 0 /\ resyncing = FALSE
    /\ in_fragmented_record = FALSE /\ scratch = << >>
    /\ prospective_record_offset = 0
    /\ reading = "closed" /\ out = << >> /\ reports = 0 /\ io_error = FALSE

\* The constructor, over the file with the bytes d.
OpenReader(d, offset) ==
    /\ reading = "closed"
    /\ reading' = "idle"
    /\ contents' = d
    /\ initial_offset' = offset
    /\ resyncing' = (offset > 0)
    /\ UNCHANGED <<pos, buffer, eof, last_record_offset, end_of_buffer_offset,
                   fragmentVars, out, reports, io_error>>

---------------------------------------------------------------------------
kEof == kMaxRecordType + 1
kBadRecord == kMaxRecordType + 2

Wrap(n) == n % SizeModulus

\* ReportDrop of some bytes, with rest what is left in the buffer, after n
\* reports: one more, unless the bytes lie before the initial offset.
Reported(n, rest, bytes) ==
    IF Wrap(end_of_buffer_offset - Len(rest) - bytes) >= initial_offset
    THEN n + 1 ELSE n

\* SkipToInitialBlock's target: the block of the offset, or the one after it
\* if the offset is in a trailer.
InitialBlock ==
    LET offset_in_block == initial_offset % BlockSize IN
    IF offset_in_block > BlockSize - (HeaderSize - 1)
    THEN initial_offset - offset_in_block + BlockSize
    ELSE initial_offset - offset_in_block

\* ReadRecord is called.
Call ==
    /\ reading = "idle"
    /\ IF last_record_offset < initial_offset
       THEN /\ end_of_buffer_offset' = InitialBlock
            /\ pos' = pos + InitialBlock
       ELSE UNCHANGED <<pos, end_of_buffer_offset>>
    /\ in_fragmented_record' = FALSE
    /\ scratch' = << >>
    /\ prospective_record_offset' = 0
    /\ reading' = "call"
    /\ UNCHANGED <<fileVars, buffer, eof, last_record_offset, resyncing,
                   out, reports, io_error>>

\* ReadRecord is called, and cannot seek to the initial block.
CallSkipFails ==
    /\ reading = "idle"
    /\ last_record_offset < initial_offset
    /\ InitialBlock > 0
    /\ end_of_buffer_offset' = InitialBlock
    /\ reports' = IF Wrap(InitialBlock - Len(buffer) - InitialBlock) >= initial_offset
                  THEN reports + 1 ELSE reports
    /\ io_error' = TRUE
    /\ reading' = "end"
    /\ UNCHANGED <<fileVars, pos, buffer, eof, last_record_offset, resyncing,
                   fragmentVars, out>>

---------------------------------------------------------------------------
(* ReadPhysicalRecord.                                                     *)

\* What Read(kBlockSize) returns: a whole block, or less at the end.
Chunk ==
    LET end == IF pos + BlockSize < Len(contents) THEN pos + BlockSize
               ELSE Len(contents)
    IN  SubSeq(contents, pos + 1, end)

\* Fault: only an empty block is taken for the end of the file.
FillShortIsFull ==
    /\ reading = "call"
    /\ Len(buffer) < HeaderSize
    /\ ~eof
    /\ buffer' = Chunk
    /\ pos' = pos + Len(Chunk)
    /\ end_of_buffer_offset' = end_of_buffer_offset + Len(Chunk)
    /\ eof' = (Chunk = << >>)
    /\ UNCHANGED <<fileVars, last_record_offset, resyncing, fragmentVars,
                   reading, out, reports, io_error>>

\* Fault: the end of the file is not noticed.
FillForever ==
    /\ reading = "call"
    /\ Len(buffer) < HeaderSize
    /\ ~eof
    /\ buffer' = Chunk
    /\ pos' = pos + Len(Chunk)
    /\ end_of_buffer_offset' = end_of_buffer_offset + Len(Chunk)
    /\ eof' = eof
    /\ UNCHANGED <<fileVars, last_record_offset, resyncing, fragmentVars,
                   reading, out, reports, io_error>>

\* The buffer is used up: what is left in it is a trailer, and the next block
\* is read.  A short one is the last.
Fill ==
    /\ reading = "call"
    /\ Len(buffer) < HeaderSize
    /\ ~eof
    /\ buffer' = Chunk
    /\ pos' = pos + Len(Chunk)
    /\ end_of_buffer_offset' = end_of_buffer_offset + Len(Chunk)
    /\ eof' = (Len(Chunk) < BlockSize)
    /\ UNCHANGED <<fileVars, last_record_offset, resyncing, fragmentVars,
                   reading, out, reports, io_error>>

\* Fault: a block that cannot be read is passed over.
FillFailsGoesOn ==
    /\ reading = "call"
    /\ Len(buffer) < HeaderSize
    /\ ~eof
    /\ buffer' = << >>
    /\ pos' = pos + Len(Chunk)
    /\ end_of_buffer_offset' = end_of_buffer_offset + Len(Chunk)
    /\ eof' = (Len(Chunk) < BlockSize)
    /\ io_error' = TRUE
    /\ UNCHANGED <<fileVars, last_record_offset, resyncing, fragmentVars,
                   reading, out, reports>>

\* The read fails: Read gives a Slice of size -1, which is added to the offset
\* before the error is seen, and ReadRecord ends.
FillFails ==
    /\ reading = "call"
    /\ Len(buffer) < HeaderSize
    /\ ~eof
    /\ buffer' = << >>
    /\ end_of_buffer_offset' = Wrap(end_of_buffer_offset - 1)
    /\ eof' = TRUE
    /\ reports' = IF Wrap(end_of_buffer_offset - 1 - BlockSize) >= initial_offset
                  THEN reports + 1 ELSE reports
    /\ io_error' = TRUE
    /\ reading' = "end"
    /\ UNCHANGED <<fileVars, pos, last_record_offset, resyncing, fragmentVars, out>>

\* What ReadPhysicalRecord returns once the buffer is filled: a fragment's
\* type, kEof or kBadRecord, the fragment, the buffer that is left and the bytes
\* it reports as dropped.
ReadPhysicalRecord ==
    LET length == LengthOf(buffer)
        rest == From(buffer, HeaderSize + length)
        Nothing(type) == [type |-> type, fragment |-> << >>, buffer |-> << >>, drop |-> 0]
    IN  CASE Len(buffer) < HeaderSize -> Nothing(kEof)
          [] Len(buffer) >= HeaderSize /\ HeaderSize + length > Len(buffer) ->
               IF eof THEN Nothing(kEof)
               ELSE [Nothing(kBadRecord) EXCEPT !.drop = Len(buffer)]
          [] Len(buffer) >= HeaderSize /\ HeaderSize + length <= Len(buffer) ->
               IF TypeOf(buffer) = kZeroType /\ length = 0 THEN Nothing(kBadRecord)
               ELSE IF Wrap(end_of_buffer_offset - Len(buffer)) < initial_offset
               THEN [Nothing(kBadRecord) EXCEPT !.buffer = rest]
               ELSE [type |-> TypeOf(buffer),
                     fragment |-> SubSeq(buffer, HeaderSize + 1, HeaderSize + length),
                     buffer |-> rest, drop |-> 0]

---------------------------------------------------------------------------
(* The turns of ReadRecord's loop, one for each type of physical record.   *)

\* A turn that reads p, and does not return.
Turn(p) ==
    /\ reading = "call"
    /\ Len(buffer) >= HeaderSize \/ eof
    /\ buffer' = p.buffer
    /\ UNCHANGED <<fileVars, pos, eof, end_of_buffer_offset, io_error>>

\* After a seek, fragments of a record that began earlier are passed over.
Resyncs(p) == resyncing /\ p.type \in {kMiddleType, kLastType}

Resync ==
    LET p == ReadPhysicalRecord IN
    /\ Turn(p)
    /\ Resyncs(p)
    /\ resyncing' = (p.type = kMiddleType)
    /\ UNCHANGED <<last_record_offset, fragmentVars, reading, out, reports>>

\* The offset of p's header.
PhysicalRecordOffset(p) ==
    Wrap(end_of_buffer_offset - Len(p.buffer) - HeaderSize - Len(p.fragment))

\* An unfinished record that p cuts off is reported, if any of it was read.
CutOff(p) ==
    IF in_fragmented_record /\ scratch # << >>
    THEN Reported(reports, p.buffer, Len(scratch)) ELSE reports

ReadFull ==
    LET p == ReadPhysicalRecord IN
    /\ Turn(p)
    /\ p.type = kFullType
    /\ resyncing' = FALSE
    /\ reports' = CutOff(p)
    /\ prospective_record_offset' = PhysicalRecordOffset(p)
    /\ last_record_offset' = PhysicalRecordOffset(p)
    /\ scratch' = << >>
    /\ out' = Append(out, p.fragment)
    /\ reading' = "idle"
    /\ UNCHANGED in_fragmented_record

ReadFirst ==
    LET p == ReadPhysicalRecord IN
    /\ Turn(p)
    /\ p.type = kFirstType
    /\ resyncing' = FALSE
    /\ reports' = CutOff(p)
    /\ prospective_record_offset' = PhysicalRecordOffset(p)
    /\ scratch' = p.fragment
    /\ in_fragmented_record' = TRUE
    /\ UNCHANGED <<last_record_offset, reading, out>>

\* A fragment without a beginning.
ReadOrphan ==
    LET p == ReadPhysicalRecord IN
    /\ Turn(p)
    /\ p.type \in {kMiddleType, kLastType}
    /\ ~Resyncs(p)
    /\ ~in_fragmented_record
    /\ reports' = Reported(reports, p.buffer, Len(p.fragment))
    /\ UNCHANGED <<resyncing, last_record_offset, fragmentVars, reading, out>>

ReadMiddle ==
    LET p == ReadPhysicalRecord IN
    /\ Turn(p)
    /\ p.type = kMiddleType
    /\ ~Resyncs(p)
    /\ in_fragmented_record
    /\ scratch' = scratch \o p.fragment
    /\ UNCHANGED <<resyncing, last_record_offset, in_fragmented_record,
                   prospective_record_offset, reading, out, reports>>

\* Fault: the offset of the last fragment is taken for the record's.
ReadLastOffset ==
    LET p == ReadPhysicalRecord IN
    /\ Turn(p)
    /\ p.type = kLastType
    /\ ~Resyncs(p)
    /\ in_fragmented_record
    /\ scratch' = scratch \o p.fragment
    /\ out' = Append(out, scratch')
    /\ last_record_offset' = PhysicalRecordOffset(p)
    /\ reading' = "idle"
    /\ UNCHANGED <<resyncing, in_fragmented_record, prospective_record_offset, reports>>

ReadLast ==
    LET p == ReadPhysicalRecord IN
    /\ Turn(p)
    /\ p.type = kLastType
    /\ ~Resyncs(p)
    /\ in_fragmented_record
    /\ scratch' = scratch \o p.fragment
    /\ out' = Append(out, scratch')
    /\ last_record_offset' = prospective_record_offset
    /\ reading' = "idle"
    /\ UNCHANGED <<resyncing, in_fragmented_record, prospective_record_offset, reports>>

\* The file ends, in the middle of a record or not: ReadRecord returns false.
ReadEof ==
    LET p == ReadPhysicalRecord IN
    /\ Turn(p)
    /\ p.type = kEof
    /\ resyncing' = FALSE
    /\ scratch' = IF in_fragmented_record THEN << >> ELSE scratch
    /\ reading' = "end"
    /\ UNCHANGED <<last_record_offset, in_fragmented_record,
                   prospective_record_offset, out, reports>>

\* A bad physical record, or one of a type that does not exist: the record it
\* is in the middle of is dropped.
ReadBad ==
    LET p == ReadPhysicalRecord
        own == IF p.drop > 0 THEN Reported(reports, p.buffer, p.drop) ELSE reports
    IN
    /\ Turn(p)
    /\ p.type = kBadRecord
    /\ resyncing' = FALSE
    /\ reports' = IF in_fragmented_record
                  THEN Reported(own, p.buffer, Len(scratch)) ELSE own
    /\ in_fragmented_record' = FALSE
    /\ scratch' = IF in_fragmented_record THEN << >> ELSE scratch
    /\ UNCHANGED <<last_record_offset, prospective_record_offset, reading, out>>

ReadUnknown ==
    LET p == ReadPhysicalRecord IN
    /\ Turn(p)
    /\ p.type \notin {kFullType, kFirstType, kMiddleType, kLastType, kEof, kBadRecord}
    /\ resyncing' = FALSE
    /\ reports' = Reported(reports, p.buffer, Len(p.fragment) +
                           IF in_fragmented_record THEN Len(scratch) ELSE 0)
    /\ in_fragmented_record' = FALSE
    /\ scratch' = << >>
    /\ UNCHANGED <<last_record_offset, prospective_record_offset, reading, out>>

ReaderStep ==
    \/ Call \/ Fill
    \/ Resync \/ ReadFull \/ ReadFirst \/ ReadOrphan \/ ReadMiddle \/ ReadLast
    \/ ReadEof \/ ReadBad \/ ReadUnknown

ReaderFault == CallSkipFails \/ FillFails

=============================================================================
