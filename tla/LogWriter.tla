---------------------------- MODULE LogWriter ----------------------------
(***************************************************************************)
(* src/src/log_writer/log_writer.cpp over a PosixWritableFile: AddRecord   *)
(* cuts a record into fragments so that no fragment crosses a block.  One  *)
(* turn of its loop, the trailer and EmitPhysicalRecord, is one step.      *)
(***************************************************************************)
EXTENDS LogFormat, WritableFile

VARIABLES
    faulty,        \* whether the file system may fail a call
    file,          \* *dest_
    block_offset,  \* block_offset_
    left,          \* what AddRecord has still to write
    status         \* "adding", or what the last AddRecord returned: "ok", "error"

writerVars == <<file, block_offset, left, status>>

\* Fault: every writer starts at the beginning of a block.
NewWriterAtZero(f, dest_length) ==
    /\ file' = f
    /\ block_offset' = 0
    /\ left' = << >>
    /\ status' = "ok"

\* The two constructors: a new file, and one that already holds contents.
NewWriter(f, dest_length) ==
    /\ file' = f
    /\ block_offset' = dest_length % BlockSize
    /\ left' = << >>
    /\ status' = "ok"

\* Fault: the record is not flushed.
EmitUnflushed(f, type, data) ==
    UNION { IF h.ok THEN Append_(h.file, data, faulty) ELSE {h}
            : h \in Append_(f, Header(type, Len(data)), faulty) }

\* The outcomes of EmitPhysicalRecord: header, payload, flush.
EmitPhysicalRecord(f, type, data) ==
    UNION { IF h.ok
            THEN UNION { IF p.ok THEN FlushBuffer(p.file, faulty) ELSE {p}
                         : p \in Append_(h.file, data, faulty) }
            ELSE {h}
            : h \in Append_(f, Header(type, Len(data)), faulty) }

FragmentType(begin, end) ==
    CASE begin /\ end   -> kFullType
      [] begin /\ ~end  -> kFirstType
      [] ~begin /\ end  -> kLastType
      [] ~begin /\ ~end -> kMiddleType

\* No header fits any more: the block ends with a trailer.
StartsBlock(left_over) == left_over < HeaderSize

\* The file once the trailer is written; an error of that Append is ignored.
Padded(left_over) ==
    IF StartsBlock(left_over) /\ left_over > 0
    THEN { r.file : r \in Append_(file, Zeros(left_over), faulty) }
    ELSE {file}

\* One turn of AddRecord's loop with data left to write.  block_offset_ moves
\* on even if the fragment was not written.
AddFragment(data, begin) ==
    LET left_over == BlockSize - block_offset
        start == IF StartsBlock(left_over) THEN 0 ELSE block_offset
        avail == BlockSize - start - HeaderSize
        length == IF Len(data) < avail THEN Len(data) ELSE avail
        type == FragmentType(begin, length = Len(data))
    IN  \E f \in Padded(left_over) :
          \E r \in EmitPhysicalRecord(f, type, SubSeq(data, 1, length)) :
            /\ file' = r.file
            /\ block_offset' = start + HeaderSize + length
            /\ left' = From(data, length)
            /\ status' = CASE ~r.ok -> "error"
                           [] r.ok /\ left' = << >> -> "ok"
                           [] r.ok /\ left' # << >> -> "adding"

\* A client calls AddRecord.
AddRecord(record) ==
    /\ status # "adding"
    /\ AddFragment(record, TRUE)

\* AddRecord's loop goes on.
ContinueRecord ==
    /\ status = "adding"
    /\ AddFragment(left, FALSE)

=============================================================================
