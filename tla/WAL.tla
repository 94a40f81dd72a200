------------------------------- MODULE WAL -------------------------------
(***************************************************************************)
(* A log through its life: a client adds records, syncs, closes the file   *)
(* and opens it again to add more; the process or the machine stops at any *)
(* moment; and a reader recovers what is left.                             *)
(*                                                                         *)
(* The crash is external: the file's buffer is lost, and of what the       *)
(* kernel was handed everything up to the last sync stays, and any part of *)
(* the rest.  log, intact and current are about the past: log has the      *)
(* acknowledged records that are still there, with their places, up to the *)
(* first write that failed or the first torn record that others were put   *)
(* behind, when intact becomes FALSE.                                      *)
(***************************************************************************)
EXTENDS LogWriter, LogReader, FiniteSets

CONSTANTS
    Records,         \* the records a client may add: sequences of bytes
    FaultyRecords,   \* bound: ... where the file system fails
    InitialOffsets,  \* offsets a reader may start at
    FaultyOffsets,   \* bound: ... where the file system fails
    MaxRecords,      \* bound: calls of AddRecord
    MaxReopens       \* bound: times the log is opened to add more records, where
                     \* the file system does not fail

ASSUME RecordsAssumption == Records \subseteq Seq(Nat) /\ FaultyRecords \subseteq Seq(Nat)

\* An initial_offset is a uint64_t.
ASSUME OffsetsAssumption == InitialOffsets \subseteq Nat /\ FaultyOffsets \subseteq Nat

\* The writer's trailer fits in the file's buffer: fewer than 7 bytes in 65536.
ASSUME TrailerAssumption == HeaderSize <= BufferSize

VARIABLES
    phase,           \* "open" for the writer, "closed", "reading"
    log, intact,
    current,         \* the record of the last AddRecord, and where it begins
    added, reopened  \* the calls counted against the bounds

past == <<log, intact, current>>
vars == <<faulty, writerVars, readerVars, phase, past, added, reopened>>

Init ==
    /\ faulty \in BOOLEAN
    /\ file = Opened(<< >>) /\ block_offset = 0 /\ left = << >> /\ status = "ok"
    /\ ReaderInit
    /\ phase = "open"
    /\ log = << >> /\ intact = TRUE /\ current = [data |-> << >>, start |-> 0]
    /\ added = 0 /\ reopened = 0

---------------------------------------------------------------------------
\* Where a record that comes after offset e begins.
NextStart(e) ==
    LET left_over == BlockSize - (e % BlockSize) IN
    IF left_over < HeaderSize THEN e + left_over ELSE e

LastEnd == IF log = << >> THEN 0 ELSE log[Len(log)].end

\* The numbers of records that lie in the first n bytes and that begin before
\* offset o: the first ones, since records follow each other.
Upto(n) == Cardinality({ i \in 1 .. Len(log) : log[i].end <= n })
Before(o) == Cardinality({ i \in 1 .. Len(log) : log[i].start < o })

\* What a turn of AddRecord's loop means for the past.
Remember ==
    /\ intact' = (intact /\ status' # "error")
    /\ log' = IF intact' /\ status' = "ok"
              THEN Append(log, [data |-> current'.data, start |-> current'.start,
                                end |-> Len(file'.disk)])
              ELSE log

Add(record) ==
    /\ phase = "open"
    /\ added < MaxRecords
    /\ AddRecord(record)
    /\ current' = [data |-> record, start |-> NextStart(LastEnd)]
    /\ Remember
    /\ added' = added + 1
    /\ UNCHANGED <<faulty, readerVars, phase, reopened>>

Continue ==
    /\ phase = "open"
    /\ ContinueRecord
    /\ current' = current
    /\ Remember
    /\ UNCHANGED <<faulty, readerVars, phase, added, reopened>>

\* The client syncs the log, with or without success.
SyncLog ==
    /\ phase = "open"
    /\ status # "adding"
    /\ \E r \in Sync(file, faulty) :
         /\ file' = r.file
         /\ intact' = (intact /\ r.ok)
    /\ UNCHANGED <<faulty, block_offset, left, status, readerVars, phase, log, current,
                   added, reopened>>

\* The client closes the log.
CloseLog ==
    /\ phase = "open"
    /\ status # "adding"
    /\ \E r \in Close(file, faulty) : file' = r.file
    /\ phase' = "closed"
    /\ UNCHANGED <<faulty, block_offset, left, status, readerVars, past, added, reopened>>

\* The process or the machine stops.
Crash ==
    /\ phase = "open"
    /\ \E n \in file.synced .. Len(file.disk) :
         /\ file' = Opened(SubSeq(file.disk, 1, n))
         /\ log' = SubSeq(log, 1, Upto(n))
    /\ phase' = "closed"
    /\ UNCHANGED <<faulty, block_offset, left, status, readerVars, intact, current,
                   added, reopened>>

\* The log is opened to add more: a Writer over the length of the file.
Reopen ==
    /\ phase = "closed"
    /\ reading = "closed"
    /\ ~faulty /\ reopened < MaxReopens
    /\ NewWriter(Opened(file.disk), Len(file.disk))
    /\ phase' = "open"
    /\ intact' = (intact /\ Len(file.disk) <= NextStart(LastEnd))
    /\ reopened' = reopened + 1
    /\ UNCHANGED <<faulty, readerVars, log, current, added>>

\* A Reader over what is left.
Recover ==
    /\ phase = "closed"
    /\ \E offset \in IF faulty THEN FaultyOffsets ELSE InitialOffsets : OpenReader(file.disk, offset)
    /\ phase' = "reading"
    /\ UNCHANGED <<faulty, writerVars, past, added, reopened>>

Read ==
    /\ phase = "reading"
    /\ ReaderStep
    /\ UNCHANGED <<faulty, writerVars, phase, past, added, reopened>>

ReadFault ==
    /\ phase = "reading"
    /\ faulty
    /\ ReaderFault
    /\ UNCHANGED <<faulty, writerVars, phase, past, added, reopened>>

Next ==
    \/ \E record \in IF faulty THEN FaultyRecords ELSE Records : Add(record)
    \/ Continue
    \/ SyncLog
    \/ CloseLog
    \/ Crash
    \/ Reopen
    \/ Recover
    \/ Read
    \/ ReadFault

\* A reader that was opened reads on: ReadRecord is a loop of one thread, and
\* its client calls it until it returns false.
Spec == Init /\ [][Next]_vars /\ WF_vars(Read)

---------------------------------------------------------------------------
(* Properties.                                                             *)

\* The records a reader should return: those that begin at its offset or after.
Expected ==
    LET passed == Before(initial_offset)
    IN  [i \in 1 .. Len(log) - passed |-> log[passed + i].data]

IsPrefixOf(s, t) == Len(s) <= Len(t) /\ s = SubSeq(t, 1, Len(s))

\* Between two calls of AddRecord block_offset_ is the file's length in its
\* block and nothing is left in the buffer, so a fragment never crosses a
\* block, as long as no write fails; the trailer's ignored status included.
OffsetFollowsFile ==
    (intact /\ phase = "open") =>
        /\ file.buf = << >>
        /\ Len(file.disk) % BlockSize = block_offset % BlockSize

\* Recovery returns only what was added, in order, without holes, whatever the
\* crash left of the last record, for every offset it starts at.
ReturnsWhatWasAdded == intact => IsPrefixOf(out, Expected)

\* ... and at its end it has returned every acknowledged record that the crash
\* left whole.  A failed write or a torn record that others were put behind
\* takes none of the records before it away.
ReturnsAllAcknowledged ==
    (reading = "end" /\ ~io_error) => IsPrefixOf(Expected, out)

\* A record the writer did not finish is the end of the log, not a corruption:
\* the comments at log_reader.cpp 153-156 and 172-174.
TornTailIsSilent == (intact /\ initial_offset = 0 /\ ~io_error) => reports = 0

\* LastRecordOffset is where the last record returned begins.
LastOffsetExact ==
    (intact /\ out # << >>) =>
        \E i \in 1 .. Len(log) :
            /\ log[i].start = last_record_offset
            /\ log[i].data = out[Len(out)]

\* Every recovery comes to an end.
RecoveryEnds == (phase = "reading") ~> (reading = "end")

=============================================================================
