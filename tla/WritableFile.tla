--------------------------- MODULE WritableFile ---------------------------
(***************************************************************************)
(* PosixWritableFile of src/src/env/env_posix.cpp.  A file is a record:    *)
(* buf is buf_[0 .. pos_ - 1], disk what write(2) has handed to the        *)
(* kernel, and synced the length of disk that fdatasync has made durable.  *)
(*                                                                         *)
(* Each method is the set of its outcomes, [file, ok]: a write(2) may take *)
(* any part of its data before it fails, if faults is TRUE.  A write       *)
(* interrupted by a signal is repeated, so it is no outcome of its own.    *)
(***************************************************************************)
EXTENDS Naturals, Sequences

CONSTANTS
    BufferSize,  \* kWritableFileBufferSize
    Manifest     \* is_manifest_: whether the file's name begins with MANIFEST

ASSUME BufferSizeAssumption == BufferSize \in Nat \ {0}
ASSUME ManifestAssumption == Manifest \in BOOLEAN

\* A file opened over the contents d.
Opened(d) == [buf |-> << >>, disk |-> d, synced |-> Len(d)]

Done(f) == [file |-> f, ok |-> TRUE]

\* write(2) until all of data is written or an error comes.
WriteUnbuffered(f, data, faults) ==
    { [file |-> [f EXCEPT !.disk = @ \o SubSeq(data, 1, n)], ok |-> n = Len(data)] :
        n \in IF faults THEN 0 .. Len(data) ELSE {Len(data)} }

\* pos_ = 0 whether or not the write succeeded.
FlushBuffer(f, faults) ==
    { [r EXCEPT !.file.buf = << >>] : r \in WriteUnbuffered(f, f.buf, faults) }

\* Append fills the buffer first, and writes only when it is full.
Append_(f, data, faults) ==
    LET room == BufferSize - Len(f.buf)
        rest == SubSeq(data, room + 1, Len(data))
        full == [f EXCEPT !.buf = @ \o SubSeq(data, 1, room)]
    IN  IF Len(data) <= room
        THEN {Done([f EXCEPT !.buf = @ \o data])}
        ELSE UNION { IF ~r.ok THEN {r}
                     ELSE IF Len(rest) < BufferSize
                     THEN {Done([r.file EXCEPT !.buf = rest])}
                     ELSE WriteUnbuffered(r.file, rest, faults)
                     : r \in FlushBuffer(full, faults) }

\* SyncDirIfManifest that cannot open or sync the directory.
SyncDirFails(f, faults) == IF Manifest /\ faults THEN {[file |-> f, ok |-> FALSE]} ELSE {}

\* fdatasync makes what was written durable, or fails.
SyncFd(f, faults) ==
    {Done([f EXCEPT !.synced = Len(f.disk)])}
    \cup IF faults THEN {[file |-> f, ok |-> FALSE]} ELSE {}

\* Fault: what is still in the buffer is not synced.
SyncUnflushed(f, faults) == SyncDirFails(f, faults) \cup SyncFd(f, faults)

\* Sync syncs a MANIFEST's directory, flushes the buffer and syncs the file; it
\* returns with the first of them that fails.
Sync(f, faults) ==
    SyncDirFails(f, faults)
    \cup UNION { IF r.ok THEN SyncFd(r.file, faults) ELSE {r} : r \in FlushBuffer(f, faults) }

\* Close flushes the buffer; its descriptor is gone whatever happens.
Close(f, faults) ==
    FlushBuffer(f, faults)
    \cup IF faults THEN { [r EXCEPT !.ok = FALSE] : r \in FlushBuffer(f, faults) } ELSE {}

=============================================================================
