----------------------------- MODULE WholeFile -----------------------------
(***************************************************************************)
(* Whole files: WriteStringToFile, WriteStringToFileSync and               *)
(* ReadFileToString of src/src/env/env.cpp, over the files and names of    *)
(* PosixEnv (src/src/env/env_posix.cpp).  A step is a call of the Env or   *)
(* of a file.                                                              *)
(*                                                                         *)
(* A client writes strings to Filename, and renames a file it has written  *)
(* and synced to Target; a second thread reads either name; any call may   *)
(* fail and the machine may stop at any step.  What the disk has kept then *)
(* is external: a file is as it was synced, or has some part of what was   *)
(* written since; a directory is as it was synced, or as any of the        *)
(* operations on its names since has left it.                              *)
(***************************************************************************)
EXTENDS WritableFile

CONSTANTS
    Filename, Target,  \* names, as sequences of their parts, in one directory
    Contents,          \* the strings that are written
    ReadSize,          \* kBufferSize of ReadFileToString
    MaxWrites, MaxReads, MaxCrashes  \* bounds: calls, and machine crashes

ASSUME NamesAssumption == Filename # Target
ASSUME ContentsAssumption == \A d \in Contents : d \in Seq({ d[i] : i \in 1 .. Len(d) })
ASSUME ReadSizeAssumption == ReadSize \in Nat \ {0}

VARIABLES
    inodes,       \* files: a WritableFile with saved, what else a crash may leave
    entries,      \* the directory: what was synced, and after each operation since
    writing,      \* where DoWriteStringToFile is
    data, should_sync, inode, status,  \* its variables; inode is file's
    fd, closes,   \* whether fd_ is not -1, and the close(2) calls for it
    returned,     \* how the last write has ended: "", "ok", "removed", "left"
    reading, name, from, position, result,  \* ReadFileToString: of name, open on from
    writes, reads, crashes         \* counted against the bounds

writeVars == <<writing, data, should_sync, inode, status, fd, closes, returned, writes>>
readVars == <<reading, name, from, position, result, reads>>
wholeVars == <<inodes, entries, writeVars, readVars, crashes>>

WholeInit ==
    /\ inodes = << >>
    /\ entries = << [n \in {Filename, Target} |-> 0] >>
    /\ writing = "idle" /\ data = << >> /\ should_sync = FALSE /\ inode = 0
    /\ status = TRUE /\ fd = FALSE /\ closes = 0 /\ returned = "" /\ writes = 0
    /\ reading = "idle" /\ name = Target /\ from = 0 /\ position = 0 /\ result = << >>
    /\ reads = 0
    /\ crashes = 0

---------------------------------------------------------------------------
(* The directory, and what a crash leaves.                                 *)

\* The directory as processes see it: name to inode, 0 for none.
Directory == entries[Len(entries)]

Rebind(d) == entries' = Append(entries, d)

\* What a crash may leave of a file.
Remains(f) == { SubSeq(f.disk, 1, n) : n \in f.synced .. Len(f.disk) } \cup f.saved

\* PosixWritableFile's directory, "." if the name has none.
Dirname(filename) ==
    IF Len(filename) < 2 THEN <<".">> ELSE SubSeq(filename, 1, Len(filename) - 1)

\* The constructor moves filename to filename_ before it computes dirname_, so
\* what it looks at is the empty string.
dirname_ == Dirname(<< >>)

\* SyncDirIfManifest with success.
DirectorySynced ==
    IF Manifest /\ dirname_ = Dirname(Filename) THEN <<Directory>> ELSE entries

---------------------------------------------------------------------------
(* DoWriteStringToFile.                                                    *)

\* open(2) with O_TRUNC and O_CREAT.  The file that was there may still be on
\* the disk, or a part of it.
OpenTruncated ==
    IF Directory[Filename] = 0
    THEN /\ inode' = Len(inodes) + 1
         /\ inodes' = Append(inodes, [buf |-> << >>, disk |-> << >>, synced |-> 0, saved |-> {}])
         /\ Rebind([Directory EXCEPT ![Filename] = inode'])
    ELSE /\ inode' = Directory[Filename]
         /\ inodes' = [inodes EXCEPT ![inode'] =
                         [buf |-> << >>, disk |-> << >>, synced |-> 0, saved |-> Remains(@)]]
         /\ UNCHANGED entries

\* NewWritableFile: WriteStringToFile asks for no sync, whatever it was given,
\* and WriteStringToFileSync for one.
NewWritableFile(d, sync) ==
    /\ writing = "idle"
    /\ writes < MaxWrites
    /\ OpenTruncated
    /\ writing' = "append" /\ data' = d /\ should_sync' = sync
    /\ status' = TRUE /\ fd' = TRUE /\ closes' = 0 /\ returned' = ""
    /\ writes' = writes + 1
    /\ UNCHANGED <<readVars, crashes>>

\* A method of the file: one of its outcomes, and where to go on with it.
Method(outcomes, at, goesOn) ==
    /\ writing = at
    /\ \E r \in outcomes :
         /\ inodes' = [inodes EXCEPT ![inode] = r.file]
         /\ status' = r.ok
         /\ writing' = IF r.ok THEN goesOn ELSE "delete"
    /\ UNCHANGED <<data, should_sync, inode, returned, readVars, writes, crashes>>

AppendData ==
    /\ Method(Append_(inodes[inode], data, TRUE), "append", IF should_sync THEN "sync" ELSE "close")
    /\ UNCHANGED <<entries, fd, closes>>

\* A sync that succeeds leaves nothing of the past; one that fails may have
\* synced the directory.
SyncData ==
    /\ Method({ IF r.ok THEN [r EXCEPT !.file.saved = {}] ELSE r : r \in Sync(inodes[inode], TRUE) },
              "sync", "close")
    /\ entries' \in IF status' THEN {DirectorySynced} ELSE {entries, DirectorySynced}
    /\ UNCHANGED <<fd, closes>>

\* Fault: Close leaves the number of its descriptor.
CloseKeepsFd ==
    /\ Method(Close(inodes[inode], TRUE), "close", "delete")
    /\ closes' = closes + 1
    /\ UNCHANGED <<entries, fd>>

CloseData ==
    /\ Method(Close(inodes[inode], TRUE), "close", "delete")
    /\ fd' = FALSE /\ closes' = closes + 1
    /\ UNCHANGED entries

\* delete file: the destructor closes a file that is still open, and ignores
\* what comes of it.
DeleteData ==
    /\ writing = "delete"
    /\ IF fd
       THEN /\ \E r \in Close(inodes[inode], TRUE) : inodes' = [inodes EXCEPT ![inode] = r.file]
            /\ closes' = closes + 1
       ELSE UNCHANGED <<inodes, closes>>
    /\ fd' = FALSE
    /\ writing' = IF status THEN "idle" ELSE "remove"
    /\ returned' = IF status THEN "ok" ELSE ""
    /\ UNCHANGED <<entries, data, should_sync, inode, status, readVars, writes, crashes>>

\* RemoveFile of a file that was not written; its own status is ignored.
RemoveData ==
    /\ writing = "remove"
    /\ \/ Rebind([Directory EXCEPT ![Filename] = 0]) /\ returned' = "removed"
       \/ UNCHANGED entries /\ returned' = "left"
    /\ writing' = "idle"
    /\ UNCHANGED <<inodes, data, should_sync, inode, status, fd, closes, readVars, writes, crashes>>

---------------------------------------------------------------------------
(* The client's RenameFile, the reader and the crash.                      *)

RenameFile ==
    /\ writing = "idle"
    /\ returned = "ok" /\ should_sync
    /\ Rebind([Directory EXCEPT ![Target] = Directory[Filename], ![Filename] = 0])
    /\ returned' = ""
    /\ UNCHANGED <<inodes, writing, data, should_sync, inode, status, fd, closes, writes, readVars, crashes>>

\* ReadFileToString opens the file of a name ...
NewSequentialFile(n) ==
    /\ reading # "busy"
    /\ reads < MaxReads
    /\ Directory[n] # 0
    /\ reading' = "busy" /\ name' = n /\ from' = Directory[n]
    /\ position' = 0 /\ result' = << >>
    /\ reads' = reads + 1
    /\ UNCHANGED <<inodes, entries, writeVars, crashes>>

\* ... and reads until a read returns nothing.
ReadFragment ==
    LET disk == inodes[from].disk
        end == IF position + ReadSize < Len(disk) THEN position + ReadSize ELSE Len(disk)
        fragment == SubSeq(disk, position + 1, end)
    IN  /\ reading = "busy"
        /\ result' = result \o fragment
        /\ position' = position + Len(fragment)
        /\ reading' = IF fragment = << >> THEN "ok" ELSE "busy"
        /\ UNCHANGED <<inodes, entries, name, from, reads, writeVars, crashes>>

\* Fault: an error is taken for the end of the file.
ReadErrorEnds ==
    /\ reading = "busy"
    /\ reading' = "ok"
    /\ UNCHANGED <<inodes, entries, name, from, position, result, reads, writeVars, crashes>>

ReadError ==
    /\ reading = "busy"
    /\ reading' = "error"
    /\ UNCHANGED <<inodes, entries, name, from, position, result, reads, writeVars, crashes>>

\* The machine stops: the threads are gone, and of every file and of the
\* directory something is left.
MachineCrash ==
    /\ crashes < MaxCrashes
    /\ \E left \in [1 .. Len(inodes) -> UNION { Remains(inodes[i]) : i \in 1 .. Len(inodes) }] :
         /\ \A i \in 1 .. Len(inodes) : left[i] \in Remains(inodes[i])
         /\ inodes' = [ i \in 1 .. Len(inodes) |->
                          [buf |-> << >>, disk |-> left[i], synced |-> Len(left[i]), saved |-> {}] ]
    /\ \E k \in 1 .. Len(entries) : entries' = <<entries[k]>>
    /\ writing' = "idle" /\ returned' = ""
    /\ reading' = "idle" /\ result' = << >>
    /\ crashes' = crashes + 1
    /\ UNCHANGED <<data, should_sync, inode, status, fd, closes, name, from, position, writes, reads>>

WholeNext ==
    \/ \E d \in Contents, sync \in BOOLEAN : NewWritableFile(d, sync)
    \/ AppendData \/ SyncData \/ CloseData \/ DeleteData \/ RemoveData
    \/ RenameFile
    \/ \E n \in {Filename, Target} : NewSequentialFile(n)
    \/ ReadFragment \/ ReadError
    \/ MachineCrash

WholeSpec == WholeInit /\ [][WholeNext]_wholeVars

---------------------------------------------------------------------------
(* Properties.                                                             *)

\* A write that returns OK has put all of its string in the file of that name,
\* one that returns an error has left no file unless it could not remove it,
\* and either has closed its descriptor once.
WrittenOrGone ==
    /\ returned = "ok" => /\ Directory[Filename] = inode
                          /\ inodes[inode].buf = << >> /\ inodes[inode].disk = data
    /\ returned = "removed" => Directory[Filename] = 0
    /\ returned # "" => closes = 1

\* A client that writes a string with WriteStringToFileSync and then renames the
\* file replaces Target's contents as a whole: whenever the machine stops,
\* Target has one of the strings that were written, and no part of one.
ReplaceIsAtomic ==
    \A k \in 1 .. Len(entries) :
        entries[k][Target] # 0 => Remains(inodes[entries[k][Target]]) \subseteq Contents

\* Nor does ReadFileToString return OK with a part of one, while Target is
\* replaced or when a read fails in the middle.
ReadIsWhole == (reading = "ok" /\ name = Target) => result \in Contents

\* A MANIFEST that was synced has a name after a crash: SyncDirIfManifest syncs
\* dirname_, "The directory of filename_" (env_posix.cpp 357).
ManifestNameSurvives ==
    (Manifest /\ returned = "ok" /\ should_sync) =>
        \A k \in 1 .. Len(entries) : entries[k][Filename] = inode

=============================================================================
