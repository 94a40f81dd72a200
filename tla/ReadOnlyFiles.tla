--------------------------- MODULE ReadOnlyFiles ---------------------------
(***************************************************************************)
(* NewRandomAeccessFile, its two kinds of file and the Limiters that count *)
(* them, of src/src/env/env_posix.cpp.  Threads of one process open, read  *)
(* and destroy files; a thread has one file at a time.  A step is one      *)
(* atomic operation on a Limiter or one system call.                       *)
(***************************************************************************)
EXTENDS Integers, FiniteSets

CONSTANTS
    Threads,
    MmapLimit, FdLimit,  \* MaxMmaps() and MaxOpenFiles()
    NDEBUG,              \* whether assert, with what is in it, is compiled out
    MaxMappings          \* bound: mappings of a process

ASSUME ThreadsAssumption == IsFiniteSet(Threads)
ASSUME LimitsAssumption == MmapLimit \in Nat /\ FdLimit \in Nat
ASSUME NDEBUGAssumption == NDEBUG \in BOOLEAN

VARIABLES
    pc,                \* where each thread is
    mmap_allowed,      \* mmap_limiter_.acquires_allowed_
    fd_allowed,        \* fd_limiter_.acquires_allowed_
    mappings,          \* mappings of the process
    open_fds           \* open descriptors of the process

filesVars == <<pc, mmap_allowed, fd_allowed, mappings, open_fds>>

FilesInit ==
    /\ pc = [t \in Threads |-> "idle"]
    /\ mmap_allowed = MmapLimit
    /\ fd_allowed = FdLimit
    /\ mappings = 0
    /\ open_fds = 0

Goto(t, from, to) ==
    /\ pc[t] = from
    /\ pc' = [pc EXCEPT ![t] = to]

CloseFd(t, from, to) ==
    /\ Goto(t, from, to)
    /\ open_fds' = open_fds - 1
    /\ UNCHANGED <<mmap_allowed, fd_allowed, mappings>>

---------------------------------------------------------------------------
(* NewRandomAeccessFile.                                                   *)

\* open(2); if it fails nothing happened.
OpenFile(t) ==
    /\ mappings < MaxMappings
    /\ Goto(t, "idle", "opened")
    /\ open_fds' = open_fds + 1
    /\ UNCHANGED <<mmap_allowed, fd_allowed, mappings>>

\* Fault: the last resource is given to two.
MmapSubLate(t) ==
    /\ Goto(t, "opened", IF mmap_allowed >= 0 THEN "mapping" ELSE "mmap_back")
    /\ mmap_allowed' = mmap_allowed - 1
    /\ UNCHANGED <<fd_allowed, mappings, open_fds>>

\* Acquire: take one first, and look at what was there.
MmapSub(t) ==
    /\ Goto(t, "opened", IF mmap_allowed > 0 THEN "mapping" ELSE "mmap_back")
    /\ mmap_allowed' = mmap_allowed - 1
    /\ UNCHANGED <<fd_allowed, mappings, open_fds>>

\* Acquire: give it back, and return false.
MmapBack(t) ==
    /\ Goto(t, "mmap_back", "no_mmap")
    /\ mmap_allowed' = mmap_allowed + 1
    /\ UNCHANGED <<fd_allowed, mappings, open_fds>>

\* PosixRandomAccessFile's constructor acquires a permanent descriptor ...
FdSub(t) ==
    /\ Goto(t, "no_mmap", IF fd_allowed > 0 THEN "fd_file" ELSE "fd_back")
    /\ fd_allowed' = fd_allowed - 1
    /\ UNCHANGED <<mmap_allowed, mappings, open_fds>>

\* Fault: a failed Acquire keeps what it took.
FdBackForgets(t) ==
    /\ Goto(t, "fd_back", "no_fd")
    /\ UNCHANGED <<mmap_allowed, fd_allowed, mappings, open_fds>>

FdBack(t) ==
    /\ Goto(t, "fd_back", "no_fd")
    /\ fd_allowed' = fd_allowed + 1
    /\ UNCHANGED <<mmap_allowed, mappings, open_fds>>

\* ... or closes the descriptor, and opens the file for every read.
CloseTemp(t) == CloseFd(t, "no_fd", "temp_file")

\* GetFileSize and mmap succeed.
Map(t) ==
    /\ Goto(t, "mapping", "mapped")
    /\ mappings' = mappings + 1
    /\ UNCHANGED <<mmap_allowed, fd_allowed, open_fds>>

\* GetFileSize or mmap fails.
MapFails(t) ==
    /\ Goto(t, "mapping", "unmapped")
    /\ UNCHANGED <<mmap_allowed, fd_allowed, mappings, open_fds>>

\* Fault: the descriptor of a mapped file stays open.
CloseMappedNot(t) ==
    /\ Goto(t, "mapped", "mmap_file")
    /\ UNCHANGED <<mmap_allowed, fd_allowed, mappings, open_fds>>

CloseMapped(t) == CloseFd(t, "mapped", "mmap_file")

CloseUnmapped(t) == CloseFd(t, "unmapped", "mmap_release")

\* The error path, and the destructor below, give the place back.
ReleaseMmap(t) ==
    /\ Goto(t, "mmap_release", "idle")
    /\ mmap_allowed' = mmap_allowed + 1
    /\ UNCHANGED <<fd_allowed, mappings, open_fds>>

---------------------------------------------------------------------------
(* The files.  Reads of a mapping or of a permanent descriptor change      *)
(* nothing here.                                                           *)

ReadOpen(t) ==
    /\ Goto(t, "temp_file", "temp_read")
    /\ open_fds' = open_fds + 1
    /\ UNCHANGED <<mmap_allowed, fd_allowed, mappings>>

ReadClose(t) == CloseFd(t, "temp_read", "temp_file")

\* ~PosixMmapReadableFile: the munmap is inside an assert.
Munmap(t) ==
    /\ Goto(t, "mmap_file", "mmap_release")
    /\ mappings' = IF NDEBUG THEN mappings ELSE mappings - 1
    /\ UNCHANGED <<mmap_allowed, fd_allowed, open_fds>>

\* ~PosixRandomAccessFile.
DestroyFd(t) == CloseFd(t, "fd_file", "fd_release")

ReleaseFd(t) ==
    /\ Goto(t, "fd_release", "idle")
    /\ fd_allowed' = fd_allowed + 1
    /\ UNCHANGED <<mmap_allowed, mappings, open_fds>>

DestroyTemp(t) ==
    /\ Goto(t, "temp_file", "idle")
    /\ UNCHANGED <<mmap_allowed, fd_allowed, mappings, open_fds>>

---------------------------------------------------------------------------
\* A step of a call that has begun.
Running(t) ==
    \/ MmapSub(t) \/ MmapBack(t) \/ FdSub(t) \/ FdBack(t) \/ CloseTemp(t)
    \/ Map(t) \/ MapFails(t) \/ CloseMapped(t) \/ CloseUnmapped(t) \/ ReleaseMmap(t)
    \/ ReadClose(t) \/ ReleaseFd(t)

\* A client opens, reads or destroys a file.
Begin(t) ==
    \/ OpenFile(t) \/ ReadOpen(t) \/ Munmap(t) \/ DestroyFd(t) \/ DestroyTemp(t)

FilesNext == \E t \in Threads : Running(t) \/ Begin(t)

FilesSpec == FilesInit /\ [][FilesNext]_filesVars

---------------------------------------------------------------------------
(* Properties.                                                             *)

At(labels) == { t \in Threads : pc[t] \in labels }

\* Threads that own one of the limiter's places: acquired and not released.
MmapOwners == At({"mapping", "mapped", "unmapped", "mmap_file", "mmap_release"})
FdOwners == At({"fd_file", "fd_release"})

\* Places in a call at which the thread has a descriptor of its own open.
InCall == {"opened", "mapping", "mmap_back", "no_mmap", "fd_back", "no_fd",
           "mapped", "unmapped", "temp_read"}

\* The counters account for every place: owned, or taken by an Acquire that
\* has not given it back yet.  So they come back to the limit.
Accounted ==
    /\ mmap_allowed = MmapLimit - Cardinality(MmapOwners) - Cardinality(At({"mmap_back"}))
    /\ fd_allowed = FdLimit - Cardinality(FdOwners) - Cardinality(At({"fd_back"}))

\* The number of mappings stays within the limit: "Helper class to limit
\* resource usage to avoid exhaustion", env_posix.cpp 46-49.
MappingsLimited == mappings <= MmapLimit

\* So do the descriptors that stay open; apart from them each thread has at
\* most the one it is opening or reading through.
FdsLimited == open_fds <= FdLimit + Cardinality(At(InCall))

=============================================================================
