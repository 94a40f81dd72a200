--------------------------- MODULE PosixEnvProofs ---------------------------
(***************************************************************************)
(* What four parts of PosixEnv that share no state keep, each by itself:   *)
(* file locks, for any number of processes and threads; the limits of      *)
(* read-only files, for any finite set of threads and any limits; the      *)
(* queue of background work, for any set of items; and what                *)
(* DoWriteStringToFile, ReadFileToString and a rename promise, for any     *)
(* strings, buffer and number of calls and crashes of the machine.         *)
(***************************************************************************)
EXTENDS FileLock, ReadOnlyFiles, BackgroundQueue, WholeFile,
        FiniteSetTheorems, SequenceTheorems, TLAPS

---------------------------------------------------------------------------
(***************************************************************************)
(* File locks.  The inductive invariant ties the table to the threads: a   *)
(* thread between its Insert and its Remove is the only such thread of its *)
(* process, and it is there exactly while the file is in the process's     *)
(* table.                                                                  *)
(***************************************************************************)

\* The thread has put the file in its process's table.
InTable(t) == stage[t] \in {"inserted", "denied", "undo", "held", "unlocked"}

TableIsThreads ==
    /\ \A t \in Lockers : InTable(t) => ProcOf[t] \in locked_files
    /\ \A t, u \in Lockers :
         (InTable(t) /\ InTable(u) /\ ProcOf[t] = ProcOf[u]) => t = u
    /\ \A p \in locked_files : \E t \in Lockers : ProcOf[t] = p /\ InTable(t)

\* The kernel's lock is there for a thread that holds it.
OwnerHolds ==
    owner # NoProc => \E t \in Lockers : ProcOf[t] = owner /\ stage[t] = "held"

LockInv == LockTypeOK /\ TableIsThreads /\ OwnerHolds

---------------------------------------------------------------------------
\* Every action of one thread: LockInit is typed, and a step keeps the types.
LEMMA LockTypeInductive ==
    /\ LockInit => LockTypeOK
    /\ LockTypeOK /\ [LockNext]_lockVars => LockTypeOK'
<1>1. LockInit => LockTypeOK
  BY DEF LockInit, LockTypeOK, Labels
<1>2. ASSUME LockTypeOK, [LockNext]_lockVars PROVE LockTypeOK'
  <2>1. CASE UNCHANGED lockVars
    BY <1>2, <2>1 DEF LockTypeOK, lockVars
  <2>2. ASSUME NEW t \in Lockers, Lock(t) PROVE LockTypeOK'
    <3>1. ProcOf[t] \in Procs
      BY ProcOfAssumption
    <3>2. QED
      BY <1>2, <2>2, <3>1 DEF LockTypeOK, Labels, Lock, Open, Insert, InsertRefused,
         RefusedClose, SetLk, SetLkDenied, DeniedClose, DeniedRemove, Move, LoseLock
  <2>3. ASSUME NEW t \in Lockers, Unlock(t) PROVE LockTypeOK'
    <3>1. ProcOf[t] \in Procs
      BY ProcOfAssumption
    <3>2. QED
      BY <1>2, <2>3, <3>1 DEF LockTypeOK, Labels, Unlock, Unlk, Remove, UnlockClose,
         Move, LoseLock
  <2>4. ASSUME NEW p \in Procs, ProcessEnds(p) PROVE LockTypeOK'
    BY <1>2, <2>4 DEF LockTypeOK, Labels, ProcessEnds
  <2>5. QED
    BY <1>2, <2>1, <2>2, <2>3, <2>4 DEF LockNext
<1>3. QED
  BY <1>1, <1>2

\* Only Insert takes a thread into the table, and only when no other thread of
\* its process is there.
LEMMA TableInductive ==
    ASSUME LockTypeOK, TableIsThreads, [LockNext]_lockVars PROVE TableIsThreads'
<1>1. CASE UNCHANGED lockVars
  BY <1>1 DEF TableIsThreads, InTable, lockVars
<1>2. ASSUME NEW t \in Lockers,
             stage'[t] \in {"inserted", "denied", "undo", "held", "unlocked"} <=> InTable(t),
             \A u \in Lockers : u # t => stage'[u] = stage[u],
             locked_files' = locked_files
      PROVE  TableIsThreads'
  BY <1>2 DEF TableIsThreads, InTable
<1>3. ASSUME NEW t \in Lockers, Insert(t) PROVE TableIsThreads'
  <2>1. stage' = [stage EXCEPT ![t] = "inserted"] /\ stage[t] = "opened"
    BY <1>3 DEF Insert, Move
  <2>2. \A u \in Lockers : InTable(u)' <=> (u = t \/ InTable(u))
    BY <2>1 DEF LockTypeOK, InTable
  <2>3. \A u \in Lockers : InTable(u) => ProcOf[u] # ProcOf[t]
    BY <1>3 DEF Insert, TableIsThreads
  <2>4. locked_files' = locked_files \cup {ProcOf[t]}
    BY <1>3 DEF Insert
  <2>5. QED
    BY <2>2, <2>3, <2>4 DEF TableIsThreads
<1>4. ASSUME NEW t \in Lockers, InTable(t), ~InTable(t)',
             \A u \in Lockers : u # t => stage'[u] = stage[u],
             locked_files' = locked_files \ {ProcOf[t]}
      PROVE  TableIsThreads'
  <2>1. \A u \in Lockers : InTable(u)' <=> (u # t /\ InTable(u))
    BY <1>4 DEF InTable
  <2>2. \A u \in Lockers : (u # t /\ InTable(u)) => ProcOf[u] # ProcOf[t]
    BY <1>4 DEF TableIsThreads
  <2>3. QED
    BY <1>4, <2>1, <2>2 DEF TableIsThreads
<1>5. ASSUME NEW t \in Lockers, Lock(t) PROVE TableIsThreads'
  <2>1. CASE Insert(t)
    BY <1>3, <2>1
  <2>2. CASE DeniedRemove(t)
    BY <1>4, <2>2 DEF DeniedRemove, Move, LockTypeOK, InTable
  <2>3. CASE Open(t) \/ InsertRefused(t) \/ RefusedClose(t) \/ SetLk(t)
             \/ SetLkDenied(t) \/ DeniedClose(t)
    BY <1>2, <2>3 DEF Open, InsertRefused, RefusedClose, SetLk, SetLkDenied,
       DeniedClose, Move, LockTypeOK, InTable
  <2>4. QED
    BY <1>5, <2>1, <2>2, <2>3 DEF Lock
<1>6. ASSUME NEW t \in Lockers, Unlock(t) PROVE TableIsThreads'
  <2>1. CASE Remove(t)
    BY <1>4, <2>1 DEF Remove, Move, LockTypeOK, InTable
  <2>2. CASE Unlk(t) \/ UnlockClose(t)
    BY <1>2, <2>2 DEF Unlk, UnlockClose, Move, LockTypeOK, InTable
  <2>3. QED
    BY <1>6, <2>1, <2>2 DEF Unlock
<1>7. ASSUME NEW p \in Procs, ProcessEnds(p) PROVE TableIsThreads'
  <2>1. \A u \in Lockers : InTable(u)' <=> (ProcOf[u] # p /\ InTable(u))
    BY <1>7 DEF ProcessEnds, InTable, LockTypeOK
  <2>2. locked_files' = locked_files \ {p}
    BY <1>7 DEF ProcessEnds
  <2>3. QED
    BY <2>1, <2>2 DEF TableIsThreads
<1>8. QED
  BY <1>1, <1>5, <1>6, <1>7 DEF LockNext

\* The owner changes to the process of the thread that enters "held", and to
\* nobody when the one thread that holds the lock leaves.
LEMMA OwnerInductive ==
    ASSUME LockTypeOK, TableIsThreads, OwnerHolds, [LockNext]_lockVars PROVE OwnerHolds'
<1>1. CASE UNCHANGED lockVars
  BY <1>1 DEF OwnerHolds, lockVars
<1>2. ASSUME NEW t \in Lockers, stage[t] # "held",
             \A u \in Lockers : u # t => stage'[u] = stage[u],
             owner' \in {owner, NoProc}
      PROVE  OwnerHolds'
  BY <1>2 DEF OwnerHolds
<1>3. ASSUME NEW t \in Lockers, SetLk(t) PROVE OwnerHolds'
  <2>1. stage'[t] = "held" /\ owner' = ProcOf[t]
    BY <1>3 DEF SetLk, Move, LockTypeOK
  <2>2. QED
    BY <2>1 DEF OwnerHolds
<1>4. ASSUME NEW t \in Lockers, Unlk(t) PROVE OwnerHolds'
  <2>1. stage[t] = "held" /\ \A u \in Lockers : u # t => stage'[u] = stage[u]
    BY <1>4 DEF Unlk, Move, LockTypeOK
  <2>2. owner' = IF owner = ProcOf[t] THEN NoProc ELSE owner
    BY <1>4 DEF Unlk
  <2>3. \A u \in Lockers : ProcOf[u] # ProcOf[t] => u # t
    OBVIOUS
  <2>4. QED
    BY <2>1, <2>2, <2>3 DEF OwnerHolds
<1>5. ASSUME NEW t \in Lockers, Lock(t) PROVE OwnerHolds'
  <2>1. CASE SetLk(t)
    BY <1>3, <2>1
  <2>2. CASE Open(t) \/ Insert(t) \/ InsertRefused(t) \/ RefusedClose(t)
             \/ SetLkDenied(t) \/ DeniedClose(t) \/ DeniedRemove(t)
    BY <1>2, <2>2 DEF Open, Insert, InsertRefused, RefusedClose, SetLkDenied,
       DeniedClose, DeniedRemove, Move, LoseLock, LockTypeOK
  <2>3. QED
    BY <1>5, <2>1, <2>2 DEF Lock
<1>6. ASSUME NEW t \in Lockers, Unlock(t) PROVE OwnerHolds'
  <2>1. CASE Unlk(t)
    BY <1>4, <2>1
  <2>2. CASE Remove(t) \/ UnlockClose(t)
    BY <1>2, <2>2 DEF Remove, UnlockClose, Move, LoseLock, LockTypeOK
  <2>3. QED
    BY <1>6, <2>1, <2>2 DEF Unlock
<1>7. ASSUME NEW p \in Procs, ProcessEnds(p) PROVE OwnerHolds'
  <2>1. \A u \in Lockers : ProcOf[u] # p => stage'[u] = stage[u]
    BY <1>7 DEF ProcessEnds
  <2>2. owner' = IF owner = p THEN NoProc ELSE owner
    BY <1>7 DEF ProcessEnds
  <2>3. QED
    BY <2>1, <2>2 DEF OwnerHolds
<1>8. QED
  BY <1>1, <1>5, <1>6, <1>7 DEF LockNext

\* The three parts are kept together.
LEMMA LockInductive == LockSpec => []LockInv
<1>1. LockInit => LockInv
  <2>1. LockInit => LockTypeOK
    BY LockTypeInductive
  <2>2. QED
    BY <2>1 DEF LockInit, LockInv, TableIsThreads, InTable, OwnerHolds
<1>2. LockInv /\ [LockNext]_lockVars => LockInv'
  BY LockTypeInductive, TableInductive, OwnerInductive DEF LockInv
<1>3. QED
  BY <1>1, <1>2, PTL DEF LockSpec

\* For any number of processes and threads the table lets one thread of a
\* process have the lock at a time, also across crashes and while others are
\* refused.
THEOREM TableExcludes == LockSpec => []OnePerProcess
<1>1. LockInv => OnePerProcess
  BY DEF LockInv, TableIsThreads, InTable, OnePerProcess
<1>2. QED
  BY LockInductive, <1>1, PTL

\* LockFile and UnlockFile leave nothing behind, on none of their paths.
THEOREM LockLeavesNothing == LockSpec => []NothingLeft
<1>1. LockInv => NothingLeft
  BY NoProcAssumption DEF LockInv, TableIsThreads, InTable, OwnerHolds, NothingLeft
<1>2. QED
  BY LockInductive, <1>1, PTL

---------------------------------------------------------------------------
\* A process that uses the lock from one thread never loses it while that thread
\* holds it, whatever other processes do; two such processes never both have it.
\* Where two threads use it the lock can be lost: the second LockFile closes its
\* descriptor.
THEOREM OneThreadExcludes ==
    LockSpec => [](/\ AloneKeepsLock
               /\ \A t, u \in Lockers :
                    (Alone(t) /\ Alone(u) /\ stage[t] = "held" /\ stage[u] = "held") => t = u)
<1>1. LockInit => AloneKeepsLock
  BY DEF LockInit, AloneKeepsLock
<1>2. LockInv /\ AloneKeepsLock /\ [LockNext]_lockVars => AloneKeepsLock'
  <2> SUFFICES ASSUME LockInv, AloneKeepsLock, [LockNext]_lockVars,
                      NEW v \in Lockers, Alone(v), stage'[v] = "held"
               PROVE  owner' = ProcOf[v]
    BY DEF AloneKeepsLock, Alone
  <2> USE DEF LockInv, LockTypeOK
  <2>1. CASE UNCHANGED lockVars
    BY <2>1 DEF AloneKeepsLock, lockVars
  \* A step of another thread does not touch the lock of v's process.
  <2>2. ASSUME NEW t \in Lockers, t # v, stage'[v] = stage[v],
               owner' = owner \/ owner = ProcOf[t]
        PROVE  owner' = ProcOf[v]
    <3>1. ProcOf[t] # ProcOf[v]
      BY <2>2 DEF Alone
    <3>2. owner = ProcOf[v]
      BY <2>2 DEF AloneKeepsLock
    <3>3. QED
      BY <2>2, <3>1, <3>2
  <2>3. ASSUME NEW t \in Lockers, SetLk(t) PROVE owner' = ProcOf[v]
    <3>1. CASE t = v
      BY <2>3, <3>1 DEF SetLk
    <3>2. CASE t # v
      <4>1. stage'[v] = stage[v] /\ owner \in {NoProc, ProcOf[t]}
        BY <2>3, <3>2 DEF SetLk, Move
      <4>2. ProcOf[v] # NoProc
        BY ProcOfAssumption, NoProcAssumption
      <4>3. owner = ProcOf[v]
        BY <4>1 DEF AloneKeepsLock
      <4>4. QED
        BY <2>2, <3>2, <4>1, <4>2, <4>3
    <3>3. QED
      BY <3>1, <3>2
  <2>4. ASSUME NEW t \in Lockers, Lock(t) \/ Unlock(t) PROVE owner' = ProcOf[v]
    <3>1. CASE SetLk(t)
      BY <2>3, <3>1
    <3>2. CASE t = v /\ ~SetLk(t)
      BY <2>4, <3>2 DEF Lock, Open, Insert, InsertRefused, RefusedClose,
         SetLkDenied, DeniedClose, DeniedRemove, Unlock, Unlk, Remove,
         UnlockClose, Move
    <3>3. CASE t # v /\ Lock(t) /\ ~SetLk(t)
      BY <2>2, <3>3 DEF Lock, Open, Insert, InsertRefused, RefusedClose,
         SetLkDenied, DeniedClose, DeniedRemove, Move, LoseLock
    <3>4. CASE t # v /\ Unlock(t)
      BY <2>2, <3>4 DEF Unlock, Unlk, Remove, UnlockClose, Move, LoseLock
    <3>5. QED
      BY <2>4, <3>1, <3>2, <3>3, <3>4
  <2>5. ASSUME NEW p \in Procs, ProcessEnds(p) PROVE owner' = ProcOf[v]
    BY <2>5 DEF ProcessEnds, AloneKeepsLock
  <2>6. QED
    BY <2>1, <2>4, <2>5 DEF LockNext
<1>3. AloneKeepsLock => \A t, u \in Lockers :
        (Alone(t) /\ Alone(u) /\ stage[t] = "held" /\ stage[u] = "held") => t = u
  BY DEF AloneKeepsLock, Alone
<1>4. QED
  BY <1>1, <1>2, <1>3, LockInductive, PTL DEF LockSpec

---------------------------------------------------------------------------
(***************************************************************************)
(* Read-only files.  Each counter of the program is the number of threads  *)
(* at certain places.  A step moves one thread from one place to another,  *)
(* so it changes such a number by at most one, and the program's counter   *)
(* moves with it.                                                          *)
(***************************************************************************)

FileLabels == {"idle", "opened", "mapping", "mmap_back", "no_mmap", "fd_back", "no_fd",
           "fd_file", "fd_release", "temp_file", "temp_read", "mapped", "unmapped",
           "mmap_file", "mmap_release"}

FilesTypeOK ==
    /\ pc \in [Threads -> FileLabels]
    /\ mmap_allowed \in Int /\ fd_allowed \in Int
    /\ mappings \in Int /\ open_fds \in Int

\* The labels that Accounted counts.
MmapOwned == {"mapping", "mapped", "unmapped", "mmap_file", "mmap_release"}
FdOwned == {"fd_file", "fd_release"}

\* An Acquire succeeds only if there was a place.
WithinLimits ==
    /\ Cardinality(At(MmapOwned)) <= MmapLimit
    /\ Cardinality(At(FdOwned)) <= FdLimit

\* With asserts, a mapping lasts exactly from mmap to the destructor.
MappingsAreFiles ==
    NDEBUG = FALSE => mappings = Cardinality(At({"mapped", "mmap_file"}))

\* A descriptor is open in a call or belongs to a file.
FdsAreFiles == open_fds = Cardinality(At(InCall)) + Cardinality(At({"fd_file"}))

FilesInv == FilesTypeOK /\ Accounted /\ WithinLimits /\ MappingsAreFiles /\ FdsAreFiles

---------------------------------------------------------------------------
\* 1 if the place is one of L.
In(place, L) == IF place \in L THEN 1 ELSE 0

\* The number of threads at the places L is a number.
LEMMA AtIsFinite ==
    ASSUME NEW L
    PROVE  IsFiniteSet(At(L)) /\ Cardinality(At(L)) \in Nat
<1>1. At(L) \subseteq Threads
  BY DEF At
<1>2. IsFiniteSet(At(L))
  BY <1>1, ThreadsAssumption, FS_Subset
<1>3. QED
  BY <1>2, FS_CardinalityType

\* One thread that moves changes the number by what it leaves and enters.
LEMMA AtMoves ==
    ASSUME FilesTypeOK, NEW t \in Threads, NEW was, NEW to, Goto(t, was, to), NEW L
    PROVE  Cardinality(At(L))' = Cardinality(At(L)) + In(to, L) - In(was, L)
<1>1. pc[t] = was /\ pc'[t] = to /\ \A u \in Threads : u # t => pc'[u] = pc[u]
  BY DEF Goto, FilesTypeOK
<1>2. IsFiniteSet(At(L)) /\ Cardinality(At(L)) \in Nat
  BY AtIsFinite
<1>3. CASE was \in L /\ to \in L
  <2>1. At(L)' = At(L)
    BY <1>1, <1>3 DEF At
  <2>2. QED
    BY <1>2, <1>3, <2>1 DEF In
<1>4. CASE was \notin L /\ to \notin L
  <2>1. At(L)' = At(L)
    BY <1>1, <1>4 DEF At
  <2>2. QED
    BY <1>2, <1>4, <2>1 DEF In
<1>5. CASE was \notin L /\ to \in L
  <2>1. At(L)' = At(L) \cup {t} /\ t \notin At(L)
    BY <1>1, <1>5 DEF At
  <2>2. Cardinality(At(L) \cup {t}) = Cardinality(At(L)) + 1
    BY <1>2, <2>1, FS_AddElement
  <2>3. QED
    BY <1>2, <1>5, <2>1, <2>2 DEF In
<1>6. CASE was \in L /\ to \notin L
  <2>1. At(L)' = At(L) \ {t} /\ t \in At(L)
    BY <1>1, <1>6 DEF At
  <2>2. Cardinality(At(L) \ {t}) = Cardinality(At(L)) - 1
    BY <1>2, <2>1, FS_RemoveElement
  <2>3. QED
    BY <1>2, <1>6, <2>1, <2>2 DEF In
<1>7. QED
  BY <1>3, <1>4, <1>5, <1>6

---------------------------------------------------------------------------
(* The numbers of the invariant: owners of places, Acquires that give one  *)
(* back, mapped files, descriptors.                                        *)

mOwn == Cardinality(At(MmapOwned))
mBack == Cardinality(At({"mmap_back"}))
fOwn == Cardinality(At(FdOwned))
fBack == Cardinality(At({"fd_back"}))
mapped == Cardinality(At({"mapped", "mmap_file"}))
inCall == Cardinality(At(InCall))
fdFile == Cardinality(At({"fd_file"}))

\* The invariant in these numbers.
Numbers ==
    /\ mmap_allowed = MmapLimit - mOwn - mBack
    /\ fd_allowed = FdLimit - fOwn - fBack
    /\ mOwn <= MmapLimit
    /\ fOwn <= FdLimit
    /\ NDEBUG = FALSE => mappings = mapped
    /\ open_fds = inCall + fdFile

(* The invariant in terms of the numbers of places.                        *)
LEMMA NumbersAreInvariant == FilesInv <=> FilesTypeOK /\ Numbers
BY DEF FilesInv, Numbers, Accounted, WithinLimits, MappingsAreFiles, FdsAreFiles,
   MmapOwners, FdOwners, MmapOwned, FdOwned, mOwn, mBack, fOwn, fBack, mapped,
   inCall, fdFile

(* The numbers of places are natural numbers.                              *)
LEMMA NumbersType ==
    /\ mOwn \in Nat /\ mBack \in Nat /\ fOwn \in Nat /\ fBack \in Nat
    /\ mapped \in Nat /\ inCall \in Nat /\ fdFile \in Nat
BY AtIsFinite DEF mOwn, mBack, fOwn, fBack, mapped, inCall, fdFile

\* How a thread that moves changes them.
LEMMA NumbersMove ==
    ASSUME FilesTypeOK, NEW t \in Threads, NEW was, NEW to, Goto(t, was, to)
    PROVE  /\ mOwn' = mOwn + In(to, MmapOwned) - In(was, MmapOwned)
           /\ mBack' = mBack + In(to, {"mmap_back"}) - In(was, {"mmap_back"})
           /\ fOwn' = fOwn + In(to, FdOwned) - In(was, FdOwned)
           /\ fBack' = fBack + In(to, {"fd_back"}) - In(was, {"fd_back"})
           /\ mapped' = mapped + In(to, {"mapped", "mmap_file"})
                                - In(was, {"mapped", "mmap_file"})
           /\ inCall' = inCall + In(to, InCall) - In(was, InCall)
           /\ fdFile' = fdFile + In(to, {"fd_file"}) - In(was, {"fd_file"})
BY AtMoves DEF mOwn, mBack, fOwn, fBack, mapped, inCall, fdFile

\* Every step of a thread keeps the types.
LEMMA FilesTypeInductive ==
    ASSUME FilesTypeOK, NEW t \in Threads, Running(t) \/ Begin(t) PROVE FilesTypeOK'
<1>1. ASSUME NEW was, NEW to \in FileLabels, Goto(t, was, to),
             mmap_allowed' \in Int, fd_allowed' \in Int, mappings' \in Int, open_fds' \in Int
      PROVE  FilesTypeOK'
  BY <1>1 DEF FilesTypeOK, Goto
<1>2. CASE Running(t)
  BY <1>1, <1>2 DEF Running, MmapSub, MmapBack, FdSub, FdBack, CloseTemp, Map,
     MapFails, CloseMapped, CloseUnmapped, ReleaseMmap, ReadClose, ReleaseFd,
     CloseFd, FilesTypeOK, FileLabels
<1>3. CASE Begin(t)
  BY <1>1, <1>3 DEF Begin, OpenFile, ReadOpen, Munmap, DestroyFd, DestroyTemp,
     CloseFd, FilesTypeOK, FileLabels
<1>4. QED
  BY <1>2, <1>3

\* Every step of a thread keeps the numbers: one step of the proof per action.
LEMMA NumbersInductive ==
    ASSUME FilesTypeOK, Numbers, NEW t \in Threads, Running(t) \/ Begin(t) PROVE Numbers'
<1> USE LimitsAssumption, NumbersType DEF In, MmapOwned, FdOwned, InCall
<1>1. CASE MmapSub(t)
  <2>1. CASE mmap_allowed > 0
    <3>1. Goto(t, "opened", "mapping") /\ mmap_allowed' = mmap_allowed - 1
      BY <1>1, <2>1 DEF MmapSub
    <3>2. QED
      BY <1>1, <2>1, <3>1, NumbersMove DEF MmapSub, Numbers, FilesTypeOK
  <2>2. CASE ~(mmap_allowed > 0)
    <3>1. Goto(t, "opened", "mmap_back") /\ mmap_allowed' = mmap_allowed - 1
      BY <1>1, <2>2 DEF MmapSub
    <3>2. QED
      BY <1>1, <3>1, NumbersMove DEF MmapSub, Numbers, FilesTypeOK
  <2>3. QED
    BY <2>1, <2>2
<1>2. CASE FdSub(t)
  <2>1. CASE fd_allowed > 0
    <3>1. Goto(t, "no_mmap", "fd_file") /\ fd_allowed' = fd_allowed - 1
      BY <1>2, <2>1 DEF FdSub
    <3>2. QED
      BY <1>2, <2>1, <3>1, NumbersMove DEF FdSub, Numbers, FilesTypeOK
  <2>2. CASE ~(fd_allowed > 0)
    <3>1. Goto(t, "no_mmap", "fd_back") /\ fd_allowed' = fd_allowed - 1
      BY <1>2, <2>2 DEF FdSub
    <3>2. QED
      BY <1>2, <3>1, NumbersMove DEF FdSub, Numbers, FilesTypeOK
  <2>3. QED
    BY <2>1, <2>2
<1>3. CASE MmapBack(t)
  <2>1. /\ mOwn' = mOwn /\ mBack' = mBack - 1 /\ fOwn' = fOwn /\ fBack' = fBack
        /\ mapped' = mapped /\ inCall' = inCall /\ fdFile' = fdFile
    BY <1>3, NumbersMove DEF MmapBack
  <2>2. QED
    BY <1>3, <2>1 DEF MmapBack, Numbers, FilesTypeOK
<1>4. CASE FdBack(t)
  <2>1. /\ mOwn' = mOwn /\ mBack' = mBack /\ fOwn' = fOwn /\ fBack' = fBack - 1
        /\ mapped' = mapped /\ inCall' = inCall /\ fdFile' = fdFile
    BY <1>4, NumbersMove DEF FdBack
  <2>2. QED
    BY <1>4, <2>1 DEF FdBack, Numbers, FilesTypeOK
<1>5. CASE CloseTemp(t)
  <2>1. /\ mOwn' = mOwn /\ mBack' = mBack /\ fOwn' = fOwn /\ fBack' = fBack
        /\ mapped' = mapped /\ inCall' = inCall - 1 /\ fdFile' = fdFile
    BY <1>5, NumbersMove DEF CloseTemp, CloseFd
  <2>2. QED
    BY <1>5, <2>1 DEF CloseTemp, CloseFd, Numbers, FilesTypeOK
<1>6. CASE Map(t)
  <2>1. /\ mOwn' = mOwn /\ mBack' = mBack /\ fOwn' = fOwn /\ fBack' = fBack
        /\ mapped' = mapped + 1 /\ inCall' = inCall /\ fdFile' = fdFile
    BY <1>6, NumbersMove DEF Map
  <2>2. QED
    BY <1>6, <2>1 DEF Map, Numbers, FilesTypeOK
<1>7. CASE MapFails(t)
  <2>1. /\ mOwn' = mOwn /\ mBack' = mBack /\ fOwn' = fOwn /\ fBack' = fBack
        /\ mapped' = mapped /\ inCall' = inCall /\ fdFile' = fdFile
    BY <1>7, NumbersMove DEF MapFails
  <2>2. QED
    BY <1>7, <2>1 DEF MapFails, Numbers, FilesTypeOK
<1>8. CASE CloseMapped(t)
  <2>1. /\ mOwn' = mOwn /\ mBack' = mBack /\ fOwn' = fOwn /\ fBack' = fBack
        /\ mapped' = mapped /\ inCall' = inCall - 1 /\ fdFile' = fdFile
    BY <1>8, NumbersMove DEF CloseMapped, CloseFd
  <2>2. QED
    BY <1>8, <2>1 DEF CloseMapped, CloseFd, Numbers, FilesTypeOK
<1>9. CASE CloseUnmapped(t)
  <2>1. /\ mOwn' = mOwn /\ mBack' = mBack /\ fOwn' = fOwn /\ fBack' = fBack
        /\ mapped' = mapped /\ inCall' = inCall - 1 /\ fdFile' = fdFile
    BY <1>9, NumbersMove DEF CloseUnmapped, CloseFd
  <2>2. QED
    BY <1>9, <2>1 DEF CloseUnmapped, CloseFd, Numbers, FilesTypeOK
<1>10. CASE ReleaseMmap(t)
  <2>1. /\ mOwn' = mOwn - 1 /\ mBack' = mBack /\ fOwn' = fOwn /\ fBack' = fBack
        /\ mapped' = mapped /\ inCall' = inCall /\ fdFile' = fdFile
    BY <1>10, NumbersMove DEF ReleaseMmap
  <2>2. QED
    BY <1>10, <2>1 DEF ReleaseMmap, Numbers, FilesTypeOK
<1>11. CASE ReadClose(t)
  <2>1. /\ mOwn' = mOwn /\ mBack' = mBack /\ fOwn' = fOwn /\ fBack' = fBack
        /\ mapped' = mapped /\ inCall' = inCall - 1 /\ fdFile' = fdFile
    BY <1>11, NumbersMove DEF ReadClose, CloseFd
  <2>2. QED
    BY <1>11, <2>1 DEF ReadClose, CloseFd, Numbers, FilesTypeOK
<1>12. CASE ReleaseFd(t)
  <2>1. /\ mOwn' = mOwn /\ mBack' = mBack /\ fOwn' = fOwn - 1 /\ fBack' = fBack
        /\ mapped' = mapped /\ inCall' = inCall /\ fdFile' = fdFile
    BY <1>12, NumbersMove DEF ReleaseFd
  <2>2. QED
    BY <1>12, <2>1 DEF ReleaseFd, Numbers, FilesTypeOK
<1>13. CASE OpenFile(t)
  <2>1. /\ mOwn' = mOwn /\ mBack' = mBack /\ fOwn' = fOwn /\ fBack' = fBack
        /\ mapped' = mapped /\ inCall' = inCall + 1 /\ fdFile' = fdFile
    BY <1>13, NumbersMove DEF OpenFile
  <2>2. QED
    BY <1>13, <2>1 DEF OpenFile, Numbers, FilesTypeOK
<1>14. CASE ReadOpen(t)
  <2>1. /\ mOwn' = mOwn /\ mBack' = mBack /\ fOwn' = fOwn /\ fBack' = fBack
        /\ mapped' = mapped /\ inCall' = inCall + 1 /\ fdFile' = fdFile
    BY <1>14, NumbersMove DEF ReadOpen
  <2>2. QED
    BY <1>14, <2>1 DEF ReadOpen, Numbers, FilesTypeOK
<1>15. CASE Munmap(t)
  <2>1. /\ mOwn' = mOwn /\ mBack' = mBack /\ fOwn' = fOwn /\ fBack' = fBack
        /\ mapped' = mapped - 1 /\ inCall' = inCall /\ fdFile' = fdFile
    BY <1>15, NumbersMove DEF Munmap
  <2>2. QED
    BY <1>15, <2>1, NDEBUGAssumption DEF Munmap, Numbers, FilesTypeOK
<1>16. CASE DestroyFd(t)
  <2>1. /\ mOwn' = mOwn /\ mBack' = mBack /\ fOwn' = fOwn /\ fBack' = fBack
        /\ mapped' = mapped /\ inCall' = inCall /\ fdFile' = fdFile - 1
    BY <1>16, NumbersMove DEF DestroyFd, CloseFd
  <2>2. QED
    BY <1>16, <2>1 DEF DestroyFd, CloseFd, Numbers, FilesTypeOK
<1>17. CASE DestroyTemp(t)
  <2>1. /\ mOwn' = mOwn /\ mBack' = mBack /\ fOwn' = fOwn /\ fBack' = fBack
        /\ mapped' = mapped /\ inCall' = inCall /\ fdFile' = fdFile
    BY <1>17, NumbersMove DEF DestroyTemp
  <2>2. QED
    BY <1>17, <2>1 DEF DestroyTemp, Numbers, FilesTypeOK
<1>18. QED
  BY <1>1, <1>2, <1>3, <1>4, <1>5, <1>6, <1>7, <1>8, <1>9, <1>10, <1>11, <1>12,
     <1>13, <1>14, <1>15, <1>16, <1>17 DEF Running, Begin

(* FilesInv holds in every state of every run.                             *)
LEMMA FilesInductive == FilesSpec => []FilesInv
<1>1. FilesInit => FilesInv
  <2> SUFFICES ASSUME FilesInit PROVE FilesTypeOK /\ Numbers
    BY NumbersAreInvariant
  <2>1. FilesTypeOK
    BY LimitsAssumption DEF FilesInit, FilesTypeOK, FileLabels
  <2>2. ASSUME NEW L, "idle" \notin L PROVE Cardinality(At(L)) = 0
    <3>1. At(L) = {}
      BY <2>2 DEF FilesInit, At
    <3>2. QED
      BY <3>1, FS_EmptySet
  <2>3. /\ mOwn = 0 /\ mBack = 0 /\ fOwn = 0 /\ fBack = 0
        /\ mapped = 0 /\ inCall = 0 /\ fdFile = 0
    BY <2>2 DEF mOwn, mBack, fOwn, fBack, mapped, inCall, fdFile, MmapOwned, FdOwned, InCall
  <2>4. QED
    BY <2>1, <2>3, LimitsAssumption DEF FilesInit, Numbers
<1>2. FilesInv /\ [FilesNext]_filesVars => FilesInv'
  <2> SUFFICES ASSUME FilesInv, [FilesNext]_filesVars PROVE FilesInv'
    OBVIOUS
  <2>1. CASE UNCHANGED filesVars
    BY <2>1 DEF filesVars, FilesInv, FilesTypeOK, Accounted, WithinLimits, MappingsAreFiles,
       FdsAreFiles, MmapOwners, FdOwners, At
  <2>2. ASSUME NEW t \in Threads, Running(t) \/ Begin(t) PROVE FilesInv'
    <3>1. FilesTypeOK /\ Numbers
      BY NumbersAreInvariant
    <3>2. FilesTypeOK' /\ Numbers'
      BY <2>2, <3>1, FilesTypeInductive, NumbersInductive
    <3>3. QED
      BY <3>2 DEF FilesInv, Numbers, Accounted, WithinLimits, MappingsAreFiles,
         FdsAreFiles, MmapOwners, FdOwners, MmapOwned, FdOwned, mOwn, mBack, fOwn,
         fBack, mapped, inCall, fdFile
  <2>3. QED
    BY <2>1, <2>2 DEF FilesNext
<1>3. QED
  BY <1>1, <1>2, PTL DEF FilesSpec

---------------------------------------------------------------------------
\* For any threads and limits, a limiter's counter is its limit less what is
\* taken, on every path, with asserts and without: no place is lost or doubled.
THEOREM PlacesAreAccounted == FilesSpec => []Accounted
<1>1. FilesInv => Accounted
  BY DEF FilesInv
<1>2. QED
  BY <1>1, FilesInductive, PTL

\* With asserts compiled in, the process never has more mappings than allowed.
\* Without them it does: the munmap is inside an assert.
THEOREM AssertsLimitMappings ==
    ASSUME NDEBUG = FALSE PROVE FilesSpec => []MappingsLimited
<1>1. FilesInv => MappingsLimited
  <2> SUFFICES ASSUME FilesInv PROVE MappingsLimited
    OBVIOUS
  <2>1. At({"mapped", "mmap_file"}) \subseteq At(MmapOwned)
    BY DEF At, MmapOwned
  <2>2. Cardinality(At({"mapped", "mmap_file"})) <= Cardinality(At(MmapOwned))
    BY <2>1, AtIsFinite, FS_Subset
  <2>3. QED
    BY <2>2, AtIsFinite, LimitsAssumption
       DEF FilesInv, WithinLimits, MappingsAreFiles, MappingsLimited
<1>2. QED
  BY <1>1, FilesInductive, PTL

\* The process has no more descriptors open than the limit and one for each
\* thread that is opening a file or reading through a temporary descriptor.
THEOREM DescriptorsAreLimited == FilesSpec => []FdsLimited
<1>1. FilesInv => FdsLimited
  <2> SUFFICES ASSUME FilesInv PROVE FdsLimited
    OBVIOUS
  <2>1. At({"fd_file"}) \subseteq At(FdOwned)
    BY DEF At, FdOwned
  <2>2. Cardinality(At({"fd_file"})) <= Cardinality(At(FdOwned))
    BY <2>1, AtIsFinite, FS_Subset
  <2>3. QED
    BY <2>2, AtIsFinite, LimitsAssumption DEF FilesInv, WithinLimits, FdsAreFiles, FdsLimited
<1>2. QED
  BY <1>1, FilesInductive, PTL

---------------------------------------------------------------------------
(***************************************************************************)
(* Background work.  OnceInOrder needs to know that nothing runs while the *)
(* thread looks at the queue; NoLostWakeup that a thread exists once one   *)
(* was started.                                                            *)
(***************************************************************************)

\* An item is being run only while the thread is in its function.
RunsInFunction == worker \notin {"running", "stuck"} => running = << >>

\* The flag says whether there is a thread.
StartedIsThread == ~started <=> worker = "none"

QueueInv == QueueTypeOK /\ RunsInFunction /\ StartedIsThread /\ OnceInOrder /\ NoLostWakeup

---------------------------------------------------------------------------
\* Putting an item behind three sequences puts it behind the last of them.
LEMMA AppendLast ==
    ASSUME NEW S, NEW a \in Seq(S), NEW b \in Seq(S), NEW c \in Seq(S), NEW e \in S
    PROVE  a \o b \o Append(c, e) = Append(a \o b \o c, e)
<1> DEFINE ab == a \o b
           d == <<e>>
<1>1. ab \in Seq(S)
  BY ConcatProperties
<1>2. d \in Seq(S)
  OBVIOUS
<1> HIDE DEF ab, d
<1>3. ab \o c \in Seq(S)
  BY <1>1, ConcatProperties
<1>4. Append(c, e) = c \o d /\ Append(ab \o c, e) = (ab \o c) \o d
  BY <1>3, AppendIsConcat DEF d
<1>5. (ab \o c) \o d = ab \o (c \o d)
  BY <1>1, <1>2, ConcatAssociative, SMTT(60)
<1>6. QED
  BY <1>4, <1>5 DEF ab

\* Moving the head of the last sequence to the one in the middle.
LEMMA MoveHead ==
    ASSUME NEW S, NEW a \in Seq(S), NEW c \in Seq(S), c # << >>
    PROVE  /\ <<Head(c)>> \in Seq(S) /\ Tail(c) \in Seq(S)
           /\ a \o <<Head(c)>> \o Tail(c) = a \o << >> \o c
<1>1. Head(c) \in S /\ Tail(c) \in Seq(S)
  BY HeadTailProperties
<1>2. <<Head(c)>> \in Seq(S)
  BY <1>1
<1>3. c = <<Head(c)>> \o Tail(c)
  <2>1. Len(c) \in Nat \ {0}
    BY EmptySeq
  <2>2. SubSeq(c, 1, Len(c)) = <<c[1]>> \o SubSeq(c, 2, Len(c))
    <3>1. 1 \in 1 .. Len(c) /\ Len(c) \in 1 .. Len(c)
      BY <2>1
    <3>2. SubSeq(c, 1, Len(c)) = <<c[1]>> \o SubSeq(c, 1 + 1, Len(c))
      BY <3>1, SubSeqRecursiveFirst
    <3>3. QED
      BY <3>2
  <2>3. SubSeq(c, 1, Len(c)) = c
    BY SubSeqFull
  <2>4. Tail(c) = SubSeq(c, 2, Len(c))
    BY TailIsSubSeq
  <2>5. Head(c) = c[1]
    OBVIOUS
  <2>6. QED
    BY <2>2, <2>3, <2>4, <2>5
<1>4. a \o << >> = a
  BY ConcatEmptySeq
<1>5. (a \o <<Head(c)>>) \o Tail(c) = a \o (<<Head(c)>> \o Tail(c))
  BY <1>1, <1>2, ConcatAssociative
<1>6. QED
  BY <1>1, <1>2, <1>3, <1>4, <1>5

---------------------------------------------------------------------------
\* Schedule puts the item at the end of both sequences and wakes a thread that
\* waits for an empty queue.
LEMMA SchedulePreserves ==
    ASSUME QueueInv, NEW t \in Tasks, Schedule(t) PROVE QueueInv'
<1> USE DEF QueueInv
<1>1. /\ background_work_queue' = Append(background_work_queue, t)
      /\ scheduled' = Append(scheduled, t)
      /\ running' = running /\ ran' = ran /\ started' = TRUE
      /\ worker' = IF ~started THEN "ready" ELSE Notify
  BY DEF Schedule, Push
<1>2. worker' \in {"ready", "waiting"} /\ (worker' = "waiting" => worker = "waiting" /\ background_work_queue # << >>)
  BY <1>1 DEF Schedule, MutexFree, Notify, QueueTypeOK, StartedIsThread
<1>3. worker' = "ready"
  BY <1>2 DEF NoLostWakeup
<1>4. /\ background_work_queue' \in Seq(Tasks) /\ scheduled' \in Seq(Tasks)
  BY <1>1, AppendProperties DEF QueueTypeOK
<1>5. QueueTypeOK'
  BY <1>1, <1>3, <1>4 DEF QueueTypeOK
<1>6. RunsInFunction'
  BY <1>1, <1>3 DEF RunsInFunction, Schedule, MutexFree
<1>7. OnceInOrder'
  <2>1. ran \o running \o Append(background_work_queue, t)
          = Append(ran \o running \o background_work_queue, t)
    BY AppendLast DEF QueueTypeOK
  <2>2. QED
    BY <1>1, <2>1 DEF OnceInOrder
<1>8. QED
  BY <1>1, <1>3, <1>5, <1>6, <1>7 DEF StartedIsThread, NoLostWakeup

\* Take moves the oldest item from the queue to the one that runs.
LEMMA TakePreserves ==
    ASSUME QueueInv, Take PROVE QueueInv'
<1> USE DEF QueueInv
<1>1. /\ running' = <<Head(background_work_queue)>>
      /\ background_work_queue' = Tail(background_work_queue)
      /\ worker = "checking" /\ worker' = "running" /\ background_work_queue # << >>
      /\ started' = started /\ scheduled' = scheduled /\ ran' = ran
  BY DEF Take
<1>2. running = << >>
  BY <1>1 DEF RunsInFunction
<1>3. /\ running' \in Seq(Tasks) /\ background_work_queue' \in Seq(Tasks)
      /\ ran \o running' \o background_work_queue' = ran \o << >> \o background_work_queue
  BY <1>1, MoveHead DEF QueueTypeOK
<1>4. QueueTypeOK'
  BY <1>1, <1>3 DEF QueueTypeOK
<1>5. OnceInOrder'
  BY <1>1, <1>2, <1>3 DEF OnceInOrder
<1>6. QED
  BY <1>1, <1>4, <1>5 DEF RunsInFunction, StartedIsThread, NoLostWakeup

\* Finish moves the item that ran to those that were run.
LEMMA FinishPreserves ==
    ASSUME QueueInv, Finish PROVE QueueInv'
<1> USE DEF QueueInv
<1>1. /\ worker = "running" /\ worker' = "ready"
      /\ ran' = ran \o running /\ running' = << >>
      /\ background_work_queue' = background_work_queue
      /\ started' = started /\ scheduled' = scheduled
  BY DEF Finish
<1>2. ran' \in Seq(Tasks)
  BY <1>1, ConcatProperties DEF QueueTypeOK
<1>3. ran' \o << >> = ran'
  BY <1>2, ConcatEmptySeq
<1>4. QueueTypeOK'
  BY <1>1, <1>2 DEF QueueTypeOK
<1>5. OnceInOrder'
  BY <1>1, <1>3 DEF OnceInOrder
<1>6. QED
  BY <1>1, <1>4, <1>5 DEF RunsInFunction, StartedIsThread, NoLostWakeup

\* The remaining steps move the thread only.
LEMMA ThreadPreserves ==
    ASSUME QueueInv, Acquire \/ Wait \/ SelfLock \/ SpuriousWakeup PROVE QueueInv'
<1>1. /\ background_work_queue' = background_work_queue
      /\ started' = started /\ running' = running
      /\ scheduled' = scheduled /\ ran' = ran
      /\ worker' \in {"ready", "checking", "waiting", "stuck"}
      /\ worker' = "waiting" => background_work_queue = << >>
      /\ worker # "none"
      /\ worker' # "stuck" => worker \notin {"running", "stuck"}
  BY DEF Acquire, Wait, SelfLock, SpuriousWakeup
<1>2. QED
  BY <1>1 DEF QueueInv, QueueTypeOK, RunsInFunction, StartedIsThread, OnceInOrder, NoLostWakeup

(* QueueInv holds in every state of every run.                             *)
LEMMA QueueInductive == QueueSpec => []QueueInv
<1>1. QueueInit => QueueInv
  <2>1. << >> \in Seq(Tasks) /\ << >> \o << >> \o << >> = << >>
    BY EmptySeq, ConcatEmptySeq
  <2>2. QED
    BY <2>1 DEF QueueInit, QueueInv, QueueTypeOK, RunsInFunction, StartedIsThread, OnceInOrder,
       NoLostWakeup
<1>2. QueueInv /\ [QueueNext]_queueVars => QueueInv'
  <2> SUFFICES ASSUME QueueInv, [QueueNext]_queueVars PROVE QueueInv'
    OBVIOUS
  <2>1. CASE UNCHANGED queueVars
    BY <2>1 DEF queueVars, QueueInv, QueueTypeOK, RunsInFunction, StartedIsThread, OnceInOrder,
       NoLostWakeup
  <2>2. QED
    BY <2>1, SchedulePreserves, TakePreserves, FinishPreserves, ThreadPreserves
       DEF QueueNext, Background
<1>3. QED
  BY <1>1, <1>2, PTL DEF QueueSpec

\* For any work items and any threads that schedule them: each item is run at
\* most once and in the order of the Schedule calls.
THEOREM ItemsRunInOrder == QueueSpec => []OnceInOrder
<1>1. QueueInv => OnceInOrder
  BY DEF QueueInv
<1>2. QED
  BY <1>1, QueueInductive, PTL

\* Notifying before the item is in the queue loses no wakeup.
THEOREM WakeupsReach == QueueSpec => []NoLostWakeup
<1>1. QueueInv => NoLostWakeup
  BY DEF QueueInv
<1>2. QED
  BY <1>1, QueueInductive, PTL

---------------------------------------------------------------------------
(***************************************************************************)
(* Whole files.  ReplaceIsAtomic is not inductive: that the file a rename  *)
(* puts under Target is whole depends on how far the write has come, and   *)
(* that it stays whole on Filename never naming it again.                  *)
(***************************************************************************)

Names == {Filename, Target}

Bytes == UNION { { d[i] : i \in 1 .. Len(d) } : d \in Contents }

File == [buf : Seq(Bytes), disk : Seq(Bytes), synced : Nat, saved : SUBSET Seq(Bytes)]

WholeTypeOK ==
    /\ inodes \in Seq(File)
    /\ \A i \in 1 .. Len(inodes) : inodes[i].synced <= Len(inodes[i].disk)
    /\ entries \in Seq([Names -> 0 .. Len(inodes)]) /\ Len(entries) > 0
    /\ writing \in {"idle", "append", "sync", "close", "delete", "remove"}
    /\ data \in Contents \cup {<< >>} /\ should_sync \in BOOLEAN
    /\ status \in BOOLEAN /\ fd \in BOOLEAN /\ closes \in Nat
    /\ returned \in {"", "ok", "removed", "left"}
    /\ reading \in {"idle", "busy", "ok", "error"} /\ name \in Names

\* The file of an unfinished write, or of one that returned OK, is Filename's.
WritesFilename ==
    (writing # "idle" \/ returned = "ok") => inode > 0 /\ Directory[Filename] = inode

\* Nothing of the past is left of f, and all of it is durable.
Durable(f) == f.buf = << >> /\ f.synced = Len(f.disk) /\ f.saved = {}

\* How far a write has come.
WriteOK ==
    /\ writing # "idle" => returned = "" /\ data \in Contents
    /\ writing = "append" => inodes[inode].buf = << >> /\ inodes[inode].disk = << >>
    /\ writing \in {"append", "sync", "close"} => fd /\ closes = 0
    /\ writing = "sync" => should_sync
    /\ writing \in {"sync", "close"} => inodes[inode].disk \o inodes[inode].buf = data
    /\ (writing = "close" /\ should_sync) => Durable(inodes[inode])
    /\ writing = "delete" => /\ closes = IF fd THEN 0 ELSE 1
                             /\ status => ~fd
    /\ writing = "remove" => closes = 1
    /\ (writing = "delete" /\ status) \/ returned = "ok" =>
           /\ inodes[inode].buf = << >> /\ inodes[inode].disk = data /\ data \in Contents
           /\ should_sync => Durable(inodes[inode])

\* A file that a crash may leave under Target is never written again.
TargetApart ==
    \A k \in 1 .. Len(entries) :
        entries[k][Target] # 0 => entries[k][Target] \notin {entries[k][Filename], Directory[Filename]}

\* The reader of Target has read a part of a string that stays as it is.
ReadOK ==
    (reading = "busy" /\ name = Target) =>
        /\ from \in 1 .. Len(inodes) /\ from # Directory[Filename]
        /\ inodes[from].disk \in Contents
        /\ position \in 0 .. Len(inodes[from].disk)
        /\ result = SubSeq(inodes[from].disk, 1, position)

WholeInv ==
    /\ WholeTypeOK /\ WritesFilename /\ WriteOK /\ TargetApart /\ ReadOK
    /\ WrittenOrGone /\ ReplaceIsAtomic /\ ReadIsWhole

---------------------------------------------------------------------------
(* Sequences of bytes.                                                     *)

\* The strings that are written are made of bytes.
LEMMA ContentsAreBytes == Contents \subseteq Seq(Bytes)
<1> SUFFICES ASSUME NEW d \in Contents PROVE d \in Seq(Bytes)
  OBVIOUS
<1> DEFINE own == { d[i] : i \in 1 .. Len(d) }
<1>1. d \in Seq(own)
  BY ContentsAssumption
<1>2. own \subseteq Bytes
  BY DEF Bytes
<1> HIDE DEF own
<1>3. QED
  BY <1>1, <1>2

\* A string is its first n bytes and the others.
LEMMA Halves ==
    ASSUME NEW S, NEW s \in Seq(S), NEW n \in 0 .. Len(s)
    PROVE  /\ SubSeq(s, 1, n) \in Seq(S) /\ Len(SubSeq(s, 1, n)) = n
           /\ SubSeq(s, n + 1, Len(s)) \in Seq(S)
           /\ Len(SubSeq(s, n + 1, Len(s))) = Len(s) - n
           /\ SubSeq(s, 1, n) \o SubSeq(s, n + 1, Len(s)) = s
<1>1. Len(s) \in Nat /\ n \in Nat /\ 1 \in 1 .. Len(s) + 1 /\ n \in 1 - 1 .. Len(s)
      /\ Len(s) \in n .. Len(s)
  OBVIOUS
<1>2. SubSeq(s, 1, n) \o SubSeq(s, n + 1, Len(s)) = SubSeq(s, 1, Len(s))
  BY <1>1, ConcatAdjacentSubSeq
<1>3. SubSeq(s, 1, Len(s)) = s
  BY SubSeqFull
<1>4. \A i \in 1 .. Len(s) : s[i] \in S
  OBVIOUS
<1>5. \A i \in 1 .. n : s[i] \in S
  BY <1>1, <1>4
<1>6. \A i \in n + 1 .. Len(s) : s[i] \in S
  BY <1>1, <1>4
<1>7. SubSeq(s, 1, n) \in Seq(S) /\ Len(SubSeq(s, 1, n)) = IF 1 <= n THEN n - 1 + 1 ELSE 0
  BY <1>1, <1>5, SubSeqProperties
<1>8. /\ SubSeq(s, n + 1, Len(s)) \in Seq(S)
      /\ Len(SubSeq(s, n + 1, Len(s))) = IF n + 1 <= Len(s) THEN Len(s) - (n + 1) + 1 ELSE 0
  <2> DEFINE m == n + 1
  <2>1. m \in Int /\ Len(s) \in Int /\ \A i \in m .. Len(s) : s[i] \in S
    BY <1>1, <1>6
  <2> HIDE DEF m
  <2>2. SubSeq(s, m, Len(s)) \in Seq(S)
        /\ Len(SubSeq(s, m, Len(s))) = IF m <= Len(s) THEN Len(s) - m + 1 ELSE 0
    BY <2>1, SubSeqProperties
  <2>3. QED
    BY <2>2 DEF m
<1> DEFINE a == SubSeq(s, 1, n)
           b == SubSeq(s, n + 1, Len(s))
           l == Len(s)
<1>9. a \in Seq(S) /\ b \in Seq(S) /\ a \o b = s
  BY <1>2, <1>3, <1>7, <1>8
<1>10. Len(a) = n /\ Len(b) = l - n
  <2>1. l \in Nat /\ n \in 0 .. l
    BY <1>1
  <2>2. Len(a) = IF 1 <= n THEN n - 1 + 1 ELSE 0
    BY <1>7
  <2>3. Len(b) = IF n + 1 <= l THEN l - (n + 1) + 1 ELSE 0
    BY <1>8
  <2> HIDE DEF a, b, l
  <2>4. QED
    BY <2>1, <2>2, <2>3
<1>11. QED
  BY <1>9, <1>10

---------------------------------------------------------------------------
(* What the methods of a file leave.                                       *)

Sound(f) == f \in File /\ f.synced <= Len(f.disk)

\* WriteUnbuffered: all of the data if it returns OK, else a part of it.
LEMMA WriteLeaves ==
    ASSUME NEW f, Sound(f), NEW d \in Seq(Bytes), NEW r \in WriteUnbuffered(f, d, TRUE)
    PROVE  /\ Sound(r.file) /\ r.ok \in BOOLEAN
           /\ r = [file |-> r.file, ok |-> r.ok]
           /\ r.file.buf = f.buf /\ r.file.synced = f.synced /\ r.file.saved = f.saved
           /\ r.ok => r.file.disk = f.disk \o d
<1>1. PICK n \in 0 .. Len(d) :
        r = [file |-> [f EXCEPT !.disk = @ \o SubSeq(d, 1, n)], ok |-> n = Len(d)]
  BY DEF WriteUnbuffered
<1>2. SubSeq(d, 1, n) \in Seq(Bytes) /\ Len(SubSeq(d, 1, n)) = n
  BY Halves
<1>3. f.disk \in Seq(Bytes) /\ f.synced \in Nat
  BY DEF Sound, File
<1> DEFINE p == SubSeq(d, 1, n)
<1>4. f.disk \o p \in Seq(Bytes) /\ Len(f.disk \o p) = Len(f.disk) + n /\ Len(f.disk) \in Nat
  <2> HIDE DEF p
  <2>1. f.disk \o p \in Seq(Bytes) /\ Len(f.disk \o p) = Len(f.disk) + Len(p)
    BY <1>2, <1>3, ConcatProperties DEF p
  <2>2. QED
    BY <2>1, <1>2, <1>3, LenProperties DEF p
<1>5. n = Len(d) => SubSeq(d, 1, n) = d
  BY SubSeqFull
<1> DEFINE e == f.disk \o SubSeq(d, 1, n)
<1>6. r.file = [f EXCEPT !.disk = e] /\ r.ok = (n = Len(d)) /\ r = [file |-> r.file, ok |-> r.ok]
  BY <1>1 DEF Sound, File
<1>7. f.synced <= Len(e) /\ e \in Seq(Bytes) /\ (r.ok => e = f.disk \o d)
  <2>1. r.ok => e = f.disk \o d
    BY <1>5, <1>6
  <2>2. n \in Nat /\ f.synced \in Nat /\ f.synced <= Len(f.disk)
    BY <1>3 DEF Sound
  <2>3. Len(e) = Len(f.disk) + n /\ Len(f.disk) \in Nat /\ e \in Seq(Bytes)
    BY <1>4
  <2> HIDE DEF e
  <2>4. f.synced <= Len(e)
    BY <2>2, <2>3
  <2>5. QED
    BY <2>1, <2>3, <2>4
<1> HIDE DEF e
<1>8. QED
  BY <1>6, <1>7 DEF Sound, File

\* FlushBuffer: the buffer is empty afterwards, written or not.
LEMMA FlushLeaves ==
    ASSUME NEW f, Sound(f), NEW r \in FlushBuffer(f, TRUE)
    PROVE  /\ Sound(r.file) /\ r.ok \in BOOLEAN
           /\ r = [file |-> r.file, ok |-> r.ok]
           /\ r.file.buf = << >> /\ r.file.synced = f.synced /\ r.file.saved = f.saved
           /\ r.ok => r.file.disk = f.disk \o f.buf
<1>1. PICK w \in WriteUnbuffered(f, f.buf, TRUE) : r = [w EXCEPT !.file.buf = << >>]
  BY DEF FlushBuffer
<1>2. f.buf \in Seq(Bytes)
  BY DEF Sound, File
<1>3. /\ Sound(w.file) /\ w.ok \in BOOLEAN
      /\ w = [file |-> w.file, ok |-> w.ok]
      /\ w.file.synced = f.synced /\ w.file.saved = f.saved
      /\ w.ok => w.file.disk = f.disk \o f.buf
  BY <1>2, WriteLeaves
<1>4. r = [file |-> [w.file EXCEPT !.buf = << >>], ok |-> w.ok]
  BY <1>1, <1>3
<1>5. r.file = [w.file EXCEPT !.buf = << >>] /\ r.ok = w.ok /\ r = [file |-> r.file, ok |-> r.ok]
  BY <1>4
<1>6. << >> \in Seq(Bytes)
  BY EmptySeq
<1>7. r.file \in File /\ r.file.buf = << >> /\ r.file.disk = w.file.disk
      /\ r.file.synced = w.file.synced /\ r.file.saved = w.file.saved
  BY <1>3, <1>5, <1>6 DEF Sound, File
<1>8. QED
  BY <1>3, <1>5, <1>7 DEF Sound

\* To an empty file: what is written and what is kept in the buffer is the data.
LEMMA AppendLeaves ==
    ASSUME NEW f, Sound(f), f.buf = << >>, f.disk = << >>,
           NEW d \in Seq(Bytes), NEW r \in Append_(f, d, TRUE)
    PROVE  /\ Sound(r.file) /\ r.ok \in BOOLEAN
           /\ r.ok => r.file.disk \o r.file.buf = d
<1> DEFINE room == BufferSize - Len(f.buf)
           rest == SubSeq(d, room + 1, Len(d))
           head == SubSeq(d, 1, room)
           full == [f EXCEPT !.buf = @ \o head]
<1>1. room = BufferSize /\ BufferSize \in Nat /\ Len(d) \in Nat /\ << >> \in Seq(Bytes)
  BY BufferSizeAssumption, EmptySeq
<1>2. CASE Len(d) <= room
  <2>1. << >> \o d = d
    BY ConcatEmptySeq
  <2>2. r = Done([f EXCEPT !.buf = d])
    BY <1>2, <2>1 DEF Append_
  <2>3. r.file = [f EXCEPT !.buf = d] /\ r.ok = TRUE
    BY <2>2 DEF Done
  <2>4. r.file \in File /\ r.file.buf = d /\ r.file.disk = << >> /\ r.file.synced = f.synced
    BY <2>3 DEF Sound, File
  <2>5. QED
    BY <2>1, <2>3, <2>4 DEF Sound
<1>3. CASE ~(Len(d) <= room)
  <2>1. room \in 0 .. Len(d)
    BY <1>1, <1>3
  <2>2. head \in Seq(Bytes) /\ rest \in Seq(Bytes) /\ head \o rest = d
    <3> HIDE DEF room
    <3>1. QED
      BY <2>1, Halves
  <2>3. PICK w \in FlushBuffer(full, TRUE) :
          r \in IF ~w.ok THEN {w}
                ELSE IF Len(rest) < BufferSize
                THEN {Done([w.file EXCEPT !.buf = rest])}
                ELSE WriteUnbuffered(w.file, rest, TRUE)
    BY <1>3 DEF Append_
  <2> HIDE DEF head, rest, room
  <2>4. full = [f EXCEPT !.buf = head]
    BY <2>2, ConcatEmptySeq
  <2>5. Sound(full) /\ full.buf = head /\ full.disk = << >>
    BY <2>2, <2>4 DEF Sound, File
  <2> HIDE DEF full
  <2>6. /\ Sound(w.file) /\ w.ok \in BOOLEAN
        /\ w.file.buf = << >>
        /\ w.ok => w.file.disk = full.disk \o full.buf
    BY <2>5, FlushLeaves
  <2>7. w.ok => w.file.disk = head
    BY <2>2, <2>5, <2>6, ConcatEmptySeq
  <2>8. CASE ~w.ok
    BY <2>3, <2>6, <2>8
  <2>9. CASE w.ok /\ Len(rest) < BufferSize
    <3>1. r = Done([w.file EXCEPT !.buf = rest])
      BY <2>3, <2>9
    <3>2. r.file = [w.file EXCEPT !.buf = rest] /\ r.ok = TRUE
      BY <3>1 DEF Done
    <3>3. r.file \in File /\ r.file.buf = rest /\ r.file.disk = w.file.disk
          /\ r.file.synced = w.file.synced
      BY <2>2, <2>6, <3>2 DEF Sound, File
    <3>4. QED
      BY <2>2, <2>6, <2>7, <2>9, <3>2, <3>3 DEF Sound
  <2>10. CASE w.ok /\ ~(Len(rest) < BufferSize)
    <3>1. r \in WriteUnbuffered(w.file, rest, TRUE)
      BY <2>3, <2>10
    <3>2. /\ Sound(r.file) /\ r.ok \in BOOLEAN /\ r.file.buf = w.file.buf
          /\ r.ok => r.file.disk = w.file.disk \o rest
      BY <2>2, <2>6, <3>1, WriteLeaves
    <3>3. d \o << >> = d
      BY ConcatEmptySeq
    <3>4. QED
      BY <2>2, <2>6, <2>7, <2>10, <3>2, <3>3
  <2>11. QED
    BY <2>6, <2>8, <2>9, <2>10
<1>4. QED
  BY <1>2, <1>3

\* Sync: OK means the buffer is written and all of the file durable.
LEMMA SyncLeaves ==
    ASSUME NEW f, Sound(f), NEW r \in Sync(f, TRUE)
    PROVE  /\ Sound(r.file) /\ r.ok \in BOOLEAN
           /\ r = [file |-> r.file, ok |-> r.ok]
           /\ r.ok => /\ r.file.buf = << >> /\ r.file.disk = f.disk \o f.buf
                      /\ r.file.synced = Len(r.file.disk)
<1>1. CASE r \in SyncDirFails(f, TRUE)
  <2>1. r = [file |-> f, ok |-> FALSE]
    BY <1>1 DEF SyncDirFails
  <2>2. QED
    BY <2>1
<1>2. CASE r \notin SyncDirFails(f, TRUE)
  <2>1. PICK w \in FlushBuffer(f, TRUE) : r \in IF w.ok THEN SyncFd(w.file, TRUE) ELSE {w}
    BY <1>2 DEF Sync
  <2>2. /\ Sound(w.file) /\ w.ok \in BOOLEAN /\ w = [file |-> w.file, ok |-> w.ok]
        /\ w.file.buf = << >>
        /\ w.ok => w.file.disk = f.disk \o f.buf
    BY FlushLeaves
  <2>3. CASE ~w.ok \/ r = [file |-> w.file, ok |-> FALSE]
    <3>1. r.file = w.file /\ r.ok = FALSE /\ r = [file |-> r.file, ok |-> r.ok]
      <4>1. CASE ~w.ok
        <5>1. r = w
          BY <2>1, <4>1
        <5>2. QED
          BY <2>2, <4>1, <5>1, Zenon
      <4>2. CASE r = [file |-> w.file, ok |-> FALSE]
        BY <4>2
      <4>3. QED
        BY <2>3, <4>1, <4>2
    <3>2. QED
      BY <2>2, <3>1
  <2>4. CASE w.ok /\ r = Done([w.file EXCEPT !.synced = Len(w.file.disk)])
    <3>1. r.file = [w.file EXCEPT !.synced = Len(w.file.disk)] /\ r.ok = TRUE
          /\ r = [file |-> r.file, ok |-> r.ok]
      BY <2>4 DEF Done
    <3>2. w.file.disk \in Seq(Bytes) /\ Len(w.file.disk) \in Nat
      BY <2>2 DEF Sound, File
    <3>3. r.file \in File /\ r.file.synced = Len(w.file.disk) /\ r.file.disk = w.file.disk
          /\ r.file.buf = w.file.buf
      BY <2>2, <3>1, <3>2 DEF Sound, File
    <3>4. Sound(r.file)
      <4>1. Len(r.file.disk) = Len(w.file.disk)
        BY <3>3
      <4>2. QED
        BY <3>2, <3>3, <4>1 DEF Sound
    <3>5. QED
      BY <2>2, <2>4, <3>1, <3>3, <3>4, Zenon
  <2>5. QED
    BY <2>1, <2>2, <2>3, <2>4 DEF SyncFd
<1>3. QED
  BY <1>1, <1>2

\* Close: as FlushBuffer, but it may also fail afterwards.
LEMMA CloseLeaves ==
    ASSUME NEW f, Sound(f), NEW r \in Close(f, TRUE)
    PROVE  /\ Sound(r.file) /\ r.ok \in BOOLEAN
           /\ r.file.buf = << >> /\ r.file.synced = f.synced /\ r.file.saved = f.saved
           /\ r.ok => r.file.disk = f.disk \o f.buf
<1>1. PICK w \in FlushBuffer(f, TRUE) : r = w \/ r = [w EXCEPT !.ok = FALSE]
  BY DEF Close
<1>2. /\ Sound(w.file) /\ w.ok \in BOOLEAN /\ w = [file |-> w.file, ok |-> w.ok]
      /\ w.file.buf = << >> /\ w.file.synced = f.synced /\ w.file.saved = f.saved
      /\ w.ok => w.file.disk = f.disk \o f.buf
  BY FlushLeaves
<1>3. r = w \/ r = [file |-> w.file, ok |-> FALSE]
  BY <1>1, <1>2
<1>4. r = w \/ (r.file = w.file /\ r.ok = FALSE)
  BY <1>3
<1>5. QED
  BY <1>2, <1>4

---------------------------------------------------------------------------
(* Steps.                                                                  *)

\* What the type invariant says of the names and of the files.
LEMMA DirectoryTyped ==
    ASSUME WholeTypeOK
    PROVE  /\ Len(entries) \in 1 .. Len(entries) /\ Len(inodes) \in Nat
           /\ Directory \in [Names -> 0 .. Len(inodes)]
           /\ \A k \in 1 .. Len(entries) : entries[k] \in [Names -> 0 .. Len(inodes)]
           /\ \A i \in 1 .. Len(inodes) : Sound(inodes[i])
<1>1. Len(entries) \in 1 .. Len(entries) /\ Len(inodes) \in Nat
  <2>1. Len(entries) \in Nat /\ Len(inodes) \in Nat
    BY LenProperties DEF WholeTypeOK
  <2>2. Len(entries) > 0
    BY DEF WholeTypeOK
  <2>3. QED
    BY <2>1, <2>2
<1>2. \A k \in 1 .. Len(entries) : entries[k] \in [Names -> 0 .. Len(inodes)]
  <2>1. entries \in Seq([Names -> 0 .. Len(inodes)])
    BY DEF WholeTypeOK, Names
  <2>2. QED
    BY <2>1, ElementOfSeq
<1>3. \A i \in 1 .. Len(inodes) : Sound(inodes[i])
  <2>1. inodes \in Seq(File)
    BY DEF WholeTypeOK
  <2>2. \A i \in 1 .. Len(inodes) : inodes[i] \in File
    BY <2>1, ElementOfSeq
  <2>3. QED
    BY <2>2 DEF WholeTypeOK, Sound
<1>4. QED
  BY <1>1, <1>2, <1>3 DEF Directory

\* A crash may leave a file as it is; one that is durable it leaves so.
LEMMA RemainsTyped ==
    ASSUME NEW f, Sound(f)
    PROVE  /\ f.disk \in Remains(f) /\ Remains(f) \subseteq Seq(Bytes)
           /\ Durable(f) => Remains(f) = {f.disk}
<1>1. /\ f.disk \in Seq(Bytes) /\ Len(f.disk) \in Nat /\ f.synced \in Nat
      /\ f.synced <= Len(f.disk) /\ f.saved \subseteq Seq(Bytes)
  BY DEF Sound, File
<1>2. SubSeq(f.disk, 1, Len(f.disk)) = f.disk
  BY <1>1, SubSeqFull
<1>3. f.disk \in Remains(f)
  <2>1. Len(f.disk) \in f.synced .. Len(f.disk)
    BY <1>1
  <2>2. QED
    BY <1>2, <2>1 DEF Remains
<1>4. \A n \in f.synced .. Len(f.disk) : SubSeq(f.disk, 1, n) \in Seq(Bytes)
  <2>1. TAKE n \in f.synced .. Len(f.disk)
  <2>2. n \in 0 .. Len(f.disk)
    BY <1>1
  <2>3. QED
    BY <1>1, <2>2, Halves
<1>5. Remains(f) \subseteq Seq(Bytes)
  BY <1>1, <1>4 DEF Remains
<1>6. ASSUME Durable(f) PROVE Remains(f) = {f.disk}
  <2>1. f.synced .. Len(f.disk) = {Len(f.disk)}
    BY <1>1, <1>6 DEF Durable
  <2>2. QED
    BY <1>2, <1>6, <2>1 DEF Remains, Durable
<1>7. QED
  BY <1>3, <1>5, <1>6

\* Writing the file of Filename, whatever becomes of it, disturbs neither Target
\* nor its reader; nor does syncing the directory.
LEMMA WritesApart ==
    ASSUME WholeInv, Directory[Filename] > 0, NEW g, Sound(g),
           inodes' = [inodes EXCEPT ![Directory[Filename]] = g],
           entries' \in {entries, <<Directory>>}, UNCHANGED readVars
    PROVE  /\ inodes' \in Seq(File) /\ Len(inodes') = Len(inodes)
           /\ inodes'[Directory[Filename]] = g
           /\ \A i \in 1 .. Len(inodes') : inodes'[i].synced <= Len(inodes'[i].disk)
           /\ entries' \in Seq([Names -> 0 .. Len(inodes')]) /\ Len(entries') > 0
           /\ Directory' = Directory
           /\ TargetApart' /\ ReadOK' /\ ReplaceIsAtomic' /\ ReadIsWhole'
<1> DEFINE own == Directory[Filename]
<1>1. /\ Len(entries) \in 1 .. Len(entries) /\ Len(inodes) \in Nat
      /\ Directory \in [Names -> 0 .. Len(inodes)]
      /\ \A k \in 1 .. Len(entries) : entries[k] \in [Names -> 0 .. Len(inodes)]
      /\ \A i \in 1 .. Len(inodes) : Sound(inodes[i])
  BY DirectoryTyped DEF WholeInv
<1>2. own \in 1 .. Len(inodes)
  BY <1>1 DEF Names
<1>3. inodes \in Seq(File) /\ g \in File
  BY DEF WholeInv, WholeTypeOK, Sound
<1> HIDE DEF own
<1>4. /\ inodes' \in Seq(File) /\ Len(inodes') = Len(inodes)
      /\ \A j \in 1 .. Len(inodes) : inodes'[j] = IF j = own THEN g ELSE inodes[j]
  <2>1. inodes' = [inodes EXCEPT ![own] = g]
    BY DEF own
  <2> DEFINE t == [inodes EXCEPT ![own] = g]
  <2>2. /\ t \in Seq(File) /\ Len(t) = Len(inodes)
        /\ \A j \in 1 .. Len(inodes) : t[j] = IF j = own THEN g ELSE inodes[j]
    BY <1>2, <1>3, ExceptSeq
  <2>3. inodes' = t
    BY <2>1
  <2> HIDE DEF t
  <2>4. QED
    BY <2>2, <2>3
<1>5. \A i \in 1 .. Len(inodes') : inodes'[i].synced <= Len(inodes'[i].disk)
  BY <1>1, <1>4 DEF Sound
<1>6. Directory' = Directory /\ entries' \in Seq([Names -> 0 .. Len(inodes')]) /\ Len(entries') > 0
  <2>1. CASE entries' = entries
    BY <1>1, <1>4, <2>1 DEF WholeInv, WholeTypeOK, Names, Directory
  <2>2. CASE entries' = <<Directory>>
    <3>1. entries' \in Seq([Names -> 0 .. Len(inodes)]) /\ Len(entries') = 1 /\ entries'[1] = Directory
      BY <1>1, <2>2
    <3>2. QED
      BY <1>4, <3>1 DEF Directory
  <2>3. QED
    BY <2>1, <2>2
<1>7. \A k \in 1 .. Len(entries') : \E j \in 1 .. Len(entries) : entries'[k] = entries[j]
  <2>1. CASE entries' = entries
    BY <2>1
  <2>2. CASE entries' = <<Directory>>
    <3>1. Len(entries') = 1 /\ entries'[1] = entries[Len(entries)]
      BY <2>2 DEF Directory
    <3>2. QED
      BY <1>1, <3>1
  <2>3. QED
    BY <2>1, <2>2
<1>8. \A j \in 1 .. Len(entries) : entries[j][Target] # 0 =>
         /\ entries[j][Target] \in 1 .. Len(inodes)
         /\ entries[j][Target] # entries[j][Filename] /\ entries[j][Target] # own
         /\ Remains(inodes[entries[j][Target]]) \subseteq Contents
  BY <1>1 DEF WholeInv, TargetApart, ReplaceIsAtomic, own, Names
<1>9. TargetApart'
  <2> SUFFICES ASSUME NEW k \in 1 .. Len(entries'), entries'[k][Target] # 0
               PROVE  entries'[k][Target] \notin {entries'[k][Filename], Directory'[Filename]}
    BY DEF TargetApart
  <2>1. PICK j \in 1 .. Len(entries) : entries'[k] = entries[j]
    BY <1>7
  <2>2. QED
    BY <1>6, <1>8, <2>1 DEF own
<1>10. ReplaceIsAtomic'
  <2> SUFFICES ASSUME NEW k \in 1 .. Len(entries'), entries'[k][Target] # 0
               PROVE  Remains(inodes'[entries'[k][Target]]) \subseteq Contents
    BY DEF ReplaceIsAtomic, Remains
  <2>1. PICK j \in 1 .. Len(entries) : entries'[k] = entries[j]
    BY <1>7
  <2>2. inodes'[entries'[k][Target]] = inodes[entries[j][Target]]
    BY <1>4, <1>8, <2>1
  <2>3. QED
    BY <1>8, <2>1, <2>2
<1>11. ReadOK'
  <2>1. reading' = reading /\ name' = name /\ from' = from /\ position' = position /\ result' = result
    BY DEF readVars
  <2>2. CASE reading = "busy" /\ name = Target
    <3>1. from \in 1 .. Len(inodes) /\ from # own
      BY <2>2 DEF WholeInv, ReadOK, own
    <3>2. inodes'[from] = inodes[from]
      BY <1>4, <3>1
    <3>3. QED
      BY <1>4, <1>6, <2>1, <2>2, <3>1, <3>2 DEF WholeInv, ReadOK
  <2>3. QED
    BY <2>1, <2>2 DEF ReadOK
<1>12. ReadIsWhole'
  BY DEF WholeInv, ReadIsWhole, readVars
<1>13. QED
  BY <1>2, <1>4, <1>5, <1>6, <1>9, <1>10, <1>11, <1>12 DEF own

\* What a step of the writer leaves to show, when it writes only Filename's file.
LEMMA WriterStep ==
    ASSUME WholeInv, inode' > 0, Directory[Filename] = inode', NEW g, Sound(g),
           inodes' = [inodes EXCEPT ![inode'] = g],
           entries' \in {entries, <<Directory>>}, UNCHANGED readVars,
           writing' \in {"idle", "append", "sync", "close", "delete", "remove"},
           data' \in Contents, should_sync' \in BOOLEAN, status' \in BOOLEAN,
           fd' \in BOOLEAN, closes' \in Nat, returned' \in {"", "ok"},
           returned' = "ok" => closes' = 1,
           inodes'[inode'] = g => WriteOK'
    PROVE  WholeInv'
<1>1. /\ inodes' \in Seq(File) /\ Len(inodes') = Len(inodes)
      /\ inodes'[Directory[Filename]] = g
      /\ \A i \in 1 .. Len(inodes') : inodes'[i].synced <= Len(inodes'[i].disk)
      /\ entries' \in Seq([Names -> 0 .. Len(inodes')]) /\ Len(entries') > 0
      /\ Directory' = Directory
      /\ TargetApart' /\ ReadOK' /\ ReplaceIsAtomic' /\ ReadIsWhole'
  <2>1. Directory[Filename] > 0
    OBVIOUS
  <2>2. inodes' = [inodes EXCEPT ![Directory[Filename]] = g]
    OBVIOUS
  <2>3. QED
    BY <2>1, <2>2, WritesApart
<1>2. WholeTypeOK'
  <2>1. reading' \in {"idle", "busy", "ok", "error"} /\ name' \in Names
    BY DEF WholeInv, WholeTypeOK, readVars
  <2>2. QED
    BY <1>1, <2>1 DEF WholeTypeOK
<1>3. WritesFilename'
  BY <1>1 DEF WritesFilename
<1>4. WriteOK'
  BY <1>1
<1>5. WrittenOrGone'
  BY <1>1, <1>4 DEF WrittenOrGone, WriteOK
<1>6. QED
  BY <1>1, <1>2, <1>3, <1>4, <1>5 DEF WholeInv

\* NewWritableFile takes a new file, or truncates the one that Filename has.
LEMMA OpenStep ==
    ASSUME WholeInv, NEW d \in Contents, NEW sync \in BOOLEAN, NewWritableFile(d, sync)
    PROVE  WholeInv'
<1>1. /\ Len(entries) \in 1 .. Len(entries) /\ Len(inodes) \in Nat
      /\ Directory \in [Names -> 0 .. Len(inodes)]
      /\ \A k \in 1 .. Len(entries) : entries[k] \in [Names -> 0 .. Len(inodes)]
      /\ \A i \in 1 .. Len(inodes) : Sound(inodes[i])
  BY DirectoryTyped DEF WholeInv
<1>2. /\ writing' = "append" /\ data' = d /\ should_sync' = sync /\ status' = TRUE /\ fd' = TRUE
      /\ closes' = 0 /\ returned' = "" /\ UNCHANGED readVars /\ OpenTruncated
  BY DEF NewWritableFile
<1> DEFINE new(s) == [buf |-> << >>, disk |-> << >>, synced |-> 0, saved |-> s]
<1>3. ASSUME NEW s \in SUBSET Seq(Bytes) PROVE Sound(new(s)) /\ new(s).buf = << >> /\ new(s).disk = << >>
  BY EmptySeq DEF Sound, File
<1>4. ASSUME NEW s, inodes'[inode'] = new(s) PROVE WriteOK'
  <2>1. inodes'[inode'].buf = << >> /\ inodes'[inode'].disk = << >>
    BY <1>4
  <2>2. QED
    BY <1>2, <2>1 DEF WriteOK, Durable
<1>5. CASE Directory[Filename] # 0
  <2> DEFINE i == Directory[Filename]
             s == Remains(inodes[i])
  <2>1. i \in 1 .. Len(inodes)
    BY <1>1, <1>5 DEF Names
  <2>2. s \in SUBSET Seq(Bytes)
    BY <1>1, <2>1, RemainsTyped
  <2>3. inode' = i /\ inodes' = [inodes EXCEPT ![i] = new(s)] /\ entries' = entries
    BY <1>2, <1>5, <2>1 DEF OpenTruncated
  <2> HIDE DEF s, new
  <2>4. Sound(new(s)) /\ (inodes'[inode'] = new(s) => WriteOK')
    BY <1>3, <1>4, <2>2
  <2>5. /\ inode' > 0 /\ Directory[Filename] = inode' /\ inodes' = [inodes EXCEPT ![inode'] = new(s)]
        /\ entries' \in {entries, <<Directory>>}
    BY <2>1, <2>3
  <2>6. /\ writing' \in {"idle", "append", "sync", "close", "delete", "remove"}
        /\ data' \in Contents /\ should_sync' \in BOOLEAN /\ status' \in BOOLEAN
        /\ fd' \in BOOLEAN /\ closes' \in Nat /\ returned' \in {"", "ok"}
        /\ returned' = "ok" => closes' = 1
    BY <1>2
  <2>7. QED
    BY <1>2, <2>4, <2>5, <2>6, WriterStep
<1>6. CASE Directory[Filename] = 0
  <2> DEFINE i == Len(inodes) + 1
             D == [Directory EXCEPT ![Filename] = i]
  <2>1. inode' = i /\ inodes' = Append(inodes, new({})) /\ entries' = Append(entries, D)
    BY <1>2, <1>6 DEF OpenTruncated, Rebind
  <2>2. Sound(new({})) /\ inodes \in Seq(File)
    BY <1>3 DEF WholeInv, WholeTypeOK
  <2> HIDE DEF new
  <2>3. /\ inodes' \in Seq(File) /\ Len(inodes') = i /\ inodes'[i] = new({})
        /\ \A j \in 1 .. Len(inodes) : inodes'[j] = inodes[j]
    BY <2>1, <2>2, AppendProperties DEF Sound
  <2>4. /\ D \in [Names -> 0 .. i] /\ D[Filename] = i /\ D[Target] = Directory[Target]
    BY <1>1, NamesAssumption DEF Names
  <2> HIDE DEF D
  <2>5. /\ entries' \in Seq([Names -> 0 .. i]) /\ Len(entries') = Len(entries) + 1
        /\ entries'[Len(entries) + 1] = D
        /\ \A k \in 1 .. Len(entries) : entries'[k] = entries[k]
    <3>1. entries \in Seq([Names -> 0 .. i])
      <4>1. entries \in Seq([Names -> 0 .. Len(inodes)])
        BY DEF WholeInv, WholeTypeOK
      <4>2. [Names -> 0 .. Len(inodes)] \subseteq [Names -> 0 .. i]
        BY <1>1
      <4>3. QED
        BY <4>1, <4>2
    <3>2. QED
      BY <2>1, <2>4, <3>1, AppendProperties
  <2>6. Directory' = D
    BY <2>5 DEF Directory
  <2>7. WriteOK'
    BY <1>4, <2>1, <2>3
  <2>8. WholeTypeOK'
    <3>1. reading' \in {"idle", "busy", "ok", "error"} /\ name' \in Names
      BY <1>2 DEF WholeInv, WholeTypeOK, readVars
    <3>2. \A j \in 1 .. Len(inodes') : inodes'[j].synced <= Len(inodes'[j].disk)
      <4>1. TAKE j \in 1 .. Len(inodes')
      <4>2. Sound(inodes'[j])
        <5>1. j \in 1 .. Len(inodes) \/ j = i
          BY <1>1, <2>3
        <5>2. QED
          BY <1>1, <2>2, <2>3, <5>1
      <4>3. QED
        BY <4>2 DEF Sound
    <3>3. Len(entries') > 0
      BY <1>1, <2>5
    <3>4. QED
      BY <1>2, <2>3, <2>5, <3>1, <3>2, <3>3 DEF WholeTypeOK
  <2>9. WritesFilename'
    BY <1>1, <2>1, <2>4, <2>6 DEF WritesFilename
  <2>10. ASSUME NEW k \in 1 .. Len(entries'), entries'[k][Target] # 0
         PROVE  \E j \in 1 .. Len(entries) :
                   /\ entries'[k][Target] = entries[j][Target]
                   /\ entries'[k][Filename] \in {entries[j][Filename], i}
    <3>1. CASE k \in 1 .. Len(entries)
      BY <2>5, <3>1
    <3>2. CASE k = Len(entries) + 1
      BY <1>1, <2>4, <2>5, <3>2 DEF Directory
    <3>3. QED
      BY <1>1, <2>5, <3>1, <3>2
  <2>11. \A j \in 1 .. Len(entries) : entries[j][Target] # 0 =>
            /\ entries[j][Target] \in 1 .. Len(inodes)
            /\ entries[j][Target] # entries[j][Filename]
            /\ Remains(inodes[entries[j][Target]]) \subseteq Contents
    BY <1>1 DEF WholeInv, TargetApart, ReplaceIsAtomic, Names
  <2>12. TargetApart'
    <3> SUFFICES ASSUME NEW k \in 1 .. Len(entries'), entries'[k][Target] # 0
                 PROVE  entries'[k][Target] \notin {entries'[k][Filename], Directory'[Filename]}
      BY DEF TargetApart
    <3>1. PICK j \in 1 .. Len(entries) : /\ entries'[k][Target] = entries[j][Target]
                                         /\ entries'[k][Filename] \in {entries[j][Filename], i}
      BY <2>10
    <3>2. entries[j][Target] \in 1 .. Len(inodes) /\ entries[j][Target] # entries[j][Filename]
      BY <2>11, <3>1
    <3>3. entries[j][Target] # i
      BY <1>1, <3>2
    <3>4. QED
      BY <2>4, <2>6, <3>1, <3>2, <3>3
  <2>13. ReplaceIsAtomic'
    <3> SUFFICES ASSUME NEW k \in 1 .. Len(entries'), entries'[k][Target] # 0
                 PROVE  Remains(inodes'[entries'[k][Target]]) \subseteq Contents
      BY DEF ReplaceIsAtomic, Remains
    <3>1. PICK j \in 1 .. Len(entries) : entries'[k][Target] = entries[j][Target]
      BY <2>10
    <3>2. QED
      BY <2>3, <2>11, <3>1
  <2>14. ReadOK'
    <3>1. reading' = reading /\ name' = name /\ from' = from /\ position' = position /\ result' = result
      BY <1>2 DEF readVars
    <3>2. CASE reading = "busy" /\ name = Target
      <4>1. from \in 1 .. Len(inodes)
        BY <3>2 DEF WholeInv, ReadOK
      <4>2. inodes'[from] = inodes[from] /\ from # i /\ from \in 1 .. Len(inodes')
        BY <1>1, <2>3, <4>1
      <4>3. QED
        BY <2>4, <2>6, <3>1, <3>2, <4>2 DEF WholeInv, ReadOK
    <3>3. QED
      BY <3>1, <3>2 DEF ReadOK
  <2>15. ReadIsWhole' /\ WrittenOrGone'
    BY <1>2 DEF WholeInv, ReadIsWhole, WrittenOrGone, readVars
  <2>16. QED
    BY <2>7, <2>8, <2>9, <2>12, <2>13, <2>14, <2>15 DEF WholeInv
<1>7. QED
  BY <1>5, <1>6

\* What the invariant says of the file that is being written.
LEMMA OwnFile ==
    ASSUME WholeInv, writing # "idle"
    PROVE  /\ inode > 0 /\ Directory[Filename] = inode /\ Sound(inodes[inode])
           /\ data \in Contents /\ data \in Seq(Bytes) /\ returned = ""
           /\ should_sync \in BOOLEAN /\ fd \in BOOLEAN /\ status \in BOOLEAN
<1>1. inode > 0 /\ Directory[Filename] = inode
  BY DEF WholeInv, WritesFilename
<1>2. /\ Len(inodes) \in Nat /\ Directory \in [Names -> 0 .. Len(inodes)]
      /\ \A i \in 1 .. Len(inodes) : Sound(inodes[i])
  BY DirectoryTyped DEF WholeInv
<1>3. inode \in 1 .. Len(inodes)
  BY <1>1, <1>2 DEF Names
<1>4. data \in Contents /\ returned = ""
  BY DEF WholeInv, WriteOK
<1>5. QED
  BY <1>1, <1>2, <1>3, <1>4, ContentsAreBytes DEF WholeInv, WholeTypeOK

\* AppendData writes to that file.
LEMMA AppendStep ==
    ASSUME WholeInv, AppendData
    PROVE  WholeInv'
<1>1. PICK r \in Append_(inodes[inode], data, TRUE) :
        /\ inodes' = [inodes EXCEPT ![inode] = r.file] /\ status' = r.ok
        /\ writing' = IF r.ok THEN IF should_sync THEN "sync" ELSE "close" ELSE "delete"
  BY DEF AppendData, Method
<1>2. /\ writing = "append" /\ entries' = entries /\ fd' = fd /\ closes' = closes /\ data' = data
      /\ should_sync' = should_sync /\ inode' = inode /\ returned' = returned /\ UNCHANGED readVars
  BY DEF AppendData, Method
<1>3. /\ inode > 0 /\ Directory[Filename] = inode /\ Sound(inodes[inode])
      /\ data \in Contents /\ data \in Seq(Bytes) /\ returned = ""
      /\ should_sync \in BOOLEAN
  BY <1>2, OwnFile
<1>4. inodes[inode].buf = << >> /\ inodes[inode].disk = << >> /\ fd = TRUE /\ closes = 0
  BY <1>2 DEF WholeInv, WriteOK, WholeTypeOK
<1>5. /\ Sound(r.file) /\ r.ok \in BOOLEAN
      /\ r.ok => r.file.disk \o r.file.buf = data
  BY <1>3, <1>4, AppendLeaves
<1>6. inodes'[inode'] = r.file => WriteOK'
  <2> SUFFICES ASSUME inodes'[inode'] = r.file PROVE WriteOK'
    OBVIOUS
  <2>1. CASE r.ok /\ should_sync
    BY <1>1, <1>2, <1>3, <1>4, <1>5, <2>1 DEF WriteOK, Durable
  <2>2. CASE r.ok /\ ~should_sync
    BY <1>1, <1>2, <1>3, <1>4, <1>5, <2>2 DEF WriteOK, Durable
  <2>3. CASE ~r.ok
    BY <1>1, <1>2, <1>3, <1>4, <1>5, <2>3 DEF WriteOK, Durable
  <2>4. QED
    BY <1>3, <1>5, <2>1, <2>2, <2>3
<1>7. /\ inode' > 0 /\ Directory[Filename] = inode' /\ inodes' = [inodes EXCEPT ![inode'] = r.file]
      /\ entries' \in {entries, <<Directory>>}
  BY <1>1, <1>2, <1>3
<1>8. /\ writing' \in {"idle", "append", "sync", "close", "delete", "remove"}
      /\ data' \in Contents /\ should_sync' \in BOOLEAN /\ status' \in BOOLEAN
      /\ fd' \in BOOLEAN /\ closes' \in Nat /\ returned' \in {"", "ok"}
      /\ returned' = "ok" => closes' = 1
  BY <1>1, <1>2, <1>3, <1>4, <1>5
<1>9. QED
  BY <1>2, <1>5, <1>6, <1>7, <1>8, WriterStep

\* So does SyncData, and it may sync the directory.
LEMMA SyncStep ==
    ASSUME WholeInv, SyncData
    PROVE  WholeInv'
<1>1. PICK w \in Sync(inodes[inode], TRUE) : \E r :
        /\ r = IF w.ok THEN [w EXCEPT !.file.saved = {}] ELSE w
        /\ inodes' = [inodes EXCEPT ![inode] = r.file] /\ status' = r.ok
        /\ writing' = IF r.ok THEN "close" ELSE "delete"
  BY DEF SyncData, Method
<1>2. /\ writing = "sync" /\ entries' \in {entries, <<Directory>>} /\ fd' = fd /\ closes' = closes
      /\ data' = data /\ should_sync' = should_sync /\ inode' = inode /\ returned' = returned
      /\ UNCHANGED readVars
  BY DEF SyncData, Method, DirectorySynced
<1>3. /\ inode > 0 /\ Directory[Filename] = inode /\ Sound(inodes[inode])
      /\ data \in Contents /\ data \in Seq(Bytes) /\ returned = ""
      /\ should_sync \in BOOLEAN
  BY <1>2, OwnFile
<1>4. inodes[inode].disk \o inodes[inode].buf = data /\ fd = TRUE /\ closes = 0 /\ should_sync
  BY <1>2 DEF WholeInv, WriteOK, WholeTypeOK
<1>5. /\ Sound(w.file) /\ w.ok \in BOOLEAN
      /\ w = [file |-> w.file, ok |-> w.ok]
      /\ w.ok => /\ w.file.buf = << >> /\ w.file.disk = data
                 /\ w.file.synced = Len(w.file.disk)
  BY <1>3, <1>4, SyncLeaves
<1>6. PICK r : /\ r = IF w.ok THEN [w EXCEPT !.file.saved = {}] ELSE w
               /\ inodes' = [inodes EXCEPT ![inode] = r.file] /\ status' = r.ok
               /\ writing' = IF r.ok THEN "close" ELSE "delete"
  BY <1>1
<1>7. /\ r.ok = w.ok /\ Sound(r.file)
      /\ r.ok => /\ r.file.disk = data /\ Durable(r.file)
  <2>1. CASE ~w.ok
    BY <1>5, <1>6, <2>1
  <2>2. CASE w.ok
    <3>1. r = [file |-> [w.file EXCEPT !.saved = {}], ok |-> w.ok]
      BY <1>5, <1>6, <2>2
    <3>2. r.file = [w.file EXCEPT !.saved = {}] /\ r.ok = w.ok
      BY <3>1
    <3>3. r.file \in File /\ r.file.disk = w.file.disk /\ r.file.buf = w.file.buf
          /\ r.file.synced = w.file.synced /\ r.file.saved = {}
      BY <1>5, <3>2 DEF Sound, File
    <3>4. QED
      BY <1>5, <2>2, <3>2, <3>3 DEF Sound, Durable
  <2>3. QED
    BY <1>5, <2>1, <2>2
<1>8. inodes'[inode'] = r.file => WriteOK'
  <2> SUFFICES ASSUME inodes'[inode'] = r.file PROVE WriteOK'
    OBVIOUS
  <2>1. CASE r.ok
    <3>1. data \o << >> = data
      BY <1>3, ConcatEmptySeq
    <3>2. r.file.disk \o r.file.buf = data /\ r.file.buf = << >>
      BY <1>7, <2>1, <3>1 DEF Durable
    <3>3. QED
      BY <1>2, <1>3, <1>4, <1>6, <1>7, <2>1, <3>2 DEF WriteOK, Durable
  <2>2. CASE ~r.ok
    BY <1>2, <1>3, <1>4, <1>6, <1>7, <2>2 DEF WriteOK, Durable
  <2>3. QED
    BY <1>5, <1>7, <2>1, <2>2
<1>9. /\ inode' > 0 /\ Directory[Filename] = inode' /\ inodes' = [inodes EXCEPT ![inode'] = r.file]
  BY <1>6, <1>2, <1>3
<1>10. /\ writing' \in {"idle", "append", "sync", "close", "delete", "remove"}
       /\ data' \in Contents /\ should_sync' \in BOOLEAN /\ status' \in BOOLEAN
       /\ fd' \in BOOLEAN /\ closes' \in Nat /\ returned' \in {"", "ok"}
       /\ returned' = "ok" => closes' = 1
  BY <1>2, <1>3, <1>4, <1>5, <1>6, <1>7
<1>11. QED
  BY <1>2, <1>7, <1>8, <1>9, <1>10, WriterStep

\* CloseData is the first to close the descriptor.
LEMMA CloseStep ==
    ASSUME WholeInv, CloseData
    PROVE  WholeInv'
<1>1. PICK r \in Close(inodes[inode], TRUE) :
        /\ inodes' = [inodes EXCEPT ![inode] = r.file] /\ status' = r.ok
        /\ writing' = "delete"
  BY DEF CloseData, Method
<1>2. /\ writing = "close" /\ entries' = entries /\ fd' = FALSE /\ closes' = closes + 1 /\ data' = data
      /\ should_sync' = should_sync /\ inode' = inode /\ returned' = returned /\ UNCHANGED readVars
  BY DEF CloseData, Method
<1>3. /\ inode > 0 /\ Directory[Filename] = inode /\ Sound(inodes[inode])
      /\ data \in Contents /\ data \in Seq(Bytes) /\ returned = ""
      /\ should_sync \in BOOLEAN
  BY <1>2, OwnFile
<1>4. /\ inodes[inode].disk \o inodes[inode].buf = data /\ closes = 0
      /\ should_sync => Durable(inodes[inode])
  BY <1>2 DEF WholeInv, WriteOK, WholeTypeOK
<1>5. closes' = 1
  BY <1>2, <1>4
<1>6. /\ Sound(r.file) /\ r.ok \in BOOLEAN
      /\ r.file.buf = << >> /\ r.file.synced = inodes[inode].synced /\ r.file.saved = inodes[inode].saved
      /\ r.ok => r.file.disk = data
  BY <1>3, <1>4, CloseLeaves
<1>7. (r.ok /\ should_sync) => Durable(r.file)
  <2> SUFFICES ASSUME r.ok, should_sync PROVE Durable(r.file)
    OBVIOUS
  <2>1. inodes[inode].buf = << >> /\ inodes[inode].synced = Len(inodes[inode].disk)
        /\ inodes[inode].saved = {} /\ inodes[inode].disk \in Seq(Bytes)
    BY <1>3, <1>4 DEF Durable, Sound, File
  <2>2. inodes[inode].disk = data
    BY <1>4, <2>1, ConcatEmptySeq
  <2>3. QED
    BY <1>6, <2>1, <2>2 DEF Durable
<1>8. inodes'[inode'] = r.file => WriteOK'
  <2> SUFFICES ASSUME inodes'[inode'] = r.file PROVE WriteOK'
    OBVIOUS
  <2>1. CASE r.ok
    BY <1>1, <1>2, <1>3, <1>4, <1>5, <1>6, <1>7, <2>1 DEF WriteOK, Durable
  <2>2. CASE ~r.ok
    BY <1>1, <1>2, <1>3, <1>4, <1>5, <1>6, <2>2 DEF WriteOK, Durable
  <2>3. QED
    BY <1>6, <2>1, <2>2
<1>9. /\ inode' > 0 /\ Directory[Filename] = inode' /\ inodes' = [inodes EXCEPT ![inode'] = r.file]
      /\ entries' \in {entries, <<Directory>>}
  BY <1>1, <1>2, <1>3
<1>10. /\ writing' \in {"idle", "append", "sync", "close", "delete", "remove"}
       /\ data' \in Contents /\ should_sync' \in BOOLEAN /\ status' \in BOOLEAN
       /\ fd' \in BOOLEAN /\ closes' \in Nat /\ returned' \in {"", "ok"}
       /\ returned' = "ok" => closes' = 1
  <2>1. closes' \in Nat
    BY <1>5
  <2>2. fd' \in BOOLEAN /\ should_sync' \in BOOLEAN /\ status' \in BOOLEAN
    BY <1>1, <1>2, <1>3, <1>6, Zenon
  <2>3. QED
    BY <1>1, <1>2, <1>3, <1>5, <2>1, <2>2
<1>11. UNCHANGED readVars /\ Sound(r.file)
  BY <1>2, <1>6
<1>12. QED
  BY <1>8, <1>9, <1>10, <1>11, WriterStep

\* DeleteData closes it only when that was not reached.
LEMMA DeleteStep ==
    ASSUME WholeInv, DeleteData
    PROVE  WholeInv'
<1>1. /\ writing = "delete" /\ entries' = entries /\ fd' = FALSE /\ data' = data
      /\ should_sync' = should_sync /\ inode' = inode /\ status' = status /\ UNCHANGED readVars
      /\ writing' = IF status THEN "idle" ELSE "remove"
      /\ returned' = IF status THEN "ok" ELSE ""
  BY DEF DeleteData
<1>2. /\ inode > 0 /\ Directory[Filename] = inode /\ Sound(inodes[inode])
      /\ data \in Contents /\ returned = ""
      /\ should_sync \in BOOLEAN /\ fd \in BOOLEAN /\ status \in BOOLEAN
  BY <1>1, OwnFile
<1>3. /\ closes = IF fd THEN 0 ELSE 1
      /\ status => ~fd
      /\ status => /\ inodes[inode].buf = << >> /\ inodes[inode].disk = data
                   /\ should_sync => Durable(inodes[inode])
  BY <1>1 DEF WholeInv, WriteOK
<1>4. PICK g : /\ Sound(g) /\ inodes' = [inodes EXCEPT ![inode] = g]
               /\ status => g = inodes[inode]
  <2>1. CASE fd
    <3>1. PICK r \in Close(inodes[inode], TRUE) : inodes' = [inodes EXCEPT ![inode] = r.file]
      BY <2>1 DEF DeleteData
    <3>2. QED
      BY <1>2, <1>3, <2>1, <3>1, CloseLeaves
  <2>2. CASE ~fd
    <3>1. inodes' = inodes /\ inodes \in Seq(File)
      BY <2>2 DEF DeleteData, WholeInv, WholeTypeOK
    <3>2. inodes = [inodes EXCEPT ![inode] = inodes[inode]]
      BY <3>1
    <3>3. QED
      BY <1>2, <3>1, <3>2
  <2>3. QED
    BY <1>2, <2>1, <2>2
<1>5. closes' = 1
  <2>1. CASE fd
    <3>1. closes = 0
      BY <1>3, <2>1
    <3>2. closes' = closes + 1
      BY <2>1 DEF DeleteData
    <3>3. QED
      BY <3>1, <3>2
  <2>2. CASE ~fd
    BY <1>3, <2>2 DEF DeleteData
  <2>3. QED
    BY <1>2, <2>1, <2>2
<1>6. inodes'[inode'] = g => WriteOK'
  <2> SUFFICES ASSUME inodes'[inode'] = g PROVE WriteOK'
    OBVIOUS
  <2>1. CASE status
    BY <1>1, <1>2, <1>3, <1>4, <1>5, <2>1 DEF WriteOK, Durable
  <2>2. CASE ~status
    BY <1>1, <1>2, <1>3, <1>4, <1>5, <2>2 DEF WriteOK, Durable
  <2>3. QED
    BY <1>2, <2>1, <2>2
<1>7. /\ inode' > 0 /\ Directory[Filename] = inode' /\ inodes' = [inodes EXCEPT ![inode'] = g]
      /\ entries' \in {entries, <<Directory>>}
  BY <1>1, <1>2, <1>4
<1>8. /\ writing' \in {"idle", "append", "sync", "close", "delete", "remove"}
      /\ data' \in Contents /\ should_sync' \in BOOLEAN /\ status' \in BOOLEAN
      /\ fd' \in BOOLEAN /\ closes' \in Nat /\ returned' \in {"", "ok"}
      /\ returned' = "ok" => closes' = 1
  <2>1. closes' \in Nat
    BY <1>5
  <2>2. fd' \in BOOLEAN /\ should_sync' \in BOOLEAN /\ status' \in BOOLEAN
    BY <1>1, <1>2, Zenon
  <2>3. QED
    BY <1>1, <1>2, <1>5, <2>1, <2>2
<1>9. QED
  BY <1>1, <1>4, <1>6, <1>7, <1>8, WriterStep

\* A new binding of the names, with the files as they are.
LEMMA RebindStep ==
    ASSUME WholeInv, NEW D \in [Names -> 0 .. Len(inodes)],
           entries' = Append(entries, D), inodes' = inodes, UNCHANGED readVars,
           D[Filename] = 0,
           D[Target] # 0 => Remains(inodes[D[Target]]) \subseteq Contents
    PROVE  /\ Directory' = D
           /\ entries' \in Seq([Names -> 0 .. Len(inodes')]) /\ Len(entries') > 0
           /\ TargetApart' /\ ReadOK' /\ ReplaceIsAtomic' /\ ReadIsWhole'
<1>1. /\ Len(entries) \in 1 .. Len(entries) /\ Len(inodes) \in Nat
      /\ entries \in Seq([Names -> 0 .. Len(inodes)])
  BY DirectoryTyped DEF WholeInv, WholeTypeOK
<1>2. /\ entries' \in Seq([Names -> 0 .. Len(inodes)]) /\ Len(entries') = Len(entries) + 1
      /\ entries'[Len(entries) + 1] = D
      /\ \A k \in 1 .. Len(entries) : entries'[k] = entries[k]
  BY <1>1, AppendProperties
<1>3. Directory' = D
  BY <1>2 DEF Directory
<1>4. TargetApart'
  <2> SUFFICES ASSUME NEW k \in 1 .. Len(entries'), entries'[k][Target] # 0
               PROVE  entries'[k][Target] \notin {entries'[k][Filename], Directory'[Filename]}
    BY DEF TargetApart
  <2>1. CASE k \in 1 .. Len(entries)
    BY <1>2, <1>3, <2>1 DEF WholeInv, TargetApart
  <2>2. CASE k = Len(entries) + 1
    BY <1>2, <1>3, <2>2
  <2>3. QED
    BY <1>1, <1>2, <2>1, <2>2
<1>5. ReplaceIsAtomic'
  <2> SUFFICES ASSUME NEW k \in 1 .. Len(entries'), entries'[k][Target] # 0
               PROVE  Remains(inodes'[entries'[k][Target]]) \subseteq Contents
    BY DEF ReplaceIsAtomic, Remains
  <2>1. CASE k \in 1 .. Len(entries)
    <3>1. Remains(inodes[entries[k][Target]]) \subseteq Contents
      BY <1>2, <2>1 DEF WholeInv, ReplaceIsAtomic
    <3>2. QED
      BY <1>2, <2>1, <3>1
  <2>2. CASE k = Len(entries) + 1
    BY <1>2, <2>2
  <2>3. QED
    BY <1>1, <1>2, <2>1, <2>2
<1>6. ReadOK'
  <2>1. reading' = reading /\ name' = name /\ from' = from /\ position' = position /\ result' = result
    BY DEF readVars
  <2>2. CASE reading = "busy" /\ name = Target
    <3>1. from \in 1 .. Len(inodes) /\ from # 0
      BY <2>2 DEF WholeInv, ReadOK
    <3>2. QED
      BY <1>3, <2>1, <2>2, <3>1 DEF WholeInv, ReadOK
  <2>3. QED
    BY <2>1, <2>2 DEF ReadOK
<1>7. ReadIsWhole'
  BY DEF WholeInv, ReadIsWhole, readVars
<1>8. Len(entries') > 0
  BY <1>1, <1>2
<1>9. QED
  BY <1>2, <1>3, <1>4, <1>5, <1>6, <1>7, <1>8

\* RemoveData unbinds Filename or leaves it.
LEMMA RemoveStep ==
    ASSUME WholeInv, RemoveData
    PROVE  WholeInv'
<1>1. /\ writing = "remove" /\ writing' = "idle" /\ inodes' = inodes /\ data' = data
      /\ should_sync' = should_sync /\ inode' = inode /\ status' = status /\ fd' = fd
      /\ closes' = closes /\ UNCHANGED readVars
  BY DEF RemoveData
<1>2. closes = 1
  BY <1>1 DEF WholeInv, WriteOK
<1>3. CASE UNCHANGED entries /\ returned' = "left"
  <2>1. WholeTypeOK'
    BY <1>1, <1>3 DEF WholeInv, WholeTypeOK, readVars
  <2>2. WritesFilename' /\ WriteOK'
    BY <1>1, <1>3 DEF WritesFilename, WriteOK
  <2>3. TargetApart'
    BY <1>3 DEF WholeInv, TargetApart, Directory
  <2>4. ReadOK' /\ ReadIsWhole'
    BY <1>1, <1>3 DEF WholeInv, ReadOK, ReadIsWhole, Directory, readVars
  <2>5. ReplaceIsAtomic'
    BY <1>1, <1>3 DEF WholeInv, ReplaceIsAtomic, Remains
  <2>6. WrittenOrGone'
    BY <1>1, <1>2, <1>3 DEF WrittenOrGone
  <2>7. QED
    BY <2>1, <2>2, <2>3, <2>4, <2>5, <2>6 DEF WholeInv
<1>4. CASE Rebind([Directory EXCEPT ![Filename] = 0]) /\ returned' = "removed"
  <2> DEFINE D == [Directory EXCEPT ![Filename] = 0]
  <2>1. /\ Len(entries) \in 1 .. Len(entries) /\ Len(inodes) \in Nat
        /\ Directory \in [Names -> 0 .. Len(inodes)]
    BY DirectoryTyped DEF WholeInv
  <2>2. /\ D \in [Names -> 0 .. Len(inodes)] /\ D[Filename] = 0 /\ D[Target] = Directory[Target]
    BY <2>1, NamesAssumption DEF Names
  <2>3. entries' = Append(entries, D)
    BY <1>4 DEF Rebind
  <2>4. Directory[Target] # 0 => Remains(inodes[Directory[Target]]) \subseteq Contents
    BY <2>1 DEF Directory, WholeInv, ReplaceIsAtomic
  <2> HIDE DEF D
  <2>5. /\ Directory' = D
        /\ entries' \in Seq([Names -> 0 .. Len(inodes')]) /\ Len(entries') > 0
        /\ TargetApart' /\ ReadOK' /\ ReplaceIsAtomic' /\ ReadIsWhole'
    BY <1>1, <2>2, <2>3, <2>4, RebindStep
  <2>6. WholeTypeOK'
    BY <1>1, <1>4, <2>5 DEF WholeInv, WholeTypeOK, readVars
  <2>7. WritesFilename' /\ WriteOK'
    BY <1>1, <1>4 DEF WritesFilename, WriteOK
  <2>8. WrittenOrGone'
    BY <1>1, <1>2, <1>4, <2>2, <2>5 DEF WrittenOrGone
  <2>9. QED
    BY <2>5, <2>6, <2>7, <2>8 DEF WholeInv
<1>5. QED
  BY <1>3, <1>4 DEF RemoveData

\* RenameFile gives Target a file that is whole and durable.
LEMMA RenameStep ==
    ASSUME WholeInv, RenameFile
    PROVE  WholeInv'
<1>1. /\ writing = "idle" /\ writing' = "idle" /\ inodes' = inodes /\ data' = data
      /\ should_sync' = should_sync /\ inode' = inode /\ status' = status /\ fd' = fd
      /\ closes' = closes /\ UNCHANGED readVars /\ returned = "ok" /\ should_sync /\ returned' = ""
  BY DEF RenameFile
<1> DEFINE D == [Directory EXCEPT ![Target] = Directory[Filename], ![Filename] = 0]
<1>2. /\ Len(entries) \in 1 .. Len(entries) /\ Len(inodes) \in Nat
      /\ Directory \in [Names -> 0 .. Len(inodes)]
      /\ \A i \in 1 .. Len(inodes) : Sound(inodes[i])
  BY DirectoryTyped DEF WholeInv
<1>3. /\ D \in [Names -> 0 .. Len(inodes)] /\ D[Filename] = 0 /\ D[Target] = Directory[Filename]
  BY <1>2, NamesAssumption DEF Names
<1>4. entries' = Append(entries, D)
  BY DEF RenameFile, Rebind
<1>5. inode > 0 /\ Directory[Filename] = inode /\ inode \in 1 .. Len(inodes)
  <2>1. inode > 0 /\ Directory[Filename] = inode
    BY <1>1 DEF WholeInv, WritesFilename
  <2>2. QED
    BY <1>2, <2>1 DEF Names
<1>6. Remains(inodes[D[Target]]) \subseteq Contents
  <2>1. inodes[inode].disk = data /\ data \in Contents /\ Durable(inodes[inode])
    BY <1>1 DEF WholeInv, WriteOK
  <2>2. Remains(inodes[inode]) = {data}
    BY <1>2, <1>5, <2>1, RemainsTyped
  <2>3. QED
    BY <1>3, <1>5, <2>1, <2>2
<1> HIDE DEF D
<1>7. /\ Directory' = D
      /\ entries' \in Seq([Names -> 0 .. Len(inodes')]) /\ Len(entries') > 0
      /\ TargetApart' /\ ReadOK' /\ ReplaceIsAtomic' /\ ReadIsWhole'
  BY <1>1, <1>3, <1>4, <1>6, RebindStep
<1>8. WholeTypeOK'
  BY <1>1, <1>7 DEF WholeInv, WholeTypeOK, readVars
<1>9. WritesFilename' /\ WriteOK' /\ WrittenOrGone'
  BY <1>1 DEF WritesFilename, WriteOK, WrittenOrGone
<1>10. QED
  BY <1>7, <1>8, <1>9 DEF WholeInv

\* Steps of the reader leave the writer, the files and the names alone.
LEMMA ReaderStep ==
    ASSUME WholeInv, UNCHANGED <<inodes, entries, writeVars>>,
           reading' \in {"idle", "busy", "ok", "error"}, name' \in Names, ReadOK', ReadIsWhole'
    PROVE  WholeInv'
<1>1. /\ inodes' = inodes /\ entries' = entries /\ writing' = writing /\ data' = data
      /\ should_sync' = should_sync /\ inode' = inode /\ status' = status /\ fd' = fd
      /\ closes' = closes /\ returned' = returned
  BY DEF writeVars
<1>2. WholeTypeOK'
  BY <1>1 DEF WholeInv, WholeTypeOK
<1>3. WritesFilename' /\ WrittenOrGone' /\ TargetApart'
  BY <1>1 DEF WholeInv, WritesFilename, WrittenOrGone, TargetApart, Directory
<1>4. WriteOK'
  BY <1>1 DEF WholeInv, WriteOK, Durable
<1>5. ReplaceIsAtomic'
  BY <1>1 DEF WholeInv, ReplaceIsAtomic, Remains
<1>6. QED
  BY <1>2, <1>3, <1>4, <1>5 DEF WholeInv

\* NewSequentialFile of Target opens a file that is not written any more.
LEMMA OpenReadStep ==
    ASSUME WholeInv, NEW n \in Names, NewSequentialFile(n)
    PROVE  WholeInv'
<1>1. /\ UNCHANGED <<inodes, entries, writeVars>> /\ reading' = "busy" /\ name' = n
      /\ from' = Directory[n] /\ position' = 0 /\ result' = << >> /\ Directory[n] # 0
  BY DEF NewSequentialFile
<1>2. /\ Len(entries) \in 1 .. Len(entries) /\ Len(inodes) \in Nat
      /\ Directory \in [Names -> 0 .. Len(inodes)]
      /\ \A i \in 1 .. Len(inodes) : Sound(inodes[i])
  BY DirectoryTyped DEF WholeInv
<1>3. ReadOK'
  <2>1. CASE n = Target
    <3> DEFINE i == Directory[Target]
    <3>1. i \in 1 .. Len(inodes)
      BY <1>1, <1>2, <2>1 DEF Names
    <3>2. i # Directory[Filename] /\ Remains(inodes[i]) \subseteq Contents
      BY <1>1, <1>2, <2>1 DEF WholeInv, TargetApart, ReplaceIsAtomic, Directory
    <3>3. inodes[i].disk \in Contents /\ inodes[i].disk \in Seq(Bytes)
      BY <1>2, <3>1, <3>2, RemainsTyped, ContentsAreBytes
    <3>4. Len(inodes[i].disk) \in Nat /\ 0 \in 0 .. Len(inodes[i].disk)
      BY <3>3
    <3>5. SubSeq(inodes[i].disk, 1, 0) = << >>
      BY SubSeqEmpty
    <3>6. inodes' = inodes /\ Directory' = Directory /\ from' = i
      BY <1>1, <2>1 DEF Directory
    <3> HIDE DEF i
    <3>7. QED
      BY <1>1, <3>1, <3>2, <3>3, <3>4, <3>5, <3>6 DEF ReadOK, i
  <2>2. CASE n # Target
    BY <1>1, <2>2 DEF ReadOK
  <2>3. QED
    BY <2>1, <2>2
<1>4. ReadIsWhole'
  BY <1>1 DEF ReadIsWhole
<1>5. QED
  BY <1>1, <1>3, <1>4, ReaderStep

\* ReadFragment reads on in it.
LEMMA ReadStep ==
    ASSUME WholeInv, ReadFragment
    PROVE  WholeInv'
<1> DEFINE disk == inodes[from].disk
           end == IF position + ReadSize < Len(disk) THEN position + ReadSize ELSE Len(disk)
           fragment == SubSeq(disk, position + 1, end)
<1>1. /\ reading = "busy" /\ UNCHANGED <<inodes, entries, writeVars>> /\ name' = name /\ from' = from
      /\ result' = result \o fragment /\ position' = position + Len(fragment)
      /\ reading' = IF fragment = << >> THEN "ok" ELSE "busy"
  BY DEF ReadFragment
<1>2. name \in Names
  BY DEF WholeInv, WholeTypeOK
<1>3. ASSUME name = Target PROVE ReadOK' /\ ReadIsWhole'
  <2>1. /\ from \in 1 .. Len(inodes) /\ from # Directory[Filename]
        /\ disk \in Contents /\ position \in 0 .. Len(disk) /\ result = SubSeq(disk, 1, position)
    BY <1>1, <1>3 DEF WholeInv, ReadOK
  <2>2. disk \in Seq(Bytes) /\ Len(disk) \in Nat
    BY <2>1, ContentsAreBytes
  <2>3. disk' = disk /\ Directory' = Directory /\ inodes' = inodes
    BY <1>1 DEF Directory
  <2> HIDE DEF disk
  <2>4. end \in position .. Len(disk) /\ (end = position => position = Len(disk))
    BY <2>1, <2>2, ReadSizeAssumption
  <2> HIDE DEF end
  <2>5. Len(fragment) = end - position
    <3> DEFINE m == position + 1
    <3>1. m \in Int /\ end \in Int /\ \A i \in m .. end : disk[i] \in Bytes
      BY <2>1, <2>2, <2>4
    <3> HIDE DEF m
    <3>2. Len(SubSeq(disk, m, end)) = IF m <= end THEN end - m + 1 ELSE 0
      BY <3>1, SubSeqProperties
    <3>3. QED
      BY <2>1, <2>2, <2>4, <3>2 DEF m
  <2>6. SubSeq(disk, 1, position) \o SubSeq(disk, position + 1, end) = SubSeq(disk, 1, end)
    <3>1. 1 \in 1 .. Len(disk) + 1 /\ position \in 1 - 1 .. Len(disk)
      BY <2>1, <2>2
    <3>2. QED
      BY <2>2, <2>4, <3>1, ConcatAdjacentSubSeq
  <2>7. position' = end
    BY <1>1, <2>1, <2>2, <2>4, <2>5
  <2>8. result' = SubSeq(disk, 1, end)
    BY <1>1, <2>1, <2>6
  <2>9. fragment = << >> => end = Len(disk)
    <3>1. Len(<< >>) = 0
      OBVIOUS
    <3>2. QED
      BY <2>1, <2>2, <2>4, <2>5, <3>1
  <2>10. SubSeq(disk, 1, Len(disk)) = disk
    BY <2>2, SubSeqFull
  <2> HIDE DEF fragment
  <2>11. end \in 0 .. Len(disk)
    BY <2>1, <2>2, <2>4
  <2>12. inodes'[from'].disk = disk
    BY <1>1, <2>3 DEF disk
  <2>13. ReadOK'
    BY <1>1, <1>3, <2>1, <2>3, <2>7, <2>8, <2>11, <2>12 DEF ReadOK
  <2>14. ReadIsWhole'
    BY <1>1, <1>3, <2>1, <2>8, <2>9, <2>10 DEF ReadIsWhole
  <2>15. QED
    BY <2>13, <2>14
<1>4. ASSUME name # Target PROVE ReadOK' /\ ReadIsWhole'
  BY <1>1, <1>4 DEF ReadOK, ReadIsWhole
<1>5. QED
  BY <1>1, <1>2, <1>3, <1>4, ReaderStep

\* After ReadError nothing is returned.
LEMMA ReadErrorStep ==
    ASSUME WholeInv, ReadError
    PROVE  WholeInv'
<1>1. UNCHANGED <<inodes, entries, writeVars>> /\ reading' = "error" /\ name' = name
  BY DEF ReadError
<1>2. ReadOK' /\ ReadIsWhole' /\ name \in Names
  BY <1>1 DEF ReadOK, ReadIsWhole, WholeInv, WholeTypeOK
<1>3. QED
  BY <1>1, <1>2, ReaderStep

\* A crash leaves of a file something that Remains has, and of the directory one
\* of its entries.
LEMMA CrashStep ==
    ASSUME WholeInv, MachineCrash
    PROVE  WholeInv'
<1>1. /\ Len(entries) \in 1 .. Len(entries) /\ Len(inodes) \in Nat
      /\ Directory \in [Names -> 0 .. Len(inodes)]
      /\ \A k \in 1 .. Len(entries) : entries[k] \in [Names -> 0 .. Len(inodes)]
      /\ \A i \in 1 .. Len(inodes) : Sound(inodes[i])
  BY DirectoryTyped DEF WholeInv
<1>2. /\ writing' = "idle" /\ returned' = "" /\ reading' = "idle"
      /\ UNCHANGED <<data, should_sync, inode, status, fd, closes, name>>
  BY DEF MachineCrash
<1> DEFINE N == Len(inodes)
<1>3. PICK left \in [1 .. N -> UNION { Remains(inodes[i]) : i \in 1 .. N }] :
        /\ \A i \in 1 .. N : left[i] \in Remains(inodes[i])
        /\ inodes' = [ i \in 1 .. N |->
                          [buf |-> << >>, disk |-> left[i], synced |-> Len(left[i]), saved |-> {}] ]
  BY DEF MachineCrash
<1>4. PICK j \in 1 .. Len(entries) : entries' = <<entries[j]>>
  BY DEF MachineCrash
<1>5. ASSUME NEW i \in 1 .. N
      PROVE  /\ Sound(inodes'[i]) /\ inodes'[i].synced <= Len(inodes'[i].disk)
             /\ Remains(inodes'[i]) \subseteq Remains(inodes[i])
  <2>1. left[i] \in Seq(Bytes) /\ left[i] \in Remains(inodes[i])
    BY <1>1, <1>3, RemainsTyped
  <2> DEFINE g == [buf |-> << >>, disk |-> left[i], synced |-> Len(left[i]), saved |-> {}]
  <2>2. inodes'[i] = g
    BY <1>3
  <2>3. Len(left[i]) \in Nat /\ << >> \in Seq(Bytes)
    BY <2>1, EmptySeq
  <2>4. Sound(g) /\ Durable(g) /\ g.synced <= Len(g.disk) /\ g.disk = left[i]
    BY <2>1, <2>3 DEF Sound, File, Durable
  <2> HIDE DEF g
  <2>5. Remains(g) = {left[i]}
    BY <2>4, RemainsTyped
  <2>6. QED
    BY <2>1, <2>2, <2>4, <2>5
<1>6. inodes' \in Seq(File) /\ Len(inodes') = N
  <2>1. inodes' \in [1 .. N -> File]
    <3>1. \A i \in 1 .. N : inodes'[i] \in File
      BY <1>5 DEF Sound
    <3>2. DOMAIN inodes' = 1 .. N /\ inodes' = [i \in 1 .. N |-> inodes'[i]]
      BY <1>3
    <3>3. QED
      BY <3>1, <3>2
  <2>2. QED
    BY <1>1, <2>1, SeqDef
<1>7. entries' \in Seq([Names -> 0 .. N]) /\ Len(entries') = 1 /\ entries'[1] = entries[j]
  BY <1>1, <1>4
<1>8. Directory' = entries[j]
  BY <1>7 DEF Directory
<1> HIDE DEF N
<1>9. WholeTypeOK'
  <2>1. \A i \in 1 .. Len(inodes') : inodes'[i].synced <= Len(inodes'[i].disk)
    BY <1>5, <1>6
  <2>2. entries' \in Seq([Names -> 0 .. Len(inodes')]) /\ Len(entries') > 0
    BY <1>6, <1>7
  <2>3. QED
    BY <1>2, <1>6, <2>1, <2>2 DEF WholeInv, WholeTypeOK
<1>10. WritesFilename' /\ WriteOK' /\ WrittenOrGone' /\ ReadOK' /\ ReadIsWhole'
  BY <1>2 DEF WritesFilename, WriteOK, WrittenOrGone, ReadOK, ReadIsWhole
<1>11. TargetApart'
  <2> SUFFICES ASSUME NEW k \in 1 .. Len(entries'), entries'[k][Target] # 0
               PROVE  entries'[k][Target] \notin {entries'[k][Filename], Directory'[Filename]}
    BY DEF TargetApart
  <2>1. k = 1
    BY <1>7
  <2>2. QED
    BY <1>7, <1>8, <2>1 DEF WholeInv, TargetApart
<1>12. ReplaceIsAtomic'
  <2> SUFFICES ASSUME NEW k \in 1 .. Len(entries'), entries'[k][Target] # 0
               PROVE  Remains(inodes'[entries'[k][Target]]) \subseteq Contents
    BY DEF ReplaceIsAtomic, Remains
  <2> DEFINE i == entries[j][Target]
  <2>1. k = 1
    BY <1>7
  <2>2. i \in 1 .. N /\ entries'[k][Target] = i
    BY <1>1, <1>7, <2>1 DEF Names, N
  <2>3. Remains(inodes[i]) \subseteq Contents
    BY <2>2, <1>1 DEF WholeInv, ReplaceIsAtomic, N
  <2>4. QED
    BY <1>5, <2>2, <2>3
<1>13. QED
  BY <1>9, <1>10, <1>11, <1>12 DEF WholeInv

---------------------------------------------------------------------------
\* The invariant holds at the start and every step keeps it.
LEMMA WholeInductive == WholeSpec => []WholeInv
<1>1. WholeInit => WholeInv
  <2> SUFFICES ASSUME WholeInit PROVE WholeInv
    OBVIOUS
  <2> DEFINE D == [n \in Names |-> 0]
  <2>1. entries = <<D>> /\ inodes = << >>
    BY DEF WholeInit, Names
  <2>2. inodes \in Seq(File) /\ Len(inodes) = 0
    BY <2>1, EmptySeq
  <2>3. D \in [Names -> 0 .. Len(inodes)] /\ D[Target] = 0
    BY <2>2 DEF Names
  <2> HIDE DEF D
  <2>4. entries \in Seq([Names -> 0 .. Len(inodes)]) /\ Len(entries) = 1 /\ entries[1] = D
    BY <2>1, <2>3
  <2>5. WholeTypeOK
    <3>1. \A i \in 1 .. Len(inodes) : inodes[i].synced <= Len(inodes[i].disk)
      BY <2>2
    <3>2. Len(entries) > 0
      BY <2>4
    <3>3. should_sync \in BOOLEAN /\ status \in BOOLEAN /\ fd \in BOOLEAN
      BY Zenon DEF WholeInit
    <3>4. closes \in Nat /\ data \in Contents \cup {<< >>} /\ name \in Names
      BY DEF WholeInit, Names
    <3>5. QED
      BY <2>2, <2>4, <3>1, <3>2, <3>3, <3>4 DEF WholeInit, WholeTypeOK
  <2>6. WritesFilename /\ WriteOK /\ WrittenOrGone /\ ReadOK /\ ReadIsWhole
    BY DEF WholeInit, WritesFilename, WriteOK, WrittenOrGone, ReadOK, ReadIsWhole
  <2>7. TargetApart /\ ReplaceIsAtomic
    BY <2>3, <2>4 DEF TargetApart, ReplaceIsAtomic
  <2>8. QED
    BY <2>5, <2>6, <2>7 DEF WholeInv
<1>2. WholeInv /\ [WholeNext]_wholeVars => WholeInv'
  <2> SUFFICES ASSUME WholeInv, [WholeNext]_wholeVars PROVE WholeInv'
    OBVIOUS
  <2>1. CASE \E d \in Contents, sync \in BOOLEAN : NewWritableFile(d, sync)
    BY <2>1, OpenStep
  <2>2. CASE AppendData
    BY <2>2, AppendStep
  <2>3. CASE SyncData
    BY <2>3, SyncStep
  <2>4. CASE CloseData
    BY <2>4, CloseStep
  <2>5. CASE DeleteData
    BY <2>5, DeleteStep
  <2>6. CASE RemoveData
    BY <2>6, RemoveStep
  <2>7. CASE RenameFile
    BY <2>7, RenameStep
  <2>8. CASE \E n \in {Filename, Target} : NewSequentialFile(n)
    BY <2>8, OpenReadStep DEF Names
  <2>9. CASE ReadFragment
    BY <2>9, ReadStep
  <2>10. CASE ReadError
    BY <2>10, ReadErrorStep
  <2>11. CASE MachineCrash
    BY <2>11, CrashStep
  <2>12. CASE UNCHANGED wholeVars
    <3>1. UNCHANGED <<inodes, entries, writeVars, readVars>>
      BY <2>12 DEF wholeVars
    <3>2. ReadOK' /\ ReadIsWhole'
      BY <3>1 DEF WholeInv, ReadOK, ReadIsWhole, readVars, Directory
    <3>3. reading' \in {"idle", "busy", "ok", "error"} /\ name' \in Names
      BY <3>1 DEF WholeInv, WholeTypeOK, readVars
    <3>4. QED
      BY <3>1, <3>2, <3>3, ReaderStep
  <2>13. QED
    BY <2>1, <2>2, <2>3, <2>4, <2>5, <2>6, <2>7, <2>8, <2>9, <2>10, <2>11, <2>12 DEF WholeNext
<1>3. QED
  BY <1>1, <1>2, PTL DEF WholeSpec

\* DoWriteStringToFile and the destructor of its file: OK means all of the
\* string is in the file of that name, an error that the file is gone unless it
\* could not be removed, and the descriptor is closed exactly once.
THEOREM WritesAreWholeOrGone == WholeSpec => []WrittenOrGone
<1>1. WholeInv => WrittenOrGone
  BY DEF WholeInv
<1>2. QED
  BY <1>1, WholeInductive, PTL

\* WriteStringToFileSync and then RenameFile replace the contents of a name as a
\* whole, at whatever step the machine stops and whatever the disk has kept.
THEOREM ReplacingIsAtomic == WholeSpec => []ReplaceIsAtomic
<1>1. WholeInv => ReplaceIsAtomic
  BY DEF WholeInv
<1>2. QED
  BY <1>1, WholeInductive, PTL

\* ReadFileToString of that name returns OK only with a whole string, while the
\* name is replaced and when reads fail.
THEOREM ReadsAreWhole == WholeSpec => []ReadIsWhole
<1>1. WholeInv => ReadIsWhole
  BY DEF WholeInv
<1>2. QED
  BY <1>1, WholeInductive, PTL

=============================================================================
