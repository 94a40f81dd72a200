----------------------------- MODULE FileLock -----------------------------
(***************************************************************************)
(* LockFile and UnlockFile of src/src/env/env_posix.cpp on one file, called *)
(* by the threads of several processes.                                    *)
(*                                                                         *)
(* Each process has a PosixLockTable; the file's write lock is the         *)
(* kernel's and belongs to a process.  A step is one system call or one    *)
(* call of the table, which holds the table's mutex.                       *)
(*                                                                         *)
(* The kernel is external.  What the code relies on: F_SETLK succeeds      *)
(* unless another process has the lock, and the lock goes when the process *)
(* unlocks it, closes any descriptor of the file, or ends.                 *)
(***************************************************************************)
CONSTANTS
    Procs,    \* processes
    Lockers,  \* their threads that use the lock
    ProcOf,   \* the process of each thread
    NoProc    \* nobody

ASSUME ProcOfAssumption == ProcOf \in [Lockers -> Procs]
ASSUME NoProcAssumption == NoProc \notin Procs

VARIABLES
    stage,         \* where each thread is in LockFile or UnlockFile
    locked_files,  \* processes with the file in their locks_ table
    owner          \* the process that has the kernel's lock

lockVars == <<stage, locked_files, owner>>

LockInit ==
    /\ stage = [t \in Lockers |-> "idle"]
    /\ locked_files = {}
    /\ owner = NoProc

Move(t, from, to) ==
    /\ stage[t] = from
    /\ stage' = [stage EXCEPT ![t] = to]

\* close(fd) of the file: the process loses its lock, whichever descriptor had it.
LoseLock(t) == owner' = IF owner = ProcOf[t] THEN NoProc ELSE owner

---------------------------------------------------------------------------
(* LockFile.                                                               *)

\* LockFile is called and opens the file.  If it cannot, nothing happened.
Open(t) ==
    /\ Move(t, "idle", "opened")
    /\ UNCHANGED <<locked_files, owner>>

\* Fault: the table is looked at but its answer is not used.
InsertUnchecked(t) ==
    /\ Move(t, "opened", "inserted")
    /\ locked_files' = locked_files \cup {ProcOf[t]}
    /\ UNCHANGED owner

\* locks_.Insert(filename): the file was not in the table.
Insert(t) ==
    /\ ProcOf[t] \notin locked_files
    /\ Move(t, "opened", "inserted")
    /\ locked_files' = locked_files \cup {ProcOf[t]}
    /\ UNCHANGED owner

\* locks_.Insert(filename): the file is in the table, "already held by process".
InsertRefused(t) ==
    /\ ProcOf[t] \in locked_files
    /\ Move(t, "opened", "refused")
    /\ UNCHANGED <<locked_files, owner>>

\* The refused LockFile closes its descriptor and returns.
RefusedClose(t) ==
    /\ Move(t, "refused", "idle")
    /\ LoseLock(t)
    /\ UNCHANGED locked_files

\* Fault: the lock of another process is not noticed.
SetLkAnyway(t) ==
    /\ Move(t, "inserted", "held")
    /\ owner' = ProcOf[t]
    /\ UNCHANGED locked_files

\* LockOrUnlock(fd, true) succeeds: LockFile returns a PosixFileLock.
SetLk(t) ==
    /\ owner \in {NoProc, ProcOf[t]}
    /\ Move(t, "inserted", "held")
    /\ owner' = ProcOf[t]
    /\ UNCHANGED locked_files

\* LockOrUnlock(fd, true) fails: another process has the lock.
SetLkDenied(t) ==
    /\ owner \notin {NoProc, ProcOf[t]}
    /\ Move(t, "inserted", "denied")
    /\ UNCHANGED <<locked_files, owner>>

DeniedClose(t) ==
    /\ Move(t, "denied", "undo")
    /\ LoseLock(t)
    /\ UNCHANGED locked_files

\* Fault: the denied LockFile leaves the file in the table.
DeniedForget(t) ==
    /\ Move(t, "undo", "idle")
    /\ UNCHANGED <<locked_files, owner>>

DeniedRemove(t) ==
    /\ Move(t, "undo", "idle")
    /\ locked_files' = locked_files \ {ProcOf[t]}
    /\ UNCHANGED owner

---------------------------------------------------------------------------
(* UnlockFile.                                                             *)

\* LockOrUnlock(fd, false).  If it fails the lock stays with the caller.
Unlk(t) ==
    /\ Move(t, "held", "unlocked")
    /\ owner' = IF owner = ProcOf[t] THEN NoProc ELSE owner
    /\ UNCHANGED locked_files

Remove(t) ==
    /\ Move(t, "unlocked", "removed")
    /\ locked_files' = locked_files \ {ProcOf[t]}
    /\ UNCHANGED owner

UnlockClose(t) ==
    /\ Move(t, "removed", "idle")
    /\ LoseLock(t)
    /\ UNCHANGED locked_files

---------------------------------------------------------------------------
\* A process ends at any moment and is started again: its table is new, and
\* the kernel takes its lock back.
ProcessEnds(p) ==
    /\ \E t \in Lockers : ProcOf[t] = p /\ stage[t] # "idle"
    /\ stage' = [t \in Lockers |-> IF ProcOf[t] = p THEN "idle" ELSE stage[t]]
    /\ locked_files' = locked_files \ {p}
    /\ owner' = IF owner = p THEN NoProc ELSE owner

Lock(t) ==
    \/ Open(t) \/ Insert(t) \/ InsertRefused(t) \/ RefusedClose(t)
    \/ SetLk(t) \/ SetLkDenied(t) \/ DeniedClose(t) \/ DeniedRemove(t)

Unlock(t) == Unlk(t) \/ Remove(t) \/ UnlockClose(t)

LockNext ==
    \/ \E t \in Lockers : Lock(t) \/ Unlock(t)
    \/ \E p \in Procs : ProcessEnds(p)

LockSpec == LockInit /\ [][LockNext]_lockVars

---------------------------------------------------------------------------
(* Properties.                                                             *)

Labels == {"idle", "opened", "inserted", "refused", "denied", "undo",
           "held", "unlocked", "removed"}

LockTypeOK ==
    /\ stage \in [Lockers -> Labels]
    /\ locked_files \subseteq Procs
    /\ owner \in Procs \cup {NoProc}

\* Two threads of one process never have the lock at the same time: what the
\* table is for, since F_SETLK would let the second one through.
OnePerProcess ==
    \A t, u \in Lockers :
        (t # u /\ ProcOf[t] = ProcOf[u] /\ stage[t] = "held") => stage[u] # "held"

\* When no thread of a process is in LockFile or UnlockFile or holds the lock,
\* nothing of it is left: the next LockFile is not refused for the past's sake.
NothingLeft ==
    \A p \in Procs :
        (\A t \in Lockers : ProcOf[t] = p => stage[t] = "idle")
            => (p \notin locked_files /\ owner # p)

\* A thread that LockFile gave the lock has it until it calls UnlockFile: its
\* process has the kernel's lock.  The comment on PosixLockTable, env_posix.cpp
\* 393-395, says that the table protects against multiple uses from the same
\* process.
HeldIsLocked == \A t \in Lockers : stage[t] = "held" => owner = ProcOf[t]

\* The process of t uses the lock from this thread only.
Alone(t) == \A u \in Lockers : ProcOf[u] = ProcOf[t] => u = t

\* The one thread of a process that uses the lock keeps it, whatever threads of
\* other processes do and however they end; so no two such threads have it.
AloneKeepsLock == \A t \in Lockers : (Alone(t) /\ stage[t] = "held") => owner = ProcOf[t]

=============================================================================
