---------------------------- MODULE MCPosixEnv ----------------------------
(***************************************************************************)
(* The parts of PosixEnv that share no state are explored one at a time:   *)
(* part says which, and the others stay as they begin.                     *)
(***************************************************************************)
EXTENDS ReadOnlyFiles, BackgroundQueue, MCWholeFile, MCFileLock

VARIABLE part

vars == <<part, filesVars, queueVars, wholeVars, lockVars>>

Init ==
    /\ part \in {"files", "queue", "whole", "lock"}
    /\ FilesInit /\ QueueInit /\ WholeInit /\ LockInit

FilesPart ==
    part = "files" /\ FilesNext /\ UNCHANGED <<part, queueVars, wholeVars, lockVars>>

QueuePart ==
    part = "queue" /\ QueueNext /\ UNCHANGED <<part, filesVars, wholeVars, lockVars>>

WholePart ==
    part = "whole" /\ WholeNext /\ UNCHANGED <<part, filesVars, queueVars, lockVars>>

LockPart ==
    part = "lock" /\ LockNext /\ UNCHANGED <<part, filesVars, queueVars, wholeVars>>

Next == FilesPart \/ QueuePart \/ WholePart \/ LockPart

\* The fairness of QueueSpec.
Spec ==
    /\ Init /\ [][Next]_vars
    /\ WF_vars(part = "queue" /\ Background /\ UNCHANGED <<part, filesVars, wholeVars, lockVars>>)

=============================================================================
