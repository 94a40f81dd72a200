---------------------------- MODULE MCFileLock ----------------------------
(***************************************************************************)
(* Processes of which some use the lock from two threads and some from one.*)
(***************************************************************************)
EXTENDS FileLock, Naturals

CONSTANT Shared  \* processes with two threads

MCLockers == (Shared \X {1, 2}) \cup (Procs \X {1})
MCProcOf == [t \in MCLockers |-> t[1]]

=============================================================================
