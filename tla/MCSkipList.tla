---------------------------- MODULE MCSkipList ----------------------------
(***************************************************************************)
(* The instance of SkipList that TLC checks.  Readers change nothing that  *)
(* another thread reads, so one reader against the writer is enough.       *)
(***************************************************************************)
EXTENDS SkipList

MCKeys == 1 .. 3
MCNull == 4
===========================================================================
