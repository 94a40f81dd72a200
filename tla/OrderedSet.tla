---------------------------- MODULE OrderedSet ----------------------------
(***************************************************************************)
(* What src/src/data_structure/skip_list.h promises to its callers: a      *)
(* growing set of keys with one writer and any number of readers.  Every   *)
(* call is invoked, takes effect at one instant, and returns.  A reader    *)
(* owns one Iterator, whose node_ is node[r] (Null = not Valid()); found[r]*)
(* is the answer of its last Contains.                                     *)
(*                                                                         *)
(* key[t] is the argument of t's running call.  The order on keys is that  *)
(* of the naturals; Null stands for nullptr and lies above every key.      *)
(***************************************************************************)
EXTENDS Integers

CONSTANTS Keys, Readers, Writer, Null

VARIABLES
    set,    \* the keys inserted so far
    call,   \* the call each thread is in
    key,    \* its argument
    node,   \* the position of each reader's iterator
    found   \* the answer of each reader's last Contains

avars == <<set, call, key, node, found>>

Threads == Readers \cup {Writer}

\* n is the least element of S, or Null when S is empty.
IsLeast(n, S) ==
    \/ S = {} /\ n = Null
    \/ n \in S /\ \A m \in S : n <= m

\* n is the greatest element of S, or Null when S is empty.
IsGreatest(n, S) ==
    \/ S = {} /\ n = Null
    \/ n \in S /\ \A m \in S : m <= n

Init ==
    /\ set = {}
    /\ call = [t \in Threads |-> "idle"]
    /\ key = [t \in Threads |-> Null]
    /\ node = [r \in Readers |-> Null]
    /\ found = [r \in Readers |-> FALSE]

---------------------------------------------------------------------------

Invoke(t, c, k) ==
    /\ call[t] = "idle"
    /\ call' = [call EXCEPT ![t] = c]
    /\ key' = [key EXCEPT ![t] = k]
    /\ UNCHANGED <<set, node, found>>

\* Only the writer inserts, and only a key that is not there yet.
InvokeInsert == \E k \in Keys \ set : Invoke(Writer, "insert", k)

InvokeContains(r) == \E k \in Keys : Invoke(r, "contains", k)

InvokeSeek(r) == \E k \in Keys : Invoke(r, "seek", k)

InvokePrev(r) == node[r] # Null /\ Invoke(r, "prev", node[r])

InvokeLast(r) == Invoke(r, "last", Null)

Finish(t) ==
    /\ call' = [call EXCEPT ![t] = "idle"]
    /\ key' = [key EXCEPT ![t] = Null]

\* The instant at which the new key becomes visible to everybody.
Insert ==
    /\ call[Writer] = "insert"
    /\ set' = set \cup {key[Writer]}
    /\ call' = [call EXCEPT ![Writer] = "inserted"]
    /\ UNCHANGED <<key, node, found>>

ReturnInsert ==
    /\ call[Writer] = "inserted"
    /\ Finish(Writer)
    /\ UNCHANGED <<set, node, found>>

ReturnContains(r) ==
    /\ call[r] = "contains"
    /\ found' = [found EXCEPT ![r] = key[r] \in set]
    /\ Finish(r)
    /\ UNCHANGED <<set, node>>

MoveTo(r, n) ==
    /\ node' = [node EXCEPT ![r] = n]
    /\ UNCHANGED <<set, found>>

\* The least key at or after the target.
ReturnSeek(r) ==
    /\ call[r] = "seek"
    /\ \E n \in Keys \cup {Null} :
         IsLeast(n, {k \in set : k >= key[r]}) /\ MoveTo(r, n)
    /\ Finish(r)

\* The greatest key before the argument (before Null: the last one).
ReturnBackward(r) ==
    /\ call[r] \in {"prev", "last"}
    /\ \E n \in Keys \cup {Null} :
         IsGreatest(n, {k \in set : k < key[r]}) /\ MoveTo(r, n)
    /\ Finish(r)

\* Next and SeekToFirst are one load each: they are one step.
Next1(r) ==
    /\ call[r] = "idle"
    /\ node[r] # Null
    /\ \E n \in Keys \cup {Null} :
         IsLeast(n, {k \in set : k > node[r]}) /\ MoveTo(r, n)
    /\ UNCHANGED <<call, key>>

SeekToFirst(r) ==
    /\ call[r] = "idle"
    /\ \E n \in Keys \cup {Null} : IsLeast(n, set) /\ MoveTo(r, n)
    /\ UNCHANGED <<call, key>>

ReaderStep(r) ==
    \/ InvokeContains(r) \/ InvokeSeek(r) \/ InvokePrev(r) \/ InvokeLast(r)
    \/ ReturnContains(r) \/ ReturnSeek(r) \/ ReturnBackward(r)
    \/ Next1(r) \/ SeekToFirst(r)

Next ==
    \/ InvokeInsert \/ Insert \/ ReturnInsert
    \/ \E r \in Readers : ReaderStep(r)

Spec == Init /\ [][Next]_avars
===========================================================================
