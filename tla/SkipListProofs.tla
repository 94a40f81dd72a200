-------------------------- MODULE SkipListProofs --------------------------
(***************************************************************************)
(* Proofs about SkipList, for every set of keys, number of levels and set  *)
(* of readers.                                                             *)
(***************************************************************************)
EXTENDS SkipList, TLAPS

USE KeysAssumption, NullAssumption, HeightAssumption, WriterAssumption

(* Keys lie between the head and the null pointer, and only keys are       *)
(* linked.                                                                 *)
LEMMA KeyFacts ==
    /\ \A k \in Keys : k \in Nat /\ 0 < k /\ k < Null /\ k # Null /\ k # Head
    /\ Null \in Nat /\ 0 < Null
    /\ \A l : LinkedAt(l) \subseteq Keys
<1>1. \A l : LinkedAt(l) \subseteq Keys
  BY DEF LinkedAt
<1> QED
  BY <1>1 DEF Head

(* The constructor leaves an empty list.                                   *)
LEMMA InitIInv == Init => IInv
<1> SUFFICES ASSUME Init PROVE IInv
  OBVIOUS
<1>1. TypeOK
  BY DEF Init, TypeOK, Threads, Levels, Nodes, Pointers, Searches, Head, Uninit
<1>2. \A l \in Levels : LinkedAt(l) = {}
  BY DEF Init, LinkedAt, Levels
<1>3. LevelsSorted
  BY <1>2 DEF Init, LevelsSorted, PointsToSuccessor, OnLevel, Head, Nodes, Levels
<1>4. SearchOK /\ InsertOK /\ IteratorsOK
  BY DEF Init, SearchOK, InsertOK, IteratorsOK, Searches, Threads
<1> QED
  BY <1>1, <1>3, <1>4 DEF IInv

---------------------------------------------------------------------------
(* Type correctness is preserved step by step.                             *)

\* A search that stands properly reads a key or Null.
LEMMA NextOfType ==
    ASSUME IInv, NEW t \in Threads, pc[t] \in Searches
    PROVE  /\ level[t] \in Levels
           /\ x[t] \in Nodes
           /\ x[t] \in OnLevel(level[t])
           /\ NextOf(t) \in LinkedAt(level[t]) \cup {Null}
           /\ NextOf(t) \in Keys \cup {Null}
           /\ x[t] < NextOf(t)
           /\ \A k \in LinkedAt(level[t]) : x[t] < k => NextOf(t) <= k
<1>1. level[t] \in Levels /\ x[t] \in OnLevel(level[t]) /\ x[t] \in Nodes
  BY DEF IInv, SearchOK, TypeOK
<1>2. PointsToSuccessor(x[t], level[t])
  BY <1>1 DEF IInv, LevelsSorted
<1> QED
  BY <1>1, <1>2 DEF PointsToSuccessor, NextOf, LinkedAt

\* While the writer links level i, prev[i] is a usable node.
LEMMA LinkingType ==
    ASSUME IInv, pc[Writer] \in {"set", "publish"},
           level[Writer] < height[target[Writer]]
    PROVE  /\ target[Writer] \in Keys
           /\ level[Writer] \in Levels
           /\ level[Writer] \in level[Writer] .. height[target[Writer]] - 1
           /\ PrevFits(level[Writer])
           /\ prev[level[Writer]] \in Nodes
<1>1. target[Writer] \in Keys
  BY DEF IInv, InsertOK
<1>2. height[target[Writer]] \in 0 .. kMaxHeight /\ level[Writer] \in 0 .. kMaxHeight
  BY <1>1 DEF IInv, TypeOK, Threads
<1>3. level[Writer] \in level[Writer] .. height[target[Writer]] - 1
  BY <1>2
<1>4. PrevFits(level[Writer])
  BY <1>3 DEF IInv, InsertOK
<1>5. prev[level[Writer]] \in Nodes
  BY <1>4 DEF PrevFits, OnLevel, LinkedAt, Nodes
<1> QED
  BY <1>1, <1>2, <1>3, <1>4, <1>5 DEF Levels

(* Every step keeps the types.                                             *)
LEMMA TypeStep == IInv /\ [Next]_vars => TypeOK'
<1> SUFFICES ASSUME IInv, [Next]_vars PROVE TypeOK'
  OBVIOUS
<1> USE DEF Threads
<1>0. TypeOK
  BY DEF IInv
<1>1. CASE InsertCall
  BY <1>0, <1>1 DEF TypeOK, InsertCall, StartSearch, shared, results, Levels, Nodes, Searches, Head
<1>2. ASSUME NEW t \in Threads, StepRight(t) PROVE TypeOK'
  BY <1>0, <1>2, NextOfType DEF TypeOK, StepRight, shared, results, Nodes, KeyIsAfterNode
<1>3. ASSUME NEW t \in Threads, StepDown(t) PROVE TypeOK'
  BY <1>0, <1>3, NextOfType DEF TypeOK, StepDown, results, Levels
<1>4. CASE InsertFound
  BY <1>0, <1>4 DEF TypeOK, InsertFound, AtBottom, results, Levels, Nodes
<1>5. CASE NewNode
  <2>1. target[Writer] \in Keys
    BY <1>5 DEF IInv, InsertOK, NewNode
  <2> QED
    BY <1>0, <1>5, <2>1 DEF TypeOK, NewNode, RaiseHeight, results, Levels, Nodes, Head
<1>6. CASE SetNext
  <2>1. /\ target[Writer] \in Keys
        /\ level[Writer] \in Levels
        /\ prev[level[Writer]] \in Nodes
    BY <1>6, LinkingType DEF SetNext
  <2>2. nxt[prev[level[Writer]]][level[Writer]] \in Pointers
    BY <1>0, <2>1 DEF TypeOK
  <2> QED
    BY <1>0, <1>6, <2>1, <2>2 DEF TypeOK, SetNext, results, Nodes
<1>7. CASE Publish
  <2>1. /\ target[Writer] \in Keys
        /\ level[Writer] \in Levels
        /\ prev[level[Writer]] \in Nodes
    BY <1>7, LinkingType DEF Publish, InsertOK, IInv
  <2> QED
    BY <1>0, <1>7, <2>1 DEF TypeOK, Publish, results, Nodes, Pointers, Levels
<1>8. CASE InsertReturn
  BY <1>0, <1>8 DEF TypeOK, InsertReturn, Finish, results, Head, Nodes, Levels
<1>9. ASSUME NEW r \in Readers, ContainsReturn(r) \/ SeekReturn(r) \/ BackwardReturn(r)
      PROVE TypeOK'
  <2>1. NextOf(r) \in Keys \cup {Null}
    BY <1>9, NextOfType DEF ContainsReturn, SeekReturn, BackwardReturn, AtBottom
  <2>2. (IF x[r] = Head THEN Null ELSE x[r]) \in Keys \cup {Null}
    BY <1>0 DEF TypeOK, Nodes
  <2>3. CASE ContainsReturn(r)
    BY <1>0, <2>3 DEF TypeOK, ContainsReturn, Finish, shared, Head, Nodes
  <2>4. CASE SeekReturn(r)
    BY <1>0, <2>1, <2>4 DEF TypeOK, SeekReturn, Finish, shared, Head, Nodes
  <2>5. CASE BackwardReturn(r)
    BY <1>0, <2>2, <2>5 DEF TypeOK, BackwardReturn, Finish, shared, Head, Nodes
  <2> QED
    BY <1>9, <2>3, <2>4, <2>5
<1>10. ASSUME NEW r \in Readers,
              ContainsCall(r) \/ SeekCall(r) \/ PrevCall(r) \/ SeekToLastCall(r)
       PROVE TypeOK'
  BY <1>0, <1>10 DEF TypeOK, ContainsCall, SeekCall, PrevCall, SeekToLastCall, StartSearch,
       shared, results, Head, Nodes, Searches
<1>11. ASSUME NEW r \in Readers, IteratorNext(r) \/ SeekToFirst(r)
       PROVE TypeOK'
  <2>1. \A n \in OnLevel(0) : nxt[n][0] \in Keys \cup {Null}
    BY DEF IInv, LevelsSorted, PointsToSuccessor, LinkedAt, Levels
  <2>2. Head \in OnLevel(0) /\ (node[r] # Null => node[r] \in OnLevel(0))
    BY DEF IInv, IteratorsOK, OnLevel
  <2> QED
    BY <1>0, <1>11, <2>1, <2>2 DEF TypeOK, IteratorNext, SeekToFirst, shared
<1>12. CASE UNCHANGED vars
  BY <1>0, <1>12 DEF TypeOK, vars
<1> QED
  BY <1>1, <1>2, <1>3, <1>4, <1>5, <1>6, <1>7, <1>8, <1>9, <1>10, <1>11, <1>12
  DEF Next, WriterRuns, ReaderRuns, ReaderStarts

---------------------------------------------------------------------------
(* What a step that does not touch the lists preserves.                    *)

LEMMA ListsKept ==
    ASSUME LevelsSorted, nxt' = nxt, \A l \in Levels : LinkedAt(l)' = LinkedAt(l)
    PROVE  LevelsSorted'
<1>1. ASSUME NEW l \in Levels, NEW n \in OnLevel(l)' PROVE PointsToSuccessor(n, l)'
  <2>1. n \in OnLevel(l) /\ PointsToSuccessor(n, l) /\ LinkedAt(l)' = LinkedAt(l)
    BY <1>1 DEF OnLevel, LevelsSorted
  <2> QED
    BY <2>1 DEF PointsToSuccessor
<1> QED
  BY <1>1 DEF LevelsSorted, Levels

\* A thread that is not moved keeps its place when keys are only added.
LEMMA SearchKept ==
    ASSUME SearchOK, NEW u \in Threads,
           pc'[u] = pc[u], x'[u] = x[u], level'[u] = level[u], target'[u] = target[u],
           \A l \in Levels : LinkedAt(l) \subseteq LinkedAt(l)',
           pc'[u] \in Searches
    PROVE  /\ level'[u] \in Levels
           /\ x'[u] \in OnLevel(level[u])'
           /\ x'[u] < target'[u]
  BY DEF SearchOK, OnLevel

\* A reader's step: the writer's state is unchanged.
LEMMA ReaderStepKeeps ==
    ASSUME IInv, UNCHANGED shared, pc'[Writer] = pc[Writer],
           level'[Writer] = level[Writer], target'[Writer] = target[Writer],
           \A r \in Readers : pc'[r] \in (Searches \ {"find"}) \cup {"idle"}
    PROVE  /\ \A l : LinkedAt(l)' = LinkedAt(l)
           /\ LevelsSorted'
           /\ InsertOK'
<1>1. \A l : LinkedAt(l)' = LinkedAt(l)
  BY DEF LinkedAt, shared
<1>2. LevelsSorted'
  BY <1>1, ListsKept DEF IInv, shared
<1>3. \A l : PrevFits(l) => PrevFits(l)'
  BY <1>1 DEF PrevFits, OnLevel, shared
<1>4. InsertOK'
  BY <1>3 DEF IInv, InsertOK, shared
<1> QED
  BY <1>1, <1>2, <1>4

\* A level is a sublist of the one below, also while a node is half linked:
\* a search that drops a level stands on a node of the lower list.
LEMMA LevelsNest ==
    ASSUME TypeOK, NEW l \in Levels, l > 0
    PROVE  l - 1 \in Levels /\ OnLevel(l) \subseteq OnLevel(l - 1)
<1>1. l \in Int /\ l - 1 \in Levels
  BY DEF Levels
<1>2. ASSUME NEW k \in LinkedAt(l) PROVE k \in LinkedAt(l - 1)
  <2>1. k \in Keys /\ height[k] \in Int /\ level[Writer] \in Int
    BY DEF LinkedAt, TypeOK, Threads
  <2> QED
    BY <1>1, <2>1 DEF LinkedAt
<1> QED
  BY <1>1, <1>2 DEF OnLevel

---------------------------------------------------------------------------
(* The readers' steps.                                                     *)

LEMMA ReaderInv ==
    ASSUME IInv, TypeOK', NEW r \in Readers, ReaderRuns(r) \/ ReaderStarts(r)
    PROVE  IInv'
<1> USE DEF Threads
<1>1. /\ UNCHANGED shared
      /\ \A u \in Threads \ {r} : /\ pc'[u] = pc[u]
                                  /\ x'[u] = x[u]
                                  /\ level'[u] = level[u]
                                  /\ target'[u] = target[u]
  BY DEF IInv, TypeOK, ReaderRuns, ReaderStarts, StepRight, StepDown, ContainsReturn, SeekReturn,
         BackwardReturn, ContainsCall, SeekCall, PrevCall, SeekToLastCall,
         IteratorNext, SeekToFirst, StartSearch, Finish, shared
<1>2. pc'[r] \in (Searches \ {"find"}) \cup {"idle"}
  BY DEF IInv, InsertOK, TypeOK, ReaderRuns, ReaderStarts, StepRight, StepDown, ContainsReturn, SeekReturn,
         BackwardReturn, ContainsCall, SeekCall, PrevCall, SeekToLastCall,
         IteratorNext, SeekToFirst, StartSearch, Finish, Searches
<1>3. \A u \in Readers : pc'[u] \in (Searches \ {"find"}) \cup {"idle"}
  BY <1>1, <1>2 DEF IInv, InsertOK
<1>4. /\ \A l : LinkedAt(l)' = LinkedAt(l)
      /\ LevelsSorted'
      /\ InsertOK'
  BY <1>1, <1>3, ReaderStepKeeps
<1>5. \A l : OnLevel(l)' = OnLevel(l)
  BY <1>4 DEF OnLevel
<1>6. \A u \in Threads \ {r} :
        pc'[u] \in Searches => /\ level'[u] \in Levels
                               /\ x'[u] \in OnLevel(level[u])'
                               /\ x'[u] < target'[u]
  BY <1>1, <1>4, SearchKept DEF IInv
<1>7. SUFFICES /\ pc'[r] \in Searches =>
                    /\ level'[r] \in Levels
                    /\ x'[r] \in OnLevel(level'[r])
                    /\ x'[r] < target'[r]
               /\ \A u \in Readers : node'[u] \in LinkedAt(0) \cup {Null}
               /\ pc'[r] \in {"contains", "seek"} => target'[r] \in Keys
               /\ pc'[r] = "last" => target'[r] = Null
  <2>1. \A l : (OnLevel(l))' = OnLevel(l)
    BY <1>5
  <2>2. SearchOK'
    <3> SUFFICES ASSUME NEW u \in Threads, pc'[u] \in Searches
                 PROVE  /\ level'[u] \in Levels
                        /\ x'[u] \in OnLevel(level[u])'
                        /\ x'[u] < target'[u]
      BY DEF SearchOK
    <3>1. CASE u = r
      BY <3>1, <1>7, <1>4 DEF OnLevel, LinkedAt
    <3> QED
      BY <3>1, <1>6
  <2>3. IteratorsOK'
    BY <1>1, <1>4, <1>7 DEF IInv, IteratorsOK
  <2> QED
    BY <1>4, <2>2, <2>3 DEF IInv
<1>8. CASE StepRight(r)
  <2>1. pc[r] \in Searches /\ NextOf(r) # Null /\ NextOf(r) < target[r]
    BY <1>8 DEF StepRight, KeyIsAfterNode
  <2>2. level[r] \in Levels /\ NextOf(r) \in LinkedAt(level[r])
    BY <2>1, NextOfType
  <2>3. x'[r] = NextOf(r) /\ level' = level /\ target' = target /\ pc' = pc /\ node' = node
    BY <1>8 DEF StepRight, IInv, TypeOK, results
  <2> QED
    BY <2>1, <2>2, <2>3 DEF IInv, IteratorsOK, OnLevel
<1>9. CASE StepDown(r)
  <2>1. pc[r] \in Searches /\ level[r] > 0
    BY <1>9 DEF StepDown
  <2>2. level[r] \in Levels /\ x[r] \in OnLevel(level[r]) /\ x[r] < target[r]
    BY <2>1 DEF IInv, SearchOK
  <2>3. /\ x' = x /\ target' = target /\ pc' = pc /\ node' = node
        /\ level'[r] = level[r] - 1
    BY <1>9 DEF StepDown, IInv, TypeOK, results
  <2>4. level[r] - 1 \in Levels /\ x[r] \in OnLevel(level[r] - 1)
    BY <2>1, <2>2, LevelsNest DEF IInv
  <2> QED
    BY <2>1, <2>2, <2>3, <2>4 DEF IInv, IteratorsOK
<1>10. CASE ContainsReturn(r) \/ SeekReturn(r) \/ BackwardReturn(r)
  <2>1. pc[r] \in Searches /\ level[r] = 0
    BY <1>10 DEF ContainsReturn, SeekReturn, BackwardReturn, AtBottom
  <2>2. /\ NextOf(r) \in LinkedAt(0) \cup {Null}
        /\ x[r] \in LinkedAt(0) \cup {Head}
    BY <2>1, NextOfType DEF OnLevel
  <2>3. pc'[r] = "idle"
    BY <1>10 DEF ContainsReturn, SeekReturn, BackwardReturn, Finish, IInv, TypeOK
  <2>4. \A u \in Readers : node[u] \in LinkedAt(0) \cup {Null}
    BY DEF IInv, IteratorsOK
  <2>5. \A u \in Readers : node'[u] \in LinkedAt(0) \cup {Null}
    BY <1>10, <2>2, <2>4 DEF ContainsReturn, SeekReturn, BackwardReturn, IInv, TypeOK
  <2> QED
    BY <2>3, <2>5 DEF Searches
<1>11. CASE ContainsCall(r) \/ SeekCall(r) \/ PrevCall(r) \/ SeekToLastCall(r)
  <2>1. /\ x'[r] = 0
        /\ level'[r] \in Levels
        /\ pc'[r] \in {"contains", "seek", "prev", "last"}
        /\ pc'[r] \in {"contains", "seek"} => target'[r] \in Keys
        /\ pc'[r] = "last" => target'[r] = Null
        /\ target'[r] \in Keys \cup {Null}
        /\ node' = node
    <3> USE DEF StartSearch, IInv, TypeOK, Levels, Head, results
    <3>1. CASE ContainsCall(r) \/ SeekCall(r)
      BY <3>1 DEF ContainsCall, SeekCall
    <3>2. CASE PrevCall(r)
      BY <3>2 DEF PrevCall
    <3>3. CASE SeekToLastCall(r)
      BY <3>3 DEF SeekToLastCall
    <3> QED
      BY <1>11, <3>1, <3>2, <3>3
  <2>2. x'[r] < target'[r]
    <3>1. \A k \in Keys \cup {Null} : 0 < k
      OBVIOUS
    <3> QED
      BY <2>1, <3>1
  <2> QED
    BY <2>1, <2>2 DEF IInv, IteratorsOK, OnLevel, Head
<1>12. CASE IteratorNext(r) \/ SeekToFirst(r)
  <2>1. \A n \in OnLevel(0) : nxt[n][0] \in LinkedAt(0) \cup {Null}
    BY DEF IInv, LevelsSorted, PointsToSuccessor, Levels
  <2>2. Head \in OnLevel(0) /\ (node[r] # Null => node[r] \in OnLevel(0))
    BY DEF IInv, IteratorsOK, OnLevel
  <2>3. pc'[r] = "idle"
    BY <1>12 DEF IteratorNext, SeekToFirst
  <2>4. \A u \in Readers : node[u] \in LinkedAt(0) \cup {Null}
    BY DEF IInv, IteratorsOK
  <2>5. \A u \in Readers : node'[u] \in LinkedAt(0) \cup {Null}
    BY <1>12, <2>1, <2>2, <2>4 DEF IteratorNext, SeekToFirst, IInv, TypeOK
  <2> QED
    BY <2>3, <2>5 DEF Searches
<1> QED
  BY <1>8, <1>9, <1>10, <1>11, <1>12 DEF ReaderRuns, ReaderStarts

---------------------------------------------------------------------------
(* The writer's steps.                                                     *)

ReadersKept ==
    /\ \A r \in Readers : /\ pc'[r] = pc[r]
                          /\ x'[r] = x[r]
                          /\ level'[r] = level[r]
                          /\ target'[r] = target[r]
    /\ UNCHANGED results

\* A step of the writer only adds keys, so it disturbs no reader.
LEMMA WriterStepKeeps ==
    ASSUME IInv, TypeOK', ReadersKept,
           \A l \in Levels : LinkedAt(l) \subseteq LinkedAt(l)',
           pc'[Writer] \in Searches =>
             /\ level'[Writer] \in Levels
             /\ x'[Writer] \in OnLevel(level[Writer])'
             /\ x'[Writer] < target'[Writer],
           LevelsSorted', InsertOK'
    PROVE  IInv'
<1>1. SearchOK'
  <2> SUFFICES ASSUME NEW u \in Threads, pc'[u] \in Searches
               PROVE  /\ level'[u] \in Levels
                      /\ x'[u] \in OnLevel(level[u])'
                      /\ x'[u] < target'[u]
    BY DEF SearchOK
  <2>1. CASE u \in Readers
    BY <2>1, SearchKept DEF IInv, ReadersKept
  <2> QED
    BY <2>1 DEF Threads
<1>2. IteratorsOK'
  BY DEF IInv, IteratorsOK, ReadersKept, results, Levels
<1> QED
  BY <1>1, <1>2 DEF IInv

\* Insert's own search.
LEMMA InsertSearchInv ==
    ASSUME IInv, TypeOK', InsertCall \/ StepRight(Writer) \/ StepDown(Writer) \/ InsertFound
    PROVE  IInv'
<1> USE DEF Threads
<1>1. ReadersKept /\ UNCHANGED <<nxt, height, max_height>>
  BY DEF ReadersKept, InsertCall, StepRight, StepDown, InsertFound, StartSearch, IInv,
         TypeOK, results, shared
<1>2. /\ pc[Writer] \in {"idle", "find"}
      /\ pc'[Writer] \in {"find", "raise"}
  BY DEF InsertCall, StepRight, StepDown, InsertFound, StartSearch, IInv, InsertOK,
         TypeOK, Searches
<1>3. \A l : LinkedAt(l)' = LinkedAt(l)
  BY <1>1, <1>2 DEF LinkedAt
<1>4. LevelsSorted'
  BY <1>1, <1>3, ListsKept DEF IInv
<1>5. \A l : OnLevel(l)' = OnLevel(l)
  BY <1>3 DEF OnLevel
<1>6. /\ \A k \in Keys : height'[k] <= max_height'
      /\ \A r \in Readers : pc'[r] \in (Searches \ {"find"}) \cup {"idle"}
  BY <1>1 DEF IInv, InsertOK, ReadersKept
<1>7. CASE InsertCall
  <2> PICK k \in Keys : /\ height[k] = 0
                        /\ StartSearch(Writer, "find", k, max_height)
    BY <1>7 DEF InsertCall
  <2>1. /\ target'[Writer] = k
        /\ level'[Writer] = max_height - 1
        /\ pc'[Writer] = "find"
        /\ x'[Writer] = Head
    BY DEF StartSearch, IInv, TypeOK
  <2>2. max_height \in 1 .. kMaxHeight
    BY DEF IInv, TypeOK
  <2>3. InsertOK'
    BY <1>1, <1>6, <2>1, <2>2 DEF InsertOK
  <2>4. Head \in OnLevel(level[Writer])' /\ Head < k /\ max_height - 1 \in Levels
    BY <2>2 DEF OnLevel, Head, Levels
  <2> QED
    BY <1>1, <1>3, <1>4, <2>1, <2>3, <2>4, WriterStepKeeps
<1>8. CASE StepRight(Writer)
  <2>1. pc[Writer] = "find" /\ pc[Writer] \in Searches
    BY <1>2, <1>8 DEF StepRight, Searches
  <2>2. /\ x'[Writer] = NextOf(Writer) /\ level' = level /\ target' = target
        /\ pc' = pc /\ prev' = prev
    BY <1>8 DEF StepRight, IInv, TypeOK, shared
  <2>3. NextOf(Writer) # Null /\ NextOf(Writer) < target[Writer]
    BY <1>8 DEF StepRight, KeyIsAfterNode
  <2>4. level[Writer] \in Levels /\ NextOf(Writer) \in OnLevel(level[Writer])
    BY <2>1, <2>3, NextOfType DEF OnLevel
  <2>5. NextOf(Writer) \in OnLevel(level[Writer])'
    BY <2>2, <2>4, <1>3 DEF OnLevel, LinkedAt
  <2>6. \A l : PrevFits(l) => PrevFits(l)'
    BY <1>1, <1>5, <2>2 DEF PrevFits
  <2>7. InsertOK'
    BY <1>1, <1>6, <2>1, <2>2, <2>6 DEF InsertOK, IInv
  <2> QED
    BY <1>1, <1>3, <1>4, <2>2, <2>3, <2>4, <2>5, <2>7, WriterStepKeeps
<1>a. PICK L \in Int : L = level[Writer]
  BY DEF IInv, TypeOK
<1>9. ASSUME StepDown(Writer) \/ InsertFound
      PROVE  /\ L \in Levels
             /\ target[Writer] \in Keys
             /\ height[target[Writer]] = 0
             /\ pc[Writer] = "find"
             /\ target' = target /\ x' = x
             /\ prev' = [prev EXCEPT ![L] = x[Writer]]
             /\ \A l \in L .. max_height - 1 : PrevFits(l)'
  <2>1. /\ pc[Writer] = "find" /\ pc[Writer] \in Searches
        /\ ~KeyIsAfterNode(target[Writer], NextOf(Writer))
        /\ target' = target /\ x' = x
    BY <1>2, <1>9 DEF StepDown, InsertFound, AtBottom, Searches
  <2>2. /\ L \in Levels
        /\ x[Writer] \in OnLevel(L)
        /\ NextOf(Writer) \in LinkedAt(L) \cup {Null}
        /\ NextOf(Writer) = nxt[x[Writer]][L]
        /\ x[Writer] < target[Writer]
    BY <1>a, <2>1, NextOfType DEF IInv, SearchOK, NextOf
  <2>3. target[Writer] \in Keys /\ height[target[Writer]] = 0
    BY <2>1 DEF IInv, InsertOK
  <2>4. target[Writer] \notin LinkedAt(L)
    BY <2>2, <2>3 DEF LinkedAt, Levels
  <2>5. target[Writer] < nxt[x[Writer]][L]
    <3>1. NextOf(Writer) \in Nat /\ NextOf(Writer) # target[Writer]
      BY <2>2, <2>3, <2>4, KeyFacts
    <3>2. target[Writer] \in Nat /\ target[Writer] < Null
      BY <2>3, KeyFacts
    <3> QED
      BY <2>1, <2>2, <3>1, <3>2 DEF KeyIsAfterNode
  <2>6. prev' = [prev EXCEPT ![L] = x[Writer]]
    BY <1>9, <1>a DEF StepDown, InsertFound, AtBottom
  <2>7. PrevFits(L)'
    BY <1>1, <1>5, <2>1, <2>2, <2>5, <2>6 DEF PrevFits, IInv, TypeOK
  <2>8. ASSUME NEW l \in L + 1 .. max_height - 1 PROVE PrevFits(l)'
    <3>1. PrevFits(l) /\ l \in Levels /\ l # L
      BY <1>a, <2>1, <2>2 DEF IInv, InsertOK, TypeOK, Levels
    <3> QED
      BY <3>1, <1>1, <1>5, <2>1, <2>2, <2>6 DEF PrevFits, IInv, TypeOK
  <2>9. ASSUME NEW l \in L .. max_height - 1 PROVE PrevFits(l)'
    <3>1. l = L \/ l \in L + 1 .. max_height - 1
      BY <2>2 DEF Levels
    <3> QED
      BY <3>1, <2>7, <2>8
  <2> QED
    BY <2>1, <2>2, <2>3, <2>6, <2>9
<1>10. CASE StepDown(Writer)
  <2>1. level'[Writer] = L - 1 /\ pc' = pc /\ L > 0
    BY <1>a, <1>10 DEF StepDown, IInv, TypeOK
  <2>2. /\ L \in Int /\ L - 1 \in Levels
        /\ x[Writer] \in OnLevel(L - 1)
        /\ x[Writer] < target[Writer]
    BY <1>a, <1>9, <1>10, <2>1, LevelsNest DEF IInv, SearchOK, Searches, Levels
  <2>3. InsertOK'
    <3>1. level'[Writer] < max_height'
      BY <1>a, <1>1, <1>9, <1>10, <2>1 DEF IInv, InsertOK, TypeOK
    <3>2. \A l \in level'[Writer] + 1 .. max_height' - 1 : PrevFits(l)'
      BY <1>1, <1>9, <1>10, <2>1
    <3> QED
      BY <1>1, <1>6, <1>9, <1>10, <2>1, <3>1, <3>2 DEF InsertOK
  <2>4. x[Writer] \in OnLevel(level[Writer])'
    BY <1>5, <2>1, <2>2 DEF OnLevel, LinkedAt
  <2> QED
    BY <1>1, <1>3, <1>4, <1>9, <1>10, <2>1, <2>2, <2>3, <2>4, WriterStepKeeps
<1>11. CASE InsertFound
  <2>1. level' = level /\ L = 0 /\ pc'[Writer] = "raise"
    BY <1>a, <1>11 DEF InsertFound, AtBottom, IInv, TypeOK
  <2>2. InsertOK'
    <3>1. \A l \in 0 .. max_height' - 1 : PrevFits(l)'
      BY <1>1, <1>9, <1>11, <2>1
    <3> QED
      BY <1>a, <1>1, <1>6, <1>9, <1>11, <2>1, <3>1 DEF InsertOK
  <2> QED
    BY <1>1, <1>3, <1>4, <2>1, <2>2, WriterStepKeeps DEF Searches
<1> QED
  BY <1>7, <1>8, <1>10, <1>11

\* NewNode: the new levels are empty, so head_ is the predecessor there.
LEMMA NewNodeInv ==
    ASSUME IInv, TypeOK', NewNode
    PROVE  IInv'
<1> USE DEF Threads
<1>1. PICK h \in 1 .. kMaxHeight :
        /\ RaiseHeight(h)
        /\ height' = [height EXCEPT ![target[Writer]] = h]
  BY DEF NewNode
<1>2. /\ pc[Writer] = "raise" /\ pc'[Writer] = "set"
      /\ nxt' = nxt /\ level' = level /\ target' = target
      /\ ReadersKept
  BY DEF NewNode, ReadersKept, IInv, TypeOK, results
<1>3. /\ target[Writer] \in Keys
      /\ height[target[Writer]] = 0
      /\ level[Writer] = 0
      /\ \A l \in 0 .. max_height - 1 : PrevFits(l)
      /\ \A k \in Keys : height[k] \in 0 .. kMaxHeight /\ height[k] <= max_height
      /\ max_height \in 1 .. kMaxHeight
  BY <1>2 DEF IInv, InsertOK, TypeOK
<1>4. \A l \in Levels : LinkedAt(l)' = LinkedAt(l)
  BY <1>1, <1>2, <1>3 DEF LinkedAt, Levels, IInv, TypeOK
<1>5. LevelsSorted'
  BY <1>2, <1>4, ListsKept DEF IInv
<1>6. height'[target[Writer]] = h
  BY <1>1, <1>3 DEF IInv, TypeOK
<1>7. ASSUME NEW l \in 0 .. h - 1 PROVE PrevFits(l)'
  <2>1. l \in Levels /\ OnLevel(l)' = OnLevel(l)
    BY <1>4 DEF Levels, OnLevel
  <2>2. CASE l < max_height
    <3>1. PrevFits(l) /\ prev'[l] = prev[l]
      BY <1>1, <1>3, <2>1, <2>2 DEF RaiseHeight
    <3> QED
      BY <1>2, <2>1, <3>1 DEF PrevFits
  <2>3. CASE ~(l < max_height)
    <3>1. prev'[l] = Head
      BY <1>1, <1>3, <2>1, <2>3 DEF RaiseHeight
    <3>2. LinkedAt(l) = {}
      <4>1. l \in Int /\ \A k \in Keys : ~(l < height[k])
        BY <1>3, <2>1, <2>3
      <4> QED
        BY <4>1 DEF LinkedAt
    <3>3. Head \in OnLevel(l) /\ nxt[Head][l] = Null
      BY <2>1, <3>2 DEF OnLevel, IInv, LevelsSorted, PointsToSuccessor
    <3>4. /\ Head < target[Writer] /\ target[Writer] < Null
      BY <1>3, KeyFacts DEF Head
    <3>5. /\ prev'[l] \in OnLevel(l)'
          /\ prev'[l] < target'[Writer]
          /\ target'[Writer] < nxt'[prev'[l]][l]
      BY <1>2, <2>1, <3>1, <3>3, <3>4
    <3> QED
      BY <3>5 DEF PrevFits
  <2> QED
    BY <2>2, <2>3
<1>8. InsertOK'
  <2>1. \A k \in Keys : height'[k] <= max_height'
    BY <1>1, <1>3 DEF RaiseHeight, IInv, TypeOK
  <2>2. \A r \in Readers : pc'[r] \in (Searches \ {"find"}) \cup {"idle"}
    BY <1>2 DEF IInv, InsertOK, ReadersKept
  <2>3. \A l \in level'[Writer] .. height'[target'[Writer]] - 1 : PrevFits(l)'
    BY <1>2, <1>3, <1>6, <1>7
  <2> QED
    BY <1>2, <1>3, <1>6, <2>1, <2>2, <2>3 DEF InsertOK
<1> QED
  BY <1>2, <1>4, <1>5, <1>8, WriterStepKeeps DEF Searches

\* The first half of a link: only the new node's own pointer changes.
LEMMA SetNextInv ==
    ASSUME IInv, TypeOK', SetNext
    PROVE  IInv'
<1> USE DEF Threads
<1>0. level[Writer] \in Int /\ target[Writer] \in Keys
  BY DEF IInv, InsertOK, TypeOK, SetNext
<1>1. PICK L \in Int, k \in Keys : L = level[Writer] /\ k = target[Writer]
  BY <1>0
<1>2. /\ pc[Writer] = "set" /\ pc'[Writer] = "publish"
      /\ level' = level /\ target' = target /\ height' = height
      /\ prev' = prev /\ max_height' = max_height
      /\ L < height[k]
      /\ nxt' = [nxt EXCEPT ![k][L] = nxt[prev[L]][L]]
      /\ ReadersKept
  BY <1>1 DEF SetNext, ReadersKept, IInv, TypeOK, results
<1>3. /\ L \in Levels
      /\ \A l \in L .. height[k] - 1 : PrevFits(l)
      /\ height[k] \in 1 .. kMaxHeight
  <2>1. L \in Levels /\ height[k] \in 0 .. kMaxHeight
    BY <1>1, <1>2, LinkingType DEF IInv, TypeOK
  <2>2. \A l \in L .. height[k] - 1 : PrevFits(l)
    BY <1>1, <1>2 DEF IInv, InsertOK
  <2> QED
    BY <1>2, <2>1, <2>2 DEF Levels
<1>4. \A l : LinkedAt(l)' = LinkedAt(l)
  BY <1>2 DEF LinkedAt
<1>5. \A l : OnLevel(l)' = OnLevel(l)
  BY <1>4 DEF OnLevel
<1>6. \A l \in Levels, n \in Nodes : n # k \/ l # L => nxt'[n][l] = nxt[n][l]
  BY <1>2, <1>3 DEF IInv, TypeOK, Nodes
<1>7. k \notin OnLevel(L)
  BY <1>1, <1>2, KeyFacts DEF OnLevel, LinkedAt
<1>8. LevelsSorted'
  <2> SUFFICES ASSUME NEW l \in Levels, NEW n \in OnLevel(l)'
               PROVE  PointsToSuccessor(n, l)'
    BY DEF LevelsSorted, Levels
  <2>1. n \in OnLevel(l) /\ n \in Nodes
    BY <1>5 DEF OnLevel, LinkedAt, Nodes
  <2>2. PointsToSuccessor(n, l) /\ nxt'[n][l] = nxt[n][l]
    BY <1>6, <1>7, <2>1 DEF IInv, LevelsSorted
  <2> QED
    BY <1>4, <2>2 DEF PointsToSuccessor
<1>9. ASSUME NEW l \in L .. height[k] - 1 PROVE PrevFits(l)'
  <2>1. PrevFits(l) /\ l \in Levels
    BY <1>3 DEF Levels
  <2>2. prev[l] \in Nodes /\ prev[l] # k
    BY <1>1, <2>1, KeyFacts DEF PrevFits, OnLevel, Nodes, Head
  <2>3. nxt'[prev[l]][l] = nxt[prev[l]][l]
    BY <1>6, <2>1, <2>2
  <2> QED
    BY <1>2, <1>5, <2>1, <2>3 DEF PrevFits
<1>10. nxt'[k][L] = nxt'[prev[L]][L]
  <2>1. L \in L .. height[k] - 1
    BY <1>2, <1>3
  <2>2. prev[L] \in Nodes /\ prev[L] # k
    BY <1>1, <1>3, <2>1, KeyFacts DEF PrevFits, OnLevel, Nodes, Head
  <2>3. nxt'[prev[L]][L] = nxt[prev[L]][L]
    BY <1>3, <1>6, <2>2
  <2> QED
    BY <1>2, <1>3, <2>3 DEF IInv, TypeOK, Nodes
<1>11. InsertOK'
  <2>1. \A j \in Keys : height'[j] <= max_height'
    BY <1>2 DEF IInv, InsertOK
  <2>2. \A r \in Readers : pc'[r] \in (Searches \ {"find"}) \cup {"idle"}
    BY <1>2 DEF IInv, InsertOK, ReadersKept
  <2>3. \A l \in level'[Writer] .. height'[target'[Writer]] - 1 : PrevFits(l)'
    BY <1>1, <1>2, <1>9
  <2> QED
    BY <1>1, <1>2, <1>3, <1>10, <2>1, <2>2, <2>3 DEF InsertOK
<1> QED
  BY <1>2, <1>4, <1>8, <1>11, WriterStepKeeps DEF Searches

\* The second half: the new node enters level L between prev[L] and its
\* successor; the other levels are untouched.
LEMMA PublishInv ==
    ASSUME IInv, TypeOK', Publish
    PROVE  IInv'
<1> USE DEF Threads
<1>0. level[Writer] \in Int /\ target[Writer] \in Keys
  BY DEF IInv, InsertOK, TypeOK, Publish
<1>1. PICK L \in Int, k \in Keys : L = level[Writer] /\ k = target[Writer]
  BY <1>0
<1>2. /\ pc[Writer] = "publish" /\ pc'[Writer] = "set"
      /\ level'[Writer] = L + 1 /\ target' = target /\ height' = height
      /\ prev' = prev /\ max_height' = max_height
      /\ nxt' = [nxt EXCEPT ![prev[L]][L] = k]
      /\ ReadersKept
  BY <1>1 DEF Publish, ReadersKept, IInv, TypeOK, results
<1>3. /\ L \in Levels
      /\ L < height[k]
      /\ height[k] \in 1 .. kMaxHeight
      /\ nxt[k][L] = nxt[prev[L]][L]
  <2>1. L < height[k] /\ nxt[k][L] = nxt[prev[L]][L]
    BY <1>1, <1>2 DEF IInv, InsertOK
  <2>2. L \in Levels /\ height[k] \in 0 .. kMaxHeight
    BY <1>1, <1>2, <2>1, LinkingType DEF IInv, TypeOK
  <2> QED
    BY <2>1, <2>2 DEF Levels
<1>4. \A l \in L .. height[k] - 1 : PrevFits(l)
  BY <1>1, <1>2 DEF IInv, InsertOK
<1>5. PICK p \in Nodes : p = prev[L] /\ p \in OnLevel(L) /\ p < k /\ k < nxt[p][L]
  <2>1. L \in L .. height[k] - 1
    BY <1>3
  <2> QED
    BY <1>1, <1>4, <2>1 DEF PrevFits, OnLevel, LinkedAt, Nodes
<1>6. /\ \A l \in Levels : l # L => LinkedAt(l)' = LinkedAt(l)
      /\ LinkedAt(L)' = LinkedAt(L) \cup {k}
  <2>1. \A l \in Levels : l # L => LinkedAt(l)' = LinkedAt(l)
    BY <1>1, <1>2 DEF LinkedAt, Levels
  <2>2. LinkedAt(L)' = LinkedAt(L) \cup {k}
    BY <1>1, <1>2, <1>3 DEF LinkedAt, Levels
  <2> QED
    BY <2>1, <2>2
<1>7. /\ \A l \in Levels, n \in Nodes : n # p \/ l # L => nxt'[n][l] = nxt[n][l]
      /\ nxt'[p][L] = k
  BY <1>2, <1>3, <1>5 DEF IInv, TypeOK, Nodes
<1>8. \A n \in Nodes : n \in Nat
  BY KeyFacts DEF Nodes, Head
<1>9. LevelsSorted'
  <2> SUFFICES ASSUME NEW l \in Levels, NEW n \in OnLevel(l)'
               PROVE  PointsToSuccessor(n, l)'
    BY DEF LevelsSorted, Levels
  <2>1. CASE l # L
    <3>1. LinkedAt(l)' = LinkedAt(l) /\ n \in OnLevel(l) /\ n \in Nodes
      BY <1>6, <2>1 DEF OnLevel, LinkedAt, Nodes
    <3>2. PointsToSuccessor(n, l) /\ nxt'[n][l] = nxt[n][l]
      BY <1>7, <2>1, <3>1 DEF IInv, LevelsSorted
    <3> QED
      BY <3>1, <3>2 DEF PointsToSuccessor
  <2>2. CASE l = L
    <3>1. n \in OnLevel(L) \cup {k} /\ n \in Nodes
      BY <1>6, <2>2, KeyFacts DEF OnLevel, Nodes
    <3>2. \A m \in OnLevel(L) : PointsToSuccessor(m, L)
      BY <1>3 DEF IInv, LevelsSorted
    <3>3. /\ nxt[p][L] \in LinkedAt(L) \cup {Null}
          /\ nxt[p][L] \in Nat
          /\ \A j \in LinkedAt(L) : p < j => nxt[p][L] <= j
      BY <1>5, <3>2, KeyFacts DEF PointsToSuccessor
    <3>a. p \in Nat /\ k \in Nat /\ n \in Nat /\ \A j \in LinkedAt(L) : j \in Nat
      BY <1>8, <3>1, KeyFacts
    <3>4. SUFFICES /\ nxt'[n][L] \in LinkedAt(L) \cup {k, Null}
                   /\ n < nxt'[n][L]
                   /\ \A j \in LinkedAt(L) \cup {k} : n < j => nxt'[n][L] <= j
      BY <1>6, <2>2, <3>4 DEF PointsToSuccessor
    <3>5. CASE n = p
      <4>1. nxt'[n][L] = k
        BY <1>7, <3>5
      <4>2. \A j \in LinkedAt(L) : n < j => k <= j
        BY <1>5, <3>a, <3>3, <3>5
      <4> QED
        BY <1>5, <3>5, <4>1, <4>2, KeyFacts
    <3>6. CASE n = k
      <4>1. nxt'[n][L] = nxt[p][L] /\ k # p
        BY <1>3, <1>5, <1>7, <1>8, <3>1, <3>6
      <4>2. \A j \in LinkedAt(L) : k < j => nxt[p][L] <= j
        BY <1>5, <3>a, <3>3
      <4> QED
        BY <1>5, <3>3, <3>6, <4>1, <4>2, KeyFacts
    <3>7. CASE n # p /\ n # k
      <4>1. PointsToSuccessor(n, L) /\ nxt'[n][L] = nxt[n][L] /\ n \in OnLevel(L)
        BY <1>3, <1>7, <3>1, <3>2, <3>7
      <4>2. nxt[n][L] \in LinkedAt(L) \cup {Null} /\ nxt[n][L] \in Nat /\ n < nxt[n][L]
        BY <4>1, KeyFacts DEF PointsToSuccessor
      <4>3. ASSUME n < k PROVE nxt[n][L] <= k
        <5>1. CASE n < p
          <6>1. p \in LinkedAt(L)
            BY <1>5, <1>8, <3>1, <5>1 DEF OnLevel, Head
          <6>2. nxt[n][L] <= p
            BY <4>1, <5>1, <6>1 DEF PointsToSuccessor
          <6> QED
            BY <1>5, <3>a, <4>2, <6>2
        <5>2. CASE p < n
          <6>1. n \in LinkedAt(L)
            BY <1>8, <4>1, <5>2 DEF OnLevel, Head
          <6>2. nxt[p][L] <= n
            BY <3>3, <5>2, <6>1
          <6> QED
            BY <1>5, <1>8, <3>1, <3>3, <4>3, <6>2, KeyFacts
        <5> QED
          BY <1>8, <3>1, <3>7, <5>1, <5>2
      <4> QED
        BY <4>1, <4>2, <4>3 DEF PointsToSuccessor
    <3> QED
      BY <3>5, <3>6, <3>7
  <2> QED
    BY <2>1, <2>2
<1>10. ASSUME NEW l \in L + 1 .. height[k] - 1 PROVE PrevFits(l)'
  <2>1. PrevFits(l) /\ l \in Levels /\ l # L
    BY <1>3, <1>4 DEF Levels
  <2>2. prev[l] \in Nodes /\ nxt'[prev[l]][l] = nxt[prev[l]][l] /\ OnLevel(l)' = OnLevel(l)
    BY <1>6, <1>7, <2>1, KeyFacts DEF PrevFits, OnLevel, Nodes
  <2> QED
    BY <1>2, <2>1, <2>2 DEF PrevFits
<1>11. InsertOK'
  <2>1. \A j \in Keys : height'[j] <= max_height'
    BY <1>2 DEF IInv, InsertOK
  <2>2. \A r \in Readers : pc'[r] \in (Searches \ {"find"}) \cup {"idle"}
    BY <1>2 DEF IInv, InsertOK, ReadersKept
  <2>3. \A l \in level'[Writer] .. height'[target'[Writer]] - 1 : PrevFits(l)'
    BY <1>1, <1>2, <1>10
  <2> QED
    BY <1>1, <1>2, <1>3, <2>1, <2>2, <2>3 DEF InsertOK
<1>12. \A l \in Levels : LinkedAt(l) \subseteq LinkedAt(l)'
  BY <1>6
<1> QED
  BY <1>2, <1>9, <1>11, <1>12, WriterStepKeeps DEF Searches

(* The return of Insert keeps the invariant.                               *)
LEMMA InsertReturnInv ==
    ASSUME IInv, TypeOK', InsertReturn
    PROVE  IInv'
<1> USE DEF Threads
<1>1. /\ pc[Writer] = "set" /\ pc'[Writer] = "idle"
      /\ nxt' = nxt /\ height' = height /\ max_height' = max_height
      /\ level[Writer] = height[target[Writer]]
      /\ ReadersKept
  BY DEF InsertReturn, Finish, ReadersKept, IInv, TypeOK, results
<1>2. \A l \in Levels : LinkedAt(l)' = LinkedAt(l)
  <2>1. target[Writer] \in Keys /\ height[target[Writer]] \in Int
    BY <1>1 DEF IInv, InsertOK, TypeOK
  <2> QED
    BY <1>1, <2>1 DEF LinkedAt, Levels
<1>3. LevelsSorted'
  BY <1>1, <1>2, ListsKept DEF IInv
<1>4. InsertOK'
  BY <1>1 DEF InsertOK, IInv, ReadersKept
<1> QED
  BY <1>1, <1>2, <1>3, <1>4, WriterStepKeeps DEF Searches

---------------------------------------------------------------------------
(* The invariants of the list.                                             *)

LEMMA StepIInv == IInv /\ [Next]_vars => IInv'
<1> SUFFICES ASSUME IInv, [Next]_vars PROVE IInv'
  OBVIOUS
<1>1. TypeOK'
  BY TypeStep
<1>2. CASE UNCHANGED vars
  BY <1>2 DEF vars, IInv, TypeOK, LevelsSorted, PointsToSuccessor, SearchOK, InsertOK,
       IteratorsOK, OnLevel, LinkedAt, PrevFits
<1>3. CASE Next
  BY <1>1, <1>3, ReaderInv, InsertSearchInv, NewNodeInv, SetNextInv, PublishInv,
     InsertReturnInv
  DEF Next, WriterRuns
<1> QED
  BY <1>2, <1>3

(* IInv holds in every state of every run.                                 *)
LEMMA IInvIsInvariant == Spec => []IInv
  BY InitIInv, StepIInv, PTL DEF Spec

\* Every variable keeps its type, whatever the threads do.
THEOREM TypeCorrect == Spec => []TypeOK
<1>1. IInv => TypeOK
  BY DEF IInv
<1> QED
  BY <1>1, IInvIsInvariant, PTL

\* At every instant each level of the list is a sorted chain through exactly
\* the keys linked on it: what a walk by FindGreaterOrEqual, FindLessThan,
\* FindLast or Iterator::Next relies on while Insert is under way.
THEOREM ListsSorted == Spec => []LevelsSorted
<1>1. IInv => LevelsSorted
  BY DEF IInv
<1> QED
  BY <1>1, IInvIsInvariant, PTL

\* No thread follows a pointer that nobody has assigned or an entry beyond the
\* end of a node's next_ array, for any height a reader loads.
THEOREM ReadsAreDefined == Spec => []NoWildRead
<1>1. IInv => NoWildRead
  <2> SUFFICES ASSUME IInv PROVE NoWildRead
    OBVIOUS
  <2>1. ASSUME NEW t \in Threads, pc[t] \in Searches
        PROVE  level[t] < HeightOf(x[t]) /\ NextOf(t) # Uninit
    <3>1. /\ level[t] \in Levels /\ x[t] \in OnLevel(level[t])
          /\ NextOf(t) \in Keys \cup {Null}
      BY <2>1, NextOfType
    <3>2. NextOf(t) # Uninit
      BY <3>1, KeyFacts DEF Uninit
    <3>3. level[t] < HeightOf(x[t])
      BY <3>1, KeyFacts DEF HeightOf, OnLevel, LinkedAt, Levels
    <3> QED
      BY <3>2, <3>3
  <2>2. ASSUME pc[Writer] \in {"set", "publish"},
               NEW l \in level[Writer] .. height[target[Writer]] - 1
        PROVE  prev[l] # Uninit
    <3>1. PrevFits(l)
      BY <2>2 DEF IInv, InsertOK
    <3> QED
      BY <3>1, KeyFacts DEF PrevFits, OnLevel, Head, Uninit
  <2>3. ASSUME NEW r \in Readers, node[r] # Null PROVE nxt[node[r]][0] # Uninit
    <3>1. PointsToSuccessor(node[r], 0)
      BY <2>3 DEF IInv, IteratorsOK, LevelsSorted, OnLevel, Levels
    <3> QED
      BY <3>1, KeyFacts DEF PointsToSuccessor, Uninit
  <2> QED
    BY <2>1, <2>2, <2>3 DEF NoWildRead
<1> QED
  BY <1>1, IInvIsInvariant, PTL

---------------------------------------------------------------------------
(* SkipList implements OrderedSet: every step of the list is a step of the *)
(* set or leaves it unchanged.                                             *)

HIDE WriterAssumption
HIDE HeightAssumption
HIDE NullAssumption
HIDE KeysAssumption

(* The null pointer is greater than every key.                             *)
LEMMA PointerFacts ==
    /\ \A k \in Keys \cup {Null} : k \in Nat /\ 0 < k /\ k <= Null
    /\ \A k \in Keys : k < Null
  BY KeysAssumption, NullAssumption

calls == [t \in Threads |-> CallOf(t)]

(* The empty list implements the empty set.                                *)
LEMMA InitRefines == Init => OS!Init
<1> SUFFICES ASSUME Init PROVE OS!Init
  OBVIOUS
<1>1. LinkedAt(0) = {}
  BY DEF Init, LinkedAt
<1>2. \A t \in Threads : CallOf(t) = "idle"
  BY DEF Init, CallOf
<1> QED
  BY <1>1, <1>2 DEF Init, OS!Init, OS!Threads, Threads

\* A step that moves only thread t, to the abstract call c.
LEMMA CallMoves ==
    ASSUME NEW t \in Threads, NEW c, CallOf(t)' = c,
           \A u \in Threads \ {t} : CallOf(u)' = CallOf(u)
    PROVE  calls' = [calls EXCEPT ![t] = c]
  BY DEF calls, Threads

(* A step of one thread leaves the calls of the others as they are.        *)
LEMMA OthersKeepCall ==
    ASSUME NEW t \in Threads,
           \A u \in Threads \ {t} : pc'[u] = pc[u] /\ level'[u] = level[u]
    PROVE  \A u \in Threads \ {t} : CallOf(u)' = CallOf(u)
  BY DEF CallOf

\* The place where a reader's search ends is the one the ordered set wants.
LEMMA SearchEnds ==
    ASSUME IInv, NEW r \in Readers, AtBottom(r)
    PROVE  /\ NextOf(r) \in Keys \cup {Null}
           /\ x[r] \in Keys \cup {Head}
           /\ OS!IsLeast(NextOf(r), {k \in LinkedAt(0) : k >= target[r]})
           /\ OS!IsGreatest(IF x[r] = Head THEN Null ELSE x[r],
                            {k \in LinkedAt(0) : k < target[r]})
           /\ target[r] \in Keys => (NextOf(r) = target[r] <=> target[r] \in LinkedAt(0))
<1>0. r \in Threads /\ pc[r] \in Searches /\ level[r] = 0
  BY DEF Threads, AtBottom
<1>1. /\ x[r] \in OnLevel(0)
      /\ NextOf(r) \in LinkedAt(0) \cup {Null}
      /\ NextOf(r) \in Keys \cup {Null}
      /\ x[r] < NextOf(r)
      /\ \A k \in LinkedAt(0) : x[r] < k => NextOf(r) <= k
  BY <1>0, NextOfType
<1>2. x[r] < target[r] /\ target[r] \in Keys \cup {Null}
  BY <1>0 DEF IInv, SearchOK, TypeOK
<1>3. /\ x[r] \in Nat /\ target[r] \in Nat /\ NextOf(r) \in Nat /\ target[r] <= Null
      /\ \A k \in LinkedAt(0) : k \in Nat /\ 0 < k /\ k < Null /\ k # Null
      /\ x[r] \in Keys \cup {Head}
  <2>1. \A k \in LinkedAt(0) : k \in Nat /\ 0 < k /\ k < Null /\ k # Null
    BY KeyFacts
  <2>2. \A k \in Keys \cup {Null} : k \in Nat /\ k <= Null
    BY PointerFacts
  <2>3. target[r] \in Nat /\ NextOf(r) \in Nat /\ target[r] <= Null
    BY <1>1, <1>2, <2>2
  <2>4. x[r] \in Keys \cup {Head}
    BY <1>1, KeyFacts DEF OnLevel
  <2>5. x[r] \in Nat
    BY <2>4, PointerFacts DEF Head
  <2> QED
    BY <2>1, <2>3, <2>4, <2>5
<1>4. NextOf(r) >= target[r]
  BY <1>3 DEF AtBottom, KeyIsAfterNode
<1>5. OS!IsLeast(NextOf(r), {k \in LinkedAt(0) : k >= target[r]})
  <2>1. CASE NextOf(r) = Null
    <3>1. \A k \in LinkedAt(0) : ~(k >= target[r])
      <4> SUFFICES ASSUME NEW k \in LinkedAt(0), k >= target[r] PROVE FALSE
        OBVIOUS
      <4>1. k \in Nat /\ k < Null /\ x[r] < k
        BY <1>2, <1>3
      <4>2. Null <= k
        BY <1>1, <2>1, <4>1
      <4> QED
        BY <4>1, <4>2, PointerFacts
    <3> QED
      BY <2>1, <3>1 DEF OS!IsLeast
  <2>2. CASE NextOf(r) # Null
    <3>1. NextOf(r) \in {k \in LinkedAt(0) : k >= target[r]}
      BY <1>1, <1>4, <2>2
    <3>2. \A k \in LinkedAt(0) : k >= target[r] => NextOf(r) <= k
      BY <1>1, <1>2, <1>3
    <3> QED
      BY <3>1, <3>2 DEF OS!IsLeast
  <2> QED
    BY <2>1, <2>2
<1>6. \A k \in LinkedAt(0) : k < target[r] => k <= x[r]
  BY <1>1, <1>3, <1>4
<1>7. OS!IsGreatest(IF x[r] = Head THEN Null ELSE x[r], {k \in LinkedAt(0) : k < target[r]})
  <2>1. CASE x[r] = Head
    <3>1. \A k \in LinkedAt(0) : ~(k < target[r])
      <4> SUFFICES ASSUME NEW k \in LinkedAt(0), k < target[r] PROVE FALSE
        OBVIOUS
      <4>1. k \in Nat /\ 0 < k /\ k <= 0
        BY <1>3, <1>6, <2>1 DEF Head
      <4> QED
        BY <4>1
    <3> QED
      BY <2>1, <3>1 DEF OS!IsGreatest
  <2>2. CASE x[r] # Head
    <3>1. x[r] \in {k \in LinkedAt(0) : k < target[r]}
      BY <1>1, <1>2, <2>2 DEF OnLevel
    <3> QED
      BY <1>6, <2>2, <3>1 DEF OS!IsGreatest
  <2> QED
    BY <2>1, <2>2
<1>8. ASSUME target[r] \in Keys
      PROVE  NextOf(r) = target[r] <=> target[r] \in LinkedAt(0)
  <2>1. target[r] \in LinkedAt(0) => NextOf(r) <= target[r]
    BY <1>1, <1>2
  <2>2. target[r] # Null
    BY <1>8, KeyFacts
  <2> QED
    BY <1>1, <1>3, <1>4, <2>1, <2>2
<1> QED
  BY <1>1, <1>3, <1>5, <1>7, <1>8

---------------------------------------------------------------------------
(* The readers' steps.                                                     *)

LEMMA ReaderKeepsSet ==
    ASSUME IInv, NEW r \in Readers, ReaderRuns(r) \/ ReaderStarts(r)
    PROVE  /\ LinkedAt(0)' = LinkedAt(0)
           /\ \A u \in Threads \ {r} : CallOf(u)' = CallOf(u)
<1>1. /\ UNCHANGED shared
      /\ \A u \in Threads \ {r} : /\ pc'[u] = pc[u]
                                  /\ level'[u] = level[u]
                                  /\ target'[u] = target[u]
  BY WriterAssumption
  DEF IInv, TypeOK, ReaderRuns, ReaderStarts, StepRight, StepDown, ContainsReturn, SeekReturn,
      BackwardReturn, ContainsCall, SeekCall, PrevCall, SeekToLastCall,
      IteratorNext, SeekToFirst, StartSearch, Finish, shared, Threads
<1>2. LinkedAt(0)' = LinkedAt(0)
  BY <1>1, WriterAssumption DEF LinkedAt, shared, Threads
<1>3. \A u \in Threads \ {r} : CallOf(u)' = CallOf(u)
  BY <1>1 DEF CallOf
<1> QED
  BY <1>2, <1>3

(* The calls of a reader are calls of the set.                             *)
LEMMA ReaderCallsRefine ==
    ASSUME IInv, NEW r \in Readers,
           ContainsCall(r) \/ SeekCall(r) \/ PrevCall(r) \/ SeekToLastCall(r)
    PROVE  OS!ReaderStep(r)
<1> USE DEF Threads
<1>0. /\ LinkedAt(0)' = LinkedAt(0)
      /\ \A u \in Threads \ {r} : CallOf(u)' = CallOf(u)
  BY ReaderKeepsSet DEF ReaderStarts
<1>1. ASSUME NEW c \in {"contains", "seek", "prev", "last"}, NEW k, NEW h,
             StartSearch(r, c, k, h), UNCHANGED results
      PROVE  OS!Invoke(r, c, k)
  <2>1. CallOf(r) = "idle" /\ CallOf(r)' = c
    BY <1>1 DEF StartSearch, CallOf, IInv, TypeOK
  <2>2. calls' = [calls EXCEPT ![r] = c]
    BY <1>0, <2>1, CallMoves
  <2> QED
    BY <1>0, <1>1, <2>1, <2>2 DEF OS!Invoke, calls, StartSearch, results
<1>2. CASE ContainsCall(r)
  <2>1. PICK k \in Keys, h \in 1 .. kMaxHeight :
          StartSearch(r, "contains", k, h) /\ UNCHANGED results
    BY <1>2 DEF ContainsCall
  <2> QED
    BY <1>1, <2>1 DEF OS!ReaderStep, OS!InvokeContains
<1>3. CASE SeekCall(r)
  <2>1. PICK k \in Keys, h \in 1 .. kMaxHeight :
          StartSearch(r, "seek", k, h) /\ UNCHANGED results
    BY <1>3 DEF SeekCall
  <2> QED
    BY <1>1, <2>1 DEF OS!ReaderStep, OS!InvokeSeek
<1>4. CASE PrevCall(r)
  <2>1. PICK h \in 1 .. kMaxHeight : StartSearch(r, "prev", node[r], h)
    BY <1>4 DEF PrevCall
  <2>2. node[r] # Null /\ UNCHANGED results
    BY <1>4 DEF PrevCall
  <2> QED
    BY <1>1, <2>1, <2>2 DEF OS!ReaderStep, OS!InvokePrev
<1>5. CASE SeekToLastCall(r)
  <2>1. PICK h \in 1 .. kMaxHeight :
          StartSearch(r, "last", Null, h) /\ UNCHANGED results
    BY <1>5 DEF SeekToLastCall
  <2> QED
    BY <1>1, <2>1 DEF OS!ReaderStep, OS!InvokeLast
<1> QED
  BY <1>2, <1>3, <1>4, <1>5

(* The returns of a reader are those of the set: what it found was right   *)
(* at an instant of the call.                                              *)
LEMMA ReaderReturnsRefine ==
    ASSUME IInv, NEW r \in Readers,
           ContainsReturn(r) \/ SeekReturn(r) \/ BackwardReturn(r)
    PROVE  OS!ReaderStep(r)
<1> USE DEF Threads
<1>0. /\ LinkedAt(0)' = LinkedAt(0)
      /\ \A u \in Threads \ {r} : CallOf(u)' = CallOf(u)
  BY ReaderKeepsSet DEF ReaderRuns
<1>1. AtBottom(r) /\ Finish(r)
  BY DEF ContainsReturn, SeekReturn, BackwardReturn
<1>2. OS!Finish(r)
  <2>1. CallOf(r)' = "idle"
    BY <1>1 DEF Finish, CallOf, IInv, TypeOK
  <2>2. calls' = [calls EXCEPT ![r] = "idle"]
    BY <1>0, <2>1, CallMoves
  <2> QED
    BY <1>1, <2>2 DEF OS!Finish, Finish, calls
<1>3. calls[r] = CallOf(r)
  BY DEF calls
<1>4. /\ NextOf(r) \in Keys \cup {Null}
      /\ x[r] \in Keys \cup {Head}
      /\ OS!IsLeast(NextOf(r), {k \in LinkedAt(0) : k >= target[r]})
      /\ OS!IsGreatest(IF x[r] = Head THEN Null ELSE x[r],
                       {k \in LinkedAt(0) : k < target[r]})
      /\ target[r] \in Keys => (NextOf(r) = target[r] <=> target[r] \in LinkedAt(0))
  BY <1>1, SearchEnds
<1>5. CASE ContainsReturn(r)
  <2>1. CallOf(r) = "contains" /\ target[r] \in Keys
    BY <1>5 DEF ContainsReturn, CallOf, IInv, IteratorsOK
  <2>2. (NextOf(r) # Null /\ NextOf(r) = target[r]) <=> target[r] \in LinkedAt(0)
    BY <1>4, <2>1, PointerFacts
  <2>3. (NextOf(r) # Null /\ NextOf(r) = target[r]) = (target[r] \in LinkedAt(0))
    BY <2>2
  <2>4. found' = [found EXCEPT ![r] = target[r] \in LinkedAt(0)]
    BY <1>5, <2>3 DEF ContainsReturn
  <2> QED
    BY <1>0, <1>2, <1>3, <1>5, <2>1, <2>4
    DEF ContainsReturn, OS!ReaderStep, OS!ReturnContains, calls
<1>6. CASE SeekReturn(r)
  <2>1. CallOf(r) = "seek"
    BY <1>6 DEF SeekReturn, CallOf
  <2>2. OS!MoveTo(r, NextOf(r))
    BY <1>0, <1>6 DEF SeekReturn, OS!MoveTo
  <2> QED
    BY <1>2, <1>3, <1>4, <2>1, <2>2 DEF OS!ReaderStep, OS!ReturnSeek, calls
<1>7. CASE BackwardReturn(r)
  <2>1. CallOf(r) \in {"prev", "last"}
    BY <1>7 DEF BackwardReturn, CallOf
  <2>2. PICK n \in Keys \cup {Null} : n = IF x[r] = Head THEN Null ELSE x[r]
    BY <1>4
  <2>3. OS!MoveTo(r, n)
    BY <1>0, <1>7, <2>2 DEF BackwardReturn, OS!MoveTo
  <2> QED
    BY <1>2, <1>3, <1>4, <2>1, <2>2, <2>3 DEF OS!ReaderStep, OS!ReturnBackward, calls
<1> QED
  BY <1>5, <1>6, <1>7

(* Next and SeekToFirst take effect in their one step.                     *)
LEMMA IteratorStepsRefine ==
    ASSUME IInv, NEW r \in Readers, IteratorNext(r) \/ SeekToFirst(r)
    PROVE  OS!ReaderStep(r)
<1> USE DEF Threads
<1>0. /\ LinkedAt(0)' = LinkedAt(0)
      /\ \A u \in Threads \ {r} : CallOf(u)' = CallOf(u)
  BY ReaderKeepsSet DEF ReaderStarts
<1>1. CallOf(r) = "idle" /\ CallOf(r)' = "idle"
  BY DEF IteratorNext, SeekToFirst, CallOf
<1>2. calls' = calls /\ calls[r] = "idle"
  BY <1>0, <1>1 DEF calls
<1>3. \A n \in OnLevel(0) : PointsToSuccessor(n, 0)
  BY HeightAssumption DEF IInv, LevelsSorted, Levels
<1>4. LinkedAt(0) \subseteq Keys
  BY DEF LinkedAt
<1>5. ASSUME NEW n \in OnLevel(0)
      PROVE  /\ nxt[n][0] \in Keys \cup {Null}
             /\ OS!IsLeast(nxt[n][0], {k \in LinkedAt(0) : k > n})
  <2>1. /\ nxt[n][0] \in LinkedAt(0) \cup {Null}
        /\ n < nxt[n][0]
        /\ \A k \in LinkedAt(0) : n < k => nxt[n][0] <= k
    BY <1>3, <1>5 DEF PointsToSuccessor
  <2>2. n \in Nat /\ \A k \in LinkedAt(0) : k \in Nat /\ k < Null
    BY <1>4, <1>5, PointerFacts DEF OnLevel, Head
  <2>3. CASE nxt[n][0] = Null
    <3>1. \A k \in LinkedAt(0) : ~(k > n)
      <4> SUFFICES ASSUME NEW k \in LinkedAt(0), k > n PROVE FALSE
        OBVIOUS
      <4>1. k \in Nat /\ k < Null /\ Null <= k
        BY <2>1, <2>2, <2>3
      <4> QED
        BY <4>1, PointerFacts
    <3> QED
      BY <2>3, <3>1 DEF OS!IsLeast
  <2>4. CASE nxt[n][0] # Null
    <3>1. nxt[n][0] \in {k \in LinkedAt(0) : k > n}
      BY <2>1, <2>2, <2>4
    <3>2. \A k \in {j \in LinkedAt(0) : j > n} : nxt[n][0] <= k
      BY <2>1, <2>2
    <3> QED
      BY <1>4, <3>1, <3>2 DEF OS!IsLeast
  <2> QED
    BY <1>4, <2>1, <2>3, <2>4
<1>6. CASE IteratorNext(r)
  <2>1. node[r] # Null /\ node[r] \in OnLevel(0)
    BY <1>6 DEF IteratorNext, IInv, IteratorsOK, OnLevel
  <2>2. OS!MoveTo(r, nxt[node[r]][0])
    BY <1>0, <1>6 DEF IteratorNext, OS!MoveTo
  <2> QED
    BY <1>2, <1>5, <1>6, <2>1, <2>2 DEF IteratorNext, OS!ReaderStep, OS!Next1, calls
<1>7. CASE SeekToFirst(r)
  <2>1. Head \in OnLevel(0) /\ {k \in LinkedAt(0) : k > Head} = LinkedAt(0)
    BY <1>4, PointerFacts DEF OnLevel, Head
  <2>2. OS!MoveTo(r, nxt[Head][0])
    BY <1>0, <1>7 DEF SeekToFirst, OS!MoveTo
  <2>3. nxt[Head][0] \in Keys \cup {Null} /\ OS!IsLeast(nxt[Head][0], LinkedAt(0))
    BY <1>5, <2>1
  <2> QED
    BY <1>2, <1>7, <2>2, <2>3 DEF SeekToFirst, OS!ReaderStep, OS!SeekToFirst, calls
<1> QED
  BY <1>6, <1>7

---------------------------------------------------------------------------
(* The writer's steps.                                                     *)

LEMMA WriterKeepsCalls ==
    ASSUME IInv, InsertCall \/ WriterRuns
    PROVE  /\ UNCHANGED results
           /\ \A u \in Threads \ {Writer} : CallOf(u)' = CallOf(u)
<1>1. \A u \in Threads \ {Writer} : pc'[u] = pc[u] /\ level'[u] = level[u]
  BY DEF InsertCall, WriterRuns, StepRight, StepDown, InsertFound, NewNode, SetNext,
         Publish, InsertReturn, StartSearch, Finish, IInv, TypeOK
<1>2. UNCHANGED results
  BY DEF InsertCall, WriterRuns, StepRight, StepDown, InsertFound, NewNode, SetNext,
         Publish, InsertReturn, results
<1> QED
  BY <1>1, <1>2 DEF CallOf

\* The search and the links above level 0 are invisible; so is everything
\* Insert does before the link on level 0.
LEMMA WriterRefines ==
    ASSUME IInv, InsertCall \/ WriterRuns
    PROVE  OS!Next \/ UNCHANGED <<LinkedAt(0), calls, target, node, found>>
<1> USE DEF Threads
<1>0. /\ UNCHANGED results
      /\ \A u \in Threads \ {Writer} : CallOf(u)' = CallOf(u)
  BY WriterKeepsCalls
<1>t. /\ Writer \in Threads
      /\ calls[Writer] = CallOf(Writer)
      /\ pc[Writer] # "idle" => target[Writer] \in Keys
      /\ \A k \in Keys : height[k] \in 0 .. kMaxHeight
      /\ level[Writer] \in 0 .. kMaxHeight
  BY DEF calls, IInv, InsertOK, TypeOK
<1>1. ASSUME CallOf(Writer)' = CallOf(Writer) PROVE calls' = calls
  BY <1>0, <1>1 DEF calls
<1>2. CASE InsertCall
  <2>1. PICK k \in Keys : height[k] = 0 /\ StartSearch(Writer, "find", k, max_height)
    BY <1>2 DEF InsertCall
  <2>2. /\ pc[Writer] = "idle" /\ pc'[Writer] = "find" /\ height' = height
    BY <1>2, <2>1 DEF StartSearch, IInv, TypeOK, InsertCall
  <2>3. CallOf(Writer) = "idle" /\ CallOf(Writer)' = "insert"
    BY <2>2 DEF CallOf
  <2>4. calls' = [calls EXCEPT ![Writer] = "insert"]
    BY <1>0, <2>3, CallMoves
  <2>5. LinkedAt(0)' = LinkedAt(0) /\ k \in Keys \ LinkedAt(0)
    BY <2>1, <2>2 DEF LinkedAt
  <2>6. OS!Invoke(Writer, "insert", k)
    BY <1>0, <1>t, <2>1, <2>3, <2>4, <2>5 DEF OS!Invoke, StartSearch, results, calls
  <2> QED
    BY <2>5, <2>6 DEF OS!Next, OS!InvokeInsert
<1>3. CASE StepRight(Writer) \/ StepDown(Writer) \/ InsertFound
  <2>1. /\ pc[Writer] = "find" /\ pc'[Writer] \in {"find", "raise"}
        /\ height' = height /\ target' = target
    BY <1>3 DEF StepRight, StepDown, InsertFound, shared, IInv, InsertOK, TypeOK, Searches
  <2>2. LinkedAt(0)' = LinkedAt(0)
    BY <2>1 DEF LinkedAt
  <2>3. CallOf(Writer)' = CallOf(Writer)
    BY <2>1 DEF CallOf
  <2> QED
    BY <1>0, <1>1, <2>1, <2>2, <2>3 DEF results
<1>4. CASE NewNode
  <2>1. /\ pc[Writer] = "raise" /\ pc'[Writer] = "set"
        /\ level' = level /\ level[Writer] = 0 /\ target' = target
        /\ target[Writer] \in Keys /\ height[target[Writer]] = 0
        /\ \A k \in Keys : k # target[Writer] => height'[k] = height[k]
    BY <1>4, <1>t DEF NewNode, IInv, InsertOK, TypeOK
  <2>2. LinkedAt(0)' = LinkedAt(0)
    BY <2>1 DEF LinkedAt
  <2>3. CallOf(Writer)' = CallOf(Writer)
    BY <2>1 DEF CallOf
  <2> QED
    BY <1>0, <1>1, <2>1, <2>2, <2>3 DEF results
<1>5. CASE SetNext
  <2>1. /\ pc[Writer] = "set" /\ pc'[Writer] = "publish"
        /\ level' = level /\ target' = target /\ height' = height
    BY <1>5 DEF SetNext, IInv, TypeOK
  <2>2. LinkedAt(0)' = LinkedAt(0)
    BY <2>1 DEF LinkedAt
  <2>3. CallOf(Writer)' = CallOf(Writer)
    BY <2>1 DEF CallOf
  <2> QED
    BY <1>0, <1>1, <2>1, <2>2, <2>3 DEF results
<1>6. CASE Publish
  <2>1. /\ pc[Writer] = "publish" /\ pc'[Writer] = "set"
        /\ level'[Writer] = level[Writer] + 1 /\ target' = target /\ height' = height
        /\ target[Writer] \in Keys
        /\ level[Writer] < height[target[Writer]]
    BY <1>6, <1>t DEF Publish, IInv, InsertOK, TypeOK
  <2>2. CASE level[Writer] = 0
    <3>1. LinkedAt(0)' = LinkedAt(0) \cup {target[Writer]}
      BY <1>t, <2>1, <2>2 DEF LinkedAt
    <3>2. CallOf(Writer) = "insert" /\ CallOf(Writer)' = "inserted"
      BY <2>1, <2>2 DEF CallOf
    <3>3. calls' = [calls EXCEPT ![Writer] = "inserted"]
      BY <1>0, <3>2, CallMoves
    <3> QED
      BY <1>0, <1>t, <2>1, <3>1, <3>2, <3>3 DEF OS!Next, OS!Insert, results, calls
  <2>3. CASE level[Writer] # 0
    <3>1. LinkedAt(0)' = LinkedAt(0)
      BY <1>t, <2>1, <2>3 DEF LinkedAt
    <3>2. CallOf(Writer)' = CallOf(Writer)
      BY <1>t, <2>1, <2>3 DEF CallOf
    <3> QED
      BY <1>0, <1>1, <2>1, <3>1, <3>2 DEF results
  <2> QED
    BY <2>2, <2>3
<1>7. CASE InsertReturn
  <2>1. /\ pc[Writer] = "set" /\ pc'[Writer] = "idle" /\ height' = height
        /\ target[Writer] \in Keys
        /\ level[Writer] = height[target[Writer]]
        /\ height[target[Writer]] > 0
        /\ target' = [target EXCEPT ![Writer] = Null]
    BY <1>7, <1>t DEF InsertReturn, Finish, IInv, InsertOK, TypeOK
  <2>2. LinkedAt(0)' = LinkedAt(0)
    BY <1>t, <2>1 DEF LinkedAt
  <2>3. CallOf(Writer) = "inserted" /\ CallOf(Writer)' = "idle"
    BY <1>t, <2>1 DEF CallOf
  <2>4. calls' = [calls EXCEPT ![Writer] = "idle"]
    BY <1>0, <2>3, CallMoves
  <2>5. OS!Finish(Writer)
    BY <2>1, <2>4 DEF OS!Finish, calls
  <2>6. OS!ReturnInsert
    BY <1>0, <1>t, <2>2, <2>3, <2>5 DEF OS!ReturnInsert, results, calls
  <2> QED
    BY <2>6 DEF OS!Next
<1> QED
  BY <1>2, <1>3, <1>4, <1>5, <1>6, <1>7 DEF WriterRuns

---------------------------------------------------------------------------

(* Every step of the list is a step of the set or leaves it as it is.      *)
LEMMA StepRefines == IInv /\ [Next]_vars => [OS!Next]_OS!avars
<1> SUFFICES ASSUME IInv, [Next]_vars
             PROVE  OS!Next \/ UNCHANGED <<LinkedAt(0), calls, target, node, found>>
  BY DEF OS!avars, calls
<1>1. CASE UNCHANGED vars
  BY <1>1 DEF vars, LinkedAt, calls, CallOf
<1>2. CASE InsertCall \/ WriterRuns
  BY <1>2, WriterRefines
<1>3. ASSUME NEW r \in Readers, StepRight(r) \/ StepDown(r)
      PROVE  UNCHANGED <<LinkedAt(0), calls, target, node, found>>
  <2>1. /\ LinkedAt(0)' = LinkedAt(0)
        /\ \A u \in Threads \ {r} : CallOf(u)' = CallOf(u)
    BY <1>3, ReaderKeepsSet DEF ReaderRuns
  <2>2. /\ pc' = pc /\ target' = target /\ node' = node /\ found' = found
        /\ pc[r] \in Searches /\ pc[r] # "find"
    BY <1>3 DEF StepRight, StepDown, results, IInv, InsertOK
  <2>3. CallOf(r)' = CallOf(r)
    BY <2>2 DEF CallOf, Searches
  <2> QED
    BY <2>1, <2>2, <2>3 DEF calls
<1>4. ASSUME NEW r \in Readers, ReaderRuns(r) \/ ReaderStarts(r)
      PROVE  OS!ReaderStep(r) \/ UNCHANGED <<LinkedAt(0), calls, target, node, found>>
  BY <1>3, <1>4, ReaderCallsRefine, ReaderReturnsRefine, IteratorStepsRefine
  DEF ReaderRuns, ReaderStarts
<1> QED
  BY <1>1, <1>2, <1>4 DEF Next, OS!Next

\* Contains, Seek, Prev, SeekToLast, Next and SeekToFirst, run while Insert is
\* in progress, answer as if each call had happened at one instant between its
\* beginning and its end, and Insert at its release store on level 0: for every
\* set of keys, every number of levels and every number of readers.
THEOREM SkipListImplementsOrderedSet == Spec => Linearizable
<1>1. Spec => [][OS!Next]_OS!avars
  BY IInvIsInvariant, StepRefines, PTL DEF Spec
<1> QED
  BY <1>1, InitRefines, PTL DEF Spec, Linearizable, OS!Spec
===========================================================================
