----------------------------- MODULE SkipList -----------------------------
(***************************************************************************)
(* src/src/data_structure/skip_list.h: a skip list with one writer         *)
(* (Insert) and concurrent lock-free readers (Contains and the Iterator).  *)
(*                                                                         *)
(* A node is named by its key (the keys of a list are distinct), head_ is  *)
(* Head and nullptr is Null, above every key.  One step is one access to a *)
(* shared pointer together with the private work that follows it.          *)
(*                                                                         *)
(* Memory order.  next_ is stored with release and loaded with acquire,    *)
(* and there is one writer, so what one reader sees of next_ is some       *)
(* interleaving of its loads with the writer's stores.  max_height_ is     *)
(* loaded relaxed: nothing orders that load with the loads of next_, so a  *)
(* reader may get a height older or newer than the links it then walks.  A *)
(* reader therefore starts at ANY level; the writer reads its own value.   *)
(***************************************************************************)
EXTENDS Integers

CONSTANTS
    Keys,        \* the keys that may be inserted
    kMaxHeight,  \* the number of levels
    Readers,     \* the reading threads, each with one Iterator
    Writer,      \* the thread that inserts
    Null         \* nullptr

Head == 0        \* head_

Uninit == -1     \* a pointer nobody has assigned

ASSUME KeysAssumption == Keys \subseteq Nat \ {0}
ASSUME NullAssumption == Null \in Nat \ {0} /\ \A k \in Keys : k < Null
ASSUME HeightAssumption == kMaxHeight \in Nat \ {0}
ASSUME WriterAssumption == Writer \notin Readers

Threads == Readers \cup {Writer}
Levels == 0 .. kMaxHeight - 1
Nodes == Keys \cup {Head}
Pointers == Nodes \cup {Null, Uninit}

VARIABLES
    nxt,         \* nxt[n][l]: next_[l] of node n
    height,      \* the height a key's node was allocated with, 0 before
    max_height,  \* max_height_
    prev,        \* Insert's local array of predecessors
    pc,          \* where each thread is
    x,           \* the local x of its search
    level,       \* the local level (the link loop's i, in Insert)
    target,      \* its argument; Null for FindLast, and when idle
    node,        \* node_ of each reader's Iterator
    found        \* the answer of each reader's last Contains

shared == <<nxt, height, max_height, prev>>
results == <<node, found>>
vars == <<nxt, height, max_height, prev, pc, x, level, target, node, found>>

\* A thread inside FindGreaterOrEqual, FindLessThan or FindLast.
Searches == {"contains", "seek", "prev", "last", "find"}

Init ==
    /\ nxt = [n \in Nodes |-> [l \in Levels |-> IF n = Head THEN Null ELSE Uninit]]
    /\ height = [k \in Keys |-> 0]
    /\ max_height = 1
    /\ prev = [l \in Levels |-> Uninit]
    /\ pc = [t \in Threads |-> "idle"]
    /\ x = [t \in Threads |-> Head]
    /\ level = [t \in Threads |-> 0]
    /\ target = [t \in Threads |-> Null]
    /\ node = [r \in Readers |-> Null]
    /\ found = [r \in Readers |-> FALSE]

---------------------------------------------------------------------------
(* The search loop shared by the three Find functions.                     *)

\* The top of a Find function: start at head_ on level GetMaxHeight() - 1.
StartSearch(t, p, k, h) ==
    /\ pc[t] = "idle"
    /\ pc' = [pc EXCEPT ![t] = p]
    /\ x' = [x EXCEPT ![t] = Head]
    /\ level' = [level EXCEPT ![t] = h - 1]
    /\ target' = [target EXCEPT ![t] = k]

NextOf(t) == nxt[x[t]][level[t]]

\* KeyIsAfterNode(target, n).  FindLast only tests for nullptr, which is
\* what the comparison with Null amounts to.
KeyIsAfterNode(k, n) == n # Null /\ n < k

\* One iteration that moves along the level.
StepRight(t) ==
    /\ pc[t] \in Searches
    /\ KeyIsAfterNode(target[t], NextOf(t))
    /\ x' = [x EXCEPT ![t] = NextOf(t)]
    /\ UNCHANGED <<shared, pc, level, target, results>>

\* Fault: the search never gets off the level it is on.
StepDownStays(t) ==
    /\ pc[t] \in Searches
    /\ ~KeyIsAfterNode(target[t], NextOf(t))
    /\ level[t] > 0
    /\ prev' = IF t = Writer THEN [prev EXCEPT ![level[t]] = x[t]] ELSE prev
    /\ UNCHANGED <<nxt, height, max_height, pc, x, level, target, results>>

\* One iteration that ends the level; Insert's search records prev[level].
StepDown(t) ==
    /\ pc[t] \in Searches
    /\ ~KeyIsAfterNode(target[t], NextOf(t))
    /\ level[t] > 0
    /\ level' = [level EXCEPT ![t] = @ - 1]
    /\ prev' = IF t = Writer THEN [prev EXCEPT ![level[t]] = x[t]] ELSE prev
    /\ UNCHANGED <<nxt, height, max_height, pc, x, target, results>>

\* The iteration on level 0 that leaves the loop.
AtBottom(t) ==
    /\ pc[t] \in Searches
    /\ ~KeyIsAfterNode(target[t], NextOf(t))
    /\ level[t] = 0

Finish(t) ==
    /\ pc' = [pc EXCEPT ![t] = "idle"]
    /\ x' = [x EXCEPT ![t] = Head]
    /\ level' = [level EXCEPT ![t] = 0]
    /\ target' = [target EXCEPT ![t] = Null]

---------------------------------------------------------------------------
(* The readers.                                                            *)

ContainsCall(r) ==
    \E k \in Keys, h \in 1 .. kMaxHeight :
        StartSearch(r, "contains", k, h) /\ UNCHANGED <<shared, results>>

\* Fault: Contains does not compare the key it has found.
ContainsReturnUnchecked(r) ==
    /\ pc[r] = "contains"
    /\ AtBottom(r)
    /\ found' = [found EXCEPT ![r] = NextOf(r) # Null]
    /\ Finish(r)
    /\ UNCHANGED <<shared, node>>

ContainsReturn(r) ==
    /\ pc[r] = "contains"
    /\ AtBottom(r)
    /\ found' = [found EXCEPT ![r] = NextOf(r) # Null /\ NextOf(r) = target[r]]
    /\ Finish(r)
    /\ UNCHANGED <<shared, node>>

SeekCall(r) ==
    \E k \in Keys, h \in 1 .. kMaxHeight :
        StartSearch(r, "seek", k, h) /\ UNCHANGED <<shared, results>>

SeekReturn(r) ==
    /\ pc[r] = "seek"
    /\ AtBottom(r)
    /\ node' = [node EXCEPT ![r] = NextOf(r)]
    /\ Finish(r)
    /\ UNCHANGED <<shared, found>>

PrevCall(r) ==
    /\ node[r] # Null
    /\ \E h \in 1 .. kMaxHeight : StartSearch(r, "prev", node[r], h)
    /\ UNCHANGED <<shared, results>>

SeekToLastCall(r) ==
    \E h \in 1 .. kMaxHeight :
        StartSearch(r, "last", Null, h) /\ UNCHANGED <<shared, results>>

\* Prev and SeekToLast end alike: head_ becomes nullptr.
BackwardReturn(r) ==
    /\ pc[r] \in {"prev", "last"}
    /\ AtBottom(r)
    /\ node' = [node EXCEPT ![r] = IF x[r] = Head THEN Null ELSE x[r]]
    /\ Finish(r)
    /\ UNCHANGED <<shared, found>>

IteratorNext(r) ==
    /\ pc[r] = "idle"
    /\ node[r] # Null
    /\ node' = [node EXCEPT ![r] = nxt[node[r]][0]]
    /\ UNCHANGED <<shared, pc, x, level, target, found>>

SeekToFirst(r) ==
    /\ pc[r] = "idle"
    /\ node' = [node EXCEPT ![r] = nxt[Head][0]]
    /\ UNCHANGED <<shared, pc, x, level, target, found>>

---------------------------------------------------------------------------
(* The writer.                                                             *)

\* The caller must not insert a key twice (the assertion after the search).
InsertCall ==
    \E k \in Keys :
        /\ height[k] = 0
        /\ StartSearch(Writer, "find", k, max_height)
        /\ prev' = [l \in Levels |-> Uninit]
        /\ UNCHANGED <<nxt, height, max_height, results>>

InsertFound ==
    /\ pc[Writer] = "find"
    /\ AtBottom(Writer)
    /\ prev' = [prev EXCEPT ![0] = x[Writer]]
    /\ pc' = [pc EXCEPT ![Writer] = "raise"]
    /\ UNCHANGED <<nxt, height, max_height, x, level, target, results>>

\* Fault: prev is not filled in for the levels the node adds.
RaiseHeightKeepsPrev(h) ==
    /\ max_height' = IF h > max_height THEN h ELSE max_height
    /\ prev' = prev

\* RandomHeight may return any height; the new levels start at head_.
RaiseHeight(h) ==
    /\ max_height' = IF h > max_height THEN h ELSE max_height
    /\ prev' = [l \in Levels |->
                  IF l \in max_height .. h - 1 THEN Head ELSE prev[l]]

\* ... and NewNode, whose next_ array is raw arena memory.
NewNode ==
    /\ pc[Writer] = "raise"
    /\ \E h \in 1 .. kMaxHeight :
         /\ RaiseHeight(h)
         /\ height' = [height EXCEPT ![target[Writer]] = h]
    /\ pc' = [pc EXCEPT ![Writer] = "set"]
    /\ UNCHANGED <<nxt, x, level, target, results>>

\* x->NoBarrier_SetNext(i, prev[i]->NoBarrier_Next(i))
SetNext ==
    /\ pc[Writer] = "set"
    /\ level[Writer] < height[target[Writer]]
    /\ nxt' = [nxt EXCEPT ![target[Writer]][level[Writer]] =
                 nxt[prev[level[Writer]]][level[Writer]]]
    /\ pc' = [pc EXCEPT ![Writer] = "publish"]
    /\ UNCHANGED <<height, max_height, prev, x, level, target, results>>

\* Fault: every level is linked after the bottom level's predecessor.
PublishAfterBottom ==
    /\ pc[Writer] = "publish"
    /\ nxt' = [nxt EXCEPT ![prev[0]][level[Writer]] = target[Writer]]
    /\ pc' = [pc EXCEPT ![Writer] = "set"]
    /\ level' = [level EXCEPT ![Writer] = @ + 1]
    /\ UNCHANGED <<height, max_height, prev, x, target, results>>

\* prev[i]->SetNext(i, x), and i++
Publish ==
    /\ pc[Writer] = "publish"
    /\ nxt' = [nxt EXCEPT ![prev[level[Writer]]][level[Writer]] = target[Writer]]
    /\ pc' = [pc EXCEPT ![Writer] = "set"]
    /\ level' = [level EXCEPT ![Writer] = @ + 1]
    /\ UNCHANGED <<height, max_height, prev, x, target, results>>

\* The link loop is over; the array prev goes out of scope.
InsertReturn ==
    /\ pc[Writer] = "set"
    /\ level[Writer] = height[target[Writer]]
    /\ Finish(Writer)
    /\ prev' = [l \in Levels |-> Uninit]
    /\ UNCHANGED <<nxt, height, max_height, results>>

---------------------------------------------------------------------------

\* The steps of a call that is running.
ReaderRuns(r) ==
    \/ StepRight(r) \/ StepDown(r)
    \/ ContainsReturn(r) \/ SeekReturn(r) \/ BackwardReturn(r)

WriterRuns ==
    \/ StepRight(Writer) \/ StepDown(Writer)
    \/ InsertFound \/ NewNode \/ SetNext \/ Publish \/ InsertReturn

ReaderStarts(r) ==
    \/ ContainsCall(r) \/ SeekCall(r) \/ PrevCall(r) \/ SeekToLastCall(r)
    \/ IteratorNext(r) \/ SeekToFirst(r)

Next ==
    \/ InsertCall
    \/ WriterRuns
    \/ \E r \in Readers : ReaderRuns(r) \/ ReaderStarts(r)

Spec == Init /\ [][Next]_vars

\* A thread that is inside a call keeps running: nothing in it blocks.
Fairness ==
    /\ WF_vars(WriterRuns)
    /\ \A r \in Readers : WF_vars(ReaderRuns(r))

FairSpec == Spec /\ Fairness

---------------------------------------------------------------------------
(* Properties.                                                             *)

TypeOK ==
    /\ nxt \in [Nodes -> [Levels -> Pointers]]
    /\ height \in [Keys -> 0 .. kMaxHeight]
    /\ max_height \in 1 .. kMaxHeight
    /\ prev \in [Levels -> Nodes \cup {Uninit}]
    /\ pc \in [Threads -> Searches \cup {"idle", "raise", "set", "publish"}]
    /\ x \in [Threads -> Nodes]
    /\ level \in [Threads -> 0 .. kMaxHeight]
    /\ target \in [Threads -> Keys \cup {Null}]
    /\ node \in [Readers -> Keys \cup {Null}]
    /\ found \in [Readers -> BOOLEAN]

\* The height of the next_ array of a node.
HeightOf(n) == IF n = Head THEN kMaxHeight ELSE height[n]

\* No thread follows a pointer nobody assigned: wherever a search stands,
\* its node is allocated, has a next_ entry for the level the search is on
\* (whatever max_height_ the reader loaded), and that entry has been set;
\* and when the writer links a level its prev entry has been recorded.  The
\* code reads next_[level] and prev[i] without any check.
NoWildRead ==
    /\ \A t \in Threads :
         pc[t] \in Searches =>
           /\ level[t] < HeightOf(x[t])
           /\ NextOf(t) # Uninit
    /\ pc[Writer] \in {"set", "publish"} =>
         \A l \in level[Writer] .. height[target[Writer]] - 1 :
           prev[l] # Uninit
    /\ \A r \in Readers : node[r] # Null => nxt[node[r]][0] # Uninit

\* The keys a walk along level l meets: the writer links bottom-up, so the
\* key being inserted is missing from the levels it has not reached.
LinkedAt(l) ==
    {k \in Keys :
        /\ l < height[k]
        /\ ~(/\ pc[Writer] \in {"set", "publish"}
             /\ target[Writer] = k
             /\ level[Writer] <= l)}

OnLevel(l) == LinkedAt(l) \cup {Head}

\* n's pointer on level l is its successor among the keys of that level.
PointsToSuccessor(n, l) ==
    /\ nxt[n][l] \in LinkedAt(l) \cup {Null}
    /\ n < nxt[n][l]
    /\ \A k \in LinkedAt(l) : n < k => nxt[n][l] <= k

\* At every instant, in the middle of an Insert too, each level is a strictly
\* ascending chain from head_ through exactly the keys linked on it: no key is
\* lost, repeated or out of order for a reader that walks the level now.
LevelsSorted ==
    \A l \in Levels : \A n \in OnLevel(l) : PointsToSuccessor(n, l)

\* Where a search stands: on the list of its level, before its target.
SearchOK ==
    \A t \in Threads :
        pc[t] \in Searches =>
          /\ level[t] \in Levels
          /\ x[t] \in OnLevel(level[t])
          /\ x[t] < target[t]

\* prev[l] is the node after which the writer's key belongs on level l.
PrevFits(l) ==
    /\ prev[l] \in OnLevel(l)
    /\ prev[l] < target[Writer]
    /\ target[Writer] < nxt[prev[l]][l]

\* What Insert knows at each of its program points.
InsertOK ==
    /\ \A k \in Keys : height[k] <= max_height
    /\ \A r \in Readers : pc[r] \in (Searches \ {"find"}) \cup {"idle"}
    /\ pc[Writer] \in {"find", "raise", "set", "publish", "idle"}
    /\ pc[Writer] # "idle" => target[Writer] \in Keys
    /\ pc[Writer] = "find" =>
         /\ level[Writer] < max_height
         /\ \A l \in level[Writer] + 1 .. max_height - 1 : PrevFits(l)
    /\ pc[Writer] = "raise" =>
         /\ level[Writer] = 0
         /\ \A l \in 0 .. max_height - 1 : PrevFits(l)
    /\ pc[Writer] \in {"find", "raise"} => height[target[Writer]] = 0
    /\ pc[Writer] \in {"set", "publish"} =>
         /\ height[target[Writer]] > 0
         /\ level[Writer] <= height[target[Writer]]
         /\ \A l \in level[Writer] .. height[target[Writer]] - 1 : PrevFits(l)
    /\ pc[Writer] = "publish" =>
         /\ level[Writer] < height[target[Writer]]
         /\ nxt[target[Writer]][level[Writer]]
               = nxt[prev[level[Writer]]][level[Writer]]

\* Iterators stand on keys of the bottom list.
IteratorsOK ==
    \A r \in Readers :
        /\ node[r] \in LinkedAt(0) \cup {Null}
        /\ pc[r] \in {"contains", "seek"} => target[r] \in Keys
        /\ pc[r] = "last" => target[r] = Null

\* The inductive invariant: it implies NoWildRead and makes every search
\* end at the position the ordered set prescribes.
IInv == TypeOK /\ LevelsSorted /\ SearchOK /\ InsertOK /\ IteratorsOK

\* Every call that starts returns, however the threads interleave.
CallsReturn == \A t \in Threads : pc[t] # "idle" ~> pc[t] = "idle"

---------------------------------------------------------------------------
(* The skip list implements the ordered set: a key is in the set from its  *)
(* publication on level 0, and a search takes effect at its last load.     *)

CallOf(t) ==
    CASE pc[t] \in {"find", "raise"} -> "insert"
      [] pc[t] \in {"set", "publish"} ->
           IF level[t] = 0 THEN "insert" ELSE "inserted"
      [] OTHER -> pc[t]

OS == INSTANCE OrderedSet
        WITH set <- LinkedAt(0),
             call <- [t \in Threads |-> CallOf(t)],
             key <- target

\* Every concurrent execution of the list is one of the ordered set.
Linearizable == OS!Spec
===========================================================================
