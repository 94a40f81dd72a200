-------------------------- MODULE BackgroundQueue --------------------------
(***************************************************************************)
(* Schedule and BackgroundThreadMain of src/src/env/env_posix.cpp: a queue *)
(* of work items, one background thread that is started by the first       *)
(* Schedule, a mutex and a condition variable.                             *)
(*                                                                         *)
(* Schedule holds background_work_mutex_ from beginning to end and is one  *)
(* step.  The background thread holds it from the moment it has it to the  *)
(* end of the work item it runs, so nobody schedules while an item runs,   *)
(* and an item that calls Schedule waits for its own thread.               *)
(***************************************************************************)
EXTENDS Naturals, Sequences

CONSTANTS
    Tasks,      \* work items, each scheduled once, by any thread
    Reentrant   \* those of them that call Schedule

ASSUME ReentrantAssumption == Reentrant \subseteq Tasks

VARIABLES
    background_work_queue,
    started,     \* started_background_thread_
    worker,      \* the background thread: "none", "ready" for the mutex,
                 \* "checking" the queue, "waiting", "running", "stuck"
    running,     \* the items that are being run: none or one
    scheduled,   \* items in the order of their Schedule
    ran          \* items in the order they were run to their end

queueVars == <<background_work_queue, started, worker, running, scheduled, ran>>

QueueInit ==
    /\ background_work_queue = << >>
    /\ started = FALSE
    /\ worker = "none"
    /\ running = << >>
    /\ scheduled = << >>
    /\ ran = << >>

Items(s) == { s[i] : i \in 1 .. Len(s) }

\* No thread has background_work_mutex_.
MutexFree == worker \notin {"checking", "running", "stuck"}

\* Fault: the item is put in the queue before the queue is looked at.
NotifyLate == worker

\* notify_one, if the queue was empty: a waiting thread becomes ready.
Notify ==
    IF worker = "waiting" /\ background_work_queue = << >> THEN "ready" ELSE worker

\* Fault: the newest item goes first.
PushFront(t) == <<t>> \o background_work_queue

Push(t) == Append(background_work_queue, t)

\* Schedule(t), called by any thread but the background thread.
Schedule(t) ==
    /\ t \notin Items(scheduled)
    /\ MutexFree
    /\ started' = TRUE
    /\ worker' = IF ~started THEN "ready" ELSE Notify
    /\ background_work_queue' = Push(t)
    /\ scheduled' = Append(scheduled, t)
    /\ UNCHANGED <<running, ran>>

\* The background thread gets the mutex: at its start, after an item, and
\* when wait returns.
Acquire ==
    /\ worker = "ready"
    /\ worker' = "checking"
    /\ UNCHANGED <<background_work_queue, started, running, scheduled, ran>>

\* Nothing to do: wait gives the mutex back.
Wait ==
    /\ worker = "checking"
    /\ background_work_queue = << >>
    /\ worker' = "waiting"
    /\ UNCHANGED <<background_work_queue, started, running, scheduled, ran>>

\* wait may return without a notification.
SpuriousWakeup ==
    /\ worker = "waiting"
    /\ worker' = "ready"
    /\ UNCHANGED <<background_work_queue, started, running, scheduled, ran>>

\* The oldest item is taken and its function called.
Take ==
    /\ worker = "checking"
    /\ background_work_queue # << >>
    /\ running' = <<Head(background_work_queue)>>
    /\ background_work_queue' = Tail(background_work_queue)
    /\ worker' = "running"
    /\ UNCHANGED <<started, scheduled, ran>>

\* The function returns; the next turn of the loop needs the mutex again.
Finish ==
    /\ worker = "running"
    /\ running[1] \notin Reentrant
    /\ worker' = "ready"
    /\ ran' = ran \o running
    /\ running' = << >>
    /\ UNCHANGED <<background_work_queue, started, scheduled>>

\* The function calls Schedule, on the thread that has the mutex.
SelfLock ==
    /\ worker = "running"
    /\ running[1] \in Reentrant
    /\ worker' = "stuck"
    /\ UNCHANGED <<background_work_queue, started, running, scheduled, ran>>

Background == Acquire \/ Wait \/ Take \/ Finish \/ SelfLock

QueueNext ==
    \/ \E t \in Tasks : Schedule(t)
    \/ Background
    \/ SpuriousWakeup

\* The background thread runs, gets the mutex while nobody has it, and items
\* return.  Nobody has to schedule, and wait need not return by itself.
QueueSpec == QueueInit /\ [][QueueNext]_queueVars /\ WF_queueVars(Background)

---------------------------------------------------------------------------
(* Properties.                                                             *)

QueueTypeOK ==
    /\ background_work_queue \in Seq(Tasks)
    /\ started \in BOOLEAN
    /\ worker \in {"none", "ready", "checking", "waiting", "running", "stuck"}
    /\ running \in Seq(Tasks)
    /\ scheduled \in Seq(Tasks)
    /\ ran \in Seq(Tasks)

\* Every item is run once, in the order of the Schedule calls, whichever
\* threads they came from: what was run, what is running and what is queued
\* are the scheduled items.
OnceInOrder == ran \o running \o background_work_queue = scheduled

\* No wakeup is lost: the background thread does not sleep while there is work.
\* The comment at env_posix.cpp 689: if the queue is empty the thread may be
\* waiting, so Schedule notifies; it does so before it fills the queue.
NoLostWakeup == worker \in {"none", "waiting"} => background_work_queue = << >>

\* A scheduled item is run to its end, unless an item calls Schedule itself and
\* waits for the mutex of its own thread: nothing else keeps one from being run.
OnlySelfLockBlocks ==
    \A t \in Tasks : (t \in Items(scheduled)) ~>
        (t \in Items(ran) \/ (worker = "stuck" /\ Items(running) \subseteq Reentrant))

=============================================================================
