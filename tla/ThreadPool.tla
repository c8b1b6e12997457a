------------------------------ MODULE ThreadPool ------------------------------
(***************************************************************************)
(* class ThreadPoolImpl and class WorkerT (lib/graft/thread_pool/): a      *)
(* queue for each worker, which takes from its own queue and, when that is *)
(* empty, from the next one.  A thread whose job takes too long is         *)
(* expelled: another thread takes its place and it ends by itself after    *)
(* its job.                                                                *)
(*                                                                         *)
(* A push and a pop are one step each (MPMCBoundedQueue).                  *)
(***************************************************************************)
EXTENDS Integers, Sequences, Functions

CONSTANTS
    Count,          \* threads of the pool
    PoolQueueSize,  \* jobs a queue of the pool holds
    NoJob,
    NoId,           \* no worker is being expelled
    MaxExpelled     \* bound on the threads that are expelled

Ids == 0..(Count - 1)
Threads == 1..(Count + MaxExpelled)

ASSUME PoolAssumption ==
    /\ Count \in Nat /\ Count >= 2
    /\ PoolQueueSize \in Nat \ {0}
    /\ NoId \notin Ids
    /\ MaxExpelled \in Nat

VARIABLES
    input,          \* m_queues
    current,        \* m_workers: the thread of each worker id
    thread,         \* [id, at, running, job] of each thread; at: "none", "idle" or "busy"
    nextWorker,     \* m_next_worker
    overdue,        \* the id expelWorkers saw overdue and has still to replace
    expelledCount,
    terminated      \* an exception left a thread

poolVars == <<input, current, thread, nextWorker, overdue, expelledCount, terminated>>

Ended == [id |-> 0, at |-> "none", running |-> FALSE, job |-> NoJob]
Started(i) == [id |-> i, at |-> "idle", running |-> TRUE, job |-> NoJob]

PoolInit ==
    /\ input = [i \in Ids |-> <<>>]
    /\ current = [i \in Ids |-> i + 1]
    /\ thread = [k \in Threads |-> IF k <= Count THEN Started(k - 1) ELSE Ended]
    /\ nextWorker = 0
    /\ overdue = NoId
    /\ expelledCount = 0
    /\ terminated = FALSE

Busy(k, job) == ~terminated /\ thread[k].at = "busy" /\ thread[k].job = job

HasRoom(i) == Len(input[i]) < PoolQueueSize

----------------------------------------------------------------------------
(* post                                                                    *)

\* Another thread than those of the pool tries the queues in turn.  (The post of the IO thread
\* that finds them all full is in TaskManager, PostOverflows.)
PostFromOutside(job) ==
    /\ ~terminated
    /\ \E n \in Ids :
          LET i == (nextWorker + n) % Count IN
          /\ HasRoom(i)
          /\ \A m \in 0..(n - 1) : ~HasRoom((nextWorker + m) % Count)
          /\ input' = [input EXCEPT ![i] = Append(@, job)]
          /\ nextWorker' = (i + 1) % Count
    /\ UNCHANGED <<current, thread, overdue, expelledCount, terminated>>

\* A thread of the pool posts a job at the end of its own; it has one attempt at its own queue.
PostAndFinish(k, job) ==
    LET i == thread[k].id IN
    /\ HasRoom(i)
    /\ input' = [input EXCEPT ![i] = Append(@, job)]
    /\ thread' = [thread EXCEPT ![k].at = "idle", ![k].job = NoJob]
    /\ UNCHANGED <<current, nextWorker, overdue, expelledCount, terminated>>

\* There is no room: post throws, nobody catches it, and the process ends.
PostThrows(k) ==
    /\ ~HasRoom(thread[k].id)
    /\ terminated' = TRUE
    /\ UNCHANGED <<input, current, thread, nextWorker, overdue, expelledCount>>

----------------------------------------------------------------------------
(* threadFunc and expelWorkers.                                            *)

\* The queue a thread takes from: its own, or the next one.
TakesFrom(k) == LET own == thread[k].id IN IF input[own] # <<>> THEN own ELSE (own + 1) % Count

\* The check of m_running_flag and the pop are one step here: a thread that is expelled between
\* them takes one more job in the code, as one does that is expelled just after its pop.
CanTake(k) == thread[k].at = "idle" /\ thread[k].running /\ input[TakesFrom(k)] # <<>>

Take(k) ==
    LET from == TakesFrom(k) IN
    /\ ~terminated
    /\ CanTake(k)
    /\ thread' = [thread EXCEPT ![k].at = "busy", ![k].job = Head(input[from])]
    /\ input' = [input EXCEPT ![from] = Tail(@)]
    /\ UNCHANGED <<current, nextWorker, overdue, expelledCount, terminated>>

Finish(k) ==
    /\ thread' = [thread EXCEPT ![k].at = "idle", ![k].job = NoJob]
    /\ UNCHANGED <<input, current, nextWorker, overdue, expelledCount, terminated>>

Exit(k) ==
    /\ ~terminated
    /\ thread[k].at = "idle" /\ ~thread[k].running
    /\ thread' = [thread EXCEPT ![k] = Ended]
    /\ UNCHANGED <<input, current, nextWorker, overdue, expelledCount, terminated>>

\* m_timePoint is read: the job is over its time.
SeeOverdue(i) ==
    /\ ~terminated
    /\ overdue = NoId
    /\ expelledCount < MaxExpelled
    /\ thread[current[i]].at = "busy"
    /\ overdue' = i
    /\ UNCHANGED <<input, current, thread, nextWorker, expelledCount, terminated>>

\* The thread may have finished that job meanwhile, and have begun the next one.
Expel ==
    LET new == Count + expelledCount + 1 IN
    /\ ~terminated
    /\ overdue # NoId
    /\ thread' = [thread EXCEPT ![current[overdue]].running = FALSE, ![new] = Started(overdue)]
    /\ current' = [current EXCEPT ![overdue] = new]
    /\ overdue' = NoId
    /\ expelledCount' = expelledCount + 1
    /\ UNCHANGED <<input, nextWorker, terminated>>

PoolStep ==
    \/ \E k \in Threads : Take(k) \/ Exit(k)
    \/ \E i \in Ids : SeeOverdue(i)
    \/ Expel

=============================================================================
