------------------------------- MODULE Strand -------------------------------
(***************************************************************************)
(* class StrandImpl (lib/graft/thread_pool/strand.hpp): handlers posted to *)
(* a strand are to run on the thread pool one at a time, in order.         *)
(*                                                                         *)
(* A push into m_queue claims a cell and then fills it (MPMCBoundedQueue): *)
(* a pop fails while the first cell is claimed and not filled.  The build  *)
(* is the default one (RelWithDebInfo), without assertions: when the pop   *)
(* in invokeCall fails, the local variable handler is called as it is.     *)
(* A call of invokeCall is a job of the pool.                              *)
(***************************************************************************)
EXTENDS ThreadPool

CONSTANTS
    Strands,
    Handlers,
    QueueSize,    \* of m_queue
    NoHandler,    \* an empty Task
    NoStrand

ASSUME StrandAssumption ==
    /\ NoHandler \notin Handlers /\ NoStrand \notin Strands
    /\ QueueSize \in Nat /\ QueueSize >= 2

VARIABLES
    queue,        \* m_queue of each strand: [handler, filled], oldest first
    deferred,     \* m_deferred_calls_count
    worker,       \* [at, strand, handler] of each thread in invokeCall
    refused,      \* history: the handlers of each strand whose push found the queue full
    missed        \* history: how many pops found no handler

strandVars == <<queue, deferred, worker, refused, missed>>

\* StrandImplHandler
Call(s) == [kind |-> "call", of |-> s]

Idle == [at |-> "idle", strand |-> NoStrand, handler |-> NoHandler]

StrandInit ==
    /\ queue = [s \in Strands |-> <<>>]
    /\ deferred = [s \in Strands |-> 0]
    /\ worker = [k \in Threads |-> Idle]
    /\ refused = [s \in Strands |-> {}]
    /\ missed = [s \in Strands |-> 0]

----------------------------------------------------------------------------
(* post: the handler goes into the queue, then a call into the pool.       *)

\* push claims the next cell; it does nothing when the queue is full, and post goes on.
Push(s, h) ==
    /\ IF Len(queue[s]) < QueueSize
       THEN /\ queue' = [queue EXCEPT ![s] = Append(@, [handler |-> h, filled |-> FALSE])]
            /\ UNCHANGED refused
       ELSE /\ refused' = [refused EXCEPT ![s] = @ \cup {h}]
            /\ UNCHANGED queue
    /\ UNCHANGED <<deferred, worker, missed>>
    /\ UNCHANGED poolVars

Fill(s, h) ==
    /\ queue' = [queue EXCEPT ![s] =
                    [i \in DOMAIN @ |-> IF @[i].handler = h THEN [@[i] EXCEPT !.filled = TRUE] ELSE @[i]]]
    /\ UNCHANGED <<deferred, worker, refused, missed>>
    /\ UNCHANGED poolVars

\* Faulty: the call is posted twice.
PostCallTwice(k, s) ==
    LET i == thread[k].id IN
    /\ input' = [input EXCEPT ![i] = @ \o <<Call(s), Call(s)>>]
    /\ thread' = [thread EXCEPT ![k].at = "idle", ![k].job = NoJob]
    /\ UNCHANGED <<current, nextWorker, overdue, expelledCount, terminated, strandVars>>

\* The last thing the thread does in its job.
PostCall(k, s) ==
    /\ PostAndFinish(k, Call(s))
    /\ UNCHANGED strandVars

----------------------------------------------------------------------------
(* invokeCall.                                                             *)

\* Faulty: every call pops for itself.
InvokeAlways(k, s) ==
    /\ Busy(k, Call(s)) /\ worker[k].at = "idle"
    /\ deferred' = [deferred EXCEPT ![s] = @ + 1]
    /\ worker' = [worker EXCEPT ![k] = [at |-> "pop", strand |-> s, handler |-> NoHandler]]
    /\ UNCHANGED poolVars
    /\ UNCHANGED <<queue, refused, missed>>

\* The strand is busy and the call is left to the thread that is in it, or this thread enters
\* the loop.
Invoke(k, s) ==
    /\ Busy(k, Call(s)) /\ worker[k].at = "idle"
    /\ deferred' = [deferred EXCEPT ![s] = @ + 1]
    /\ IF deferred[s] > 0 THEN UNCHANGED worker /\ Finish(k)
       ELSE /\ worker' = [worker EXCEPT ![k] = [at |-> "pop", strand |-> s, handler |-> NoHandler]]
            /\ UNCHANGED poolVars
    /\ UNCHANGED <<queue, refused, missed>>

Ready(s) == queue[s] # <<>> /\ Head(queue[s]).filled

\* When there is nothing to pop, what handler holds is called again.
Pop(k) ==
    LET s == worker[k].strand IN
    /\ ~terminated /\ worker[k].at = "pop"
    /\ IF Ready(s)
       THEN /\ worker' = [worker EXCEPT ![k].at = "run", ![k].handler = Head(queue[s]).handler]
            /\ queue' = [queue EXCEPT ![s] = Tail(@)]
            /\ UNCHANGED missed
       ELSE /\ worker' = [worker EXCEPT ![k].at = "run"]
            /\ missed' = [missed EXCEPT ![s] = @ + 1]
            /\ UNCHANGED queue
    /\ UNCHANGED <<deferred, refused>>
    /\ UNCHANGED poolVars

\* The handler returns or throws, at once if it is empty.
Ran(k) ==
    /\ ~terminated /\ worker[k].at = "run"
    /\ worker' = [worker EXCEPT ![k].at = "leave"]
    /\ UNCHANGED <<queue, deferred, refused, missed>>
    /\ UNCHANGED poolVars

\* Faulty: the loop ends after the first handler.
LeaveAtOnce(k) ==
    LET s == worker[k].strand IN
    /\ ~terminated /\ worker[k].at = "leave"
    /\ deferred' = [deferred EXCEPT ![s] = @ - 1]
    /\ worker' = [worker EXCEPT ![k] = Idle]
    /\ Finish(k)
    /\ UNCHANGED <<queue, refused, missed>>

\* The loop goes on for the calls that came meanwhile.
Leave(k) ==
    LET s == worker[k].strand IN
    /\ ~terminated /\ worker[k].at = "leave"
    /\ deferred' = [deferred EXCEPT ![s] = @ - 1]
    /\ IF deferred[s] > 1 THEN worker' = [worker EXCEPT ![k].at = "pop"] /\ UNCHANGED poolVars
       ELSE worker' = [worker EXCEPT ![k] = Idle] /\ Finish(k)
    /\ UNCHANGED <<queue, refused, missed>>

----------------------------------------------------------------------------

Inside(s) == {k \in Threads : worker[k].strand = s}

\* A call that is still to come, in a queue of the pool or with a thread.
Called(s) ==
    \/ \E i \in Ids : Call(s) \in Range(input[i])
    \/ \E k \in Threads : thread[k].job = Call(s)

\* At most one thread is in a strand's loop, whatever calls, pushes, expelled threads and the
\* end of the loop meet (invokeCall: the count taken before and after each handler decides
\* who goes on).
StrandExclusive == \A s \in Strands : \A k, l \in Inside(s) : k = l
=============================================================================
