---------------------------- MODULE PostponedTasks ----------------------------
(***************************************************************************)
(* The part of TaskManager (lib/graft/task.cpp) in which a task waits for  *)
(* a callback, with time: m_postponedTasks, m_readyToResume, the deadlines *)
(* in m_expireTaskQueue and the callbacks that came too early in           *)
(* m_futurePostponeUuids (ExpiringListT, expiring_list.h).                 *)
(*                                                                         *)
(* m_expireTaskQueue is a std::priority_queue of (time, uuid) pairs with   *)
(* the default comparison, so its top is the latest deadline.  An entry is *)
(* never removed when its task is resumed: the queue holds stale entries,  *)
(* and a task that is postponed again has several.                         *)
(*                                                                         *)
(* Everything here runs on the IO thread.  What a task does between two    *)
(* postponements is the subject of TaskManager; here it is in the engine.  *)
(* Both the deadline of a postponement and the life of an early callback   *)
(* are http_connection_timeout.                                            *)
(***************************************************************************)
EXTENDS Integers, Sequences

CONSTANTS
    Uuids,          \* tasks, by their uuids
    Timeout,        \* m_copts.http_connection_timeout
    LastPostpone,   \* bound: no task is postponed after this time
    MaxTime,        \* bound: the clock stops here
    MaxEarly        \* bound: entries of m_futurePostponeUuids

ASSUME TimeoutAssumption ==
    /\ Timeout \in Nat
    /\ LastPostpone \in Nat /\ MaxTime \in Nat /\ MaxEarly \in Nat
    /\ LastPostpone + Timeout < MaxTime

VARIABLES
    now,            \* steady_clock::now()
    place,          \* where each task is
    readyToResume,  \* m_readyToResume
    expireQueue,    \* m_expireTaskQueue
    futurePostpone, \* m_futurePostponeUuids
    expiring,       \* executePostponedTasks() is in its second loop
    postponedAt,    \* history: when each task was last postponed
    unused          \* history: the callbacks that are not too old and have not
                    \* resumed their task

postponeVars ==
    <<now, place, readyToResume, expireQueue, futurePostpone, expiring, postponedAt, unused>>

PostponePlaces == {"new", "engine", "postponed", "ready", "done"}

\* A pair (time, uuid), of m_expireTaskQueue and of the expiring list.
Entry == [time : Nat, task : Uuids]

PostponeInit ==
    /\ now = 0
    /\ place = [t \in Uuids |-> "new"]
    /\ readyToResume = <<>>
    /\ expireQueue = {}
    /\ futurePostpone = <<>>
    /\ expiring = FALSE
    /\ postponedAt = [t \in Uuids |-> 0]
    /\ unused = {}

\* Faulty: everything is thrown away once the oldest entry is too old.
ChopAll(n) ==
    n = IF futurePostpone = <<>> \/ now < futurePostpone[1].time THEN 0 ELSE Len(futurePostpone)

\* ExpiringListT::chop removes the first n entries: none if the first one is still
\* good, otherwise that one and those before the lower bound of now among the rest.
Chop(n) ==
    IF futurePostpone = <<>> \/ now < futurePostpone[1].time THEN n = 0
    ELSE /\ n \in 1 .. Len(futurePostpone)
         /\ \A k \in 2 .. n : futurePostpone[k].time < now
         /\ n < Len(futurePostpone) => now <= futurePostpone[n + 1].time

Chopped(n) == SubSeq(futurePostpone, n + 1, Len(futurePostpone))
Without(q, k) == SubSeq(q, 1, k - 1) \o SubSeq(q, k + 1, Len(q))

\* The engine gets a task, with a new uuid; a task is answered and is over.
Start(t) ==
    /\ ~expiring
    /\ place[t] = "new"
    /\ place' = [place EXCEPT ![t] = "engine"]
    /\ UNCHANGED <<now, readyToResume, expireQueue, futurePostpone, expiring, postponedAt, unused>>

Finish(t) ==
    /\ ~expiring
    /\ place[t] = "engine"
    /\ place' = [place EXCEPT ![t] = "done"]
    /\ UNCHANGED <<now, readyToResume, expireQueue, futurePostpone, expiring, postponedAt, unused>>

\* postponeTask, if ExpiringListT::extract finds a callback: the task goes on.
PostponeAnswered(t) ==
    /\ ~expiring
    /\ now <= LastPostpone
    /\ place[t] = "engine"
    /\ \E n \in 0 .. Len(futurePostpone) :
          /\ Chop(n)
          /\ \E k \in DOMAIN Chopped(n) :
                /\ Chopped(n)[k].task = t
                /\ \A l \in 1 .. k - 1 : Chopped(n)[l].task # t
                /\ futurePostpone' = Without(Chopped(n), k)
                /\ unused' = unused \ {Chopped(n)[k]}
    /\ place' = [place EXCEPT ![t] = "ready"]
    /\ readyToResume' = Append(readyToResume, t)
    /\ UNCHANGED <<now, expireQueue, expiring, postponedAt>>

\* extract() finds no callback for the task.
NotFound(t) ==
    \E n \in 0 .. Len(futurePostpone) :
        /\ Chop(n)
        /\ \A k \in DOMAIN Chopped(n) : Chopped(n)[k].task # t
        /\ futurePostpone' = Chopped(n)

\* Faulty: a task that has a deadline in the queue gets no second one.
PostponeWaitsWithOldDeadline(t) ==
    /\ ~expiring
    /\ now <= LastPostpone
    /\ place[t] = "engine"
    /\ NotFound(t)
    /\ place' = [place EXCEPT ![t] = "postponed"]
    /\ expireQueue' = IF \E e \in expireQueue : e.task = t THEN expireQueue
                      ELSE expireQueue \cup {[time |-> now + Timeout, task |-> t]}
    /\ postponedAt' = [postponedAt EXCEPT ![t] = now]
    /\ UNCHANGED <<now, readyToResume, expiring, unused>>

\* Otherwise the task waits.
PostponeWaits(t) ==
    /\ ~expiring
    /\ now <= LastPostpone
    /\ place[t] = "engine"
    /\ NotFound(t)
    /\ place' = [place EXCEPT ![t] = "postponed"]
    /\ expireQueue' = expireQueue \cup {[time |-> now + Timeout, task |-> t]}
    /\ postponedAt' = [postponedAt EXCEPT ![t] = now]
    /\ UNCHANGED <<now, readyToResume, expiring, unused>>

\* processOk of the request that names t with setNextTaskId: t is resumed if it is
\* postponed, otherwise the callback is kept for when it will be.
Callback(t) ==
    /\ ~expiring
    /\ place[t] # "new"
    /\ \/ /\ place[t] = "postponed"
          /\ place' = [place EXCEPT ![t] = "ready"]
          /\ readyToResume' = Append(readyToResume, t)
          /\ UNCHANGED <<futurePostpone, unused>>
       \/ /\ place[t] # "postponed"
          /\ \E n \in 0 .. Len(futurePostpone) :
                /\ Chop(n)
                /\ Len(Chopped(n)) < MaxEarly
                /\ futurePostpone' = Append(Chopped(n), [time |-> now + Timeout, task |-> t])
          /\ unused' = unused \cup {[time |-> now + Timeout, task |-> t]}
          /\ UNCHANGED <<place, readyToResume>>
    /\ UNCHANGED <<now, expireQueue, expiring, postponedAt>>

\* executePostponedTasks, first loop: every ready task is executed.
Resume ==
    /\ ~expiring
    /\ readyToResume # <<>>
    /\ readyToResume' = Tail(readyToResume)
    /\ place' = [place EXCEPT ![Head(readyToResume)] = "engine"]
    /\ UNCHANGED <<now, expireQueue, futurePostpone, expiring, postponedAt, unused>>

BeginExpire ==
    /\ ~expiring
    /\ readyToResume = <<>>
    /\ expireQueue # {}
    /\ expiring' = TRUE
    /\ UNCHANGED <<now, place, readyToResume, expireQueue, futurePostpone, postponedAt, unused>>

\* Faulty: the queue has the earliest deadline at its top.
EarliestTop(e) == e \in expireQueue /\ \A f \in expireQueue : e.time <= f.time

\* An entry that may be at the top: among equal times the uuid decides.
Top(e) == e \in expireQueue /\ \A f \in expireQueue : f.time <= e.time

\* Faulty: an expired entry is popped without the answer.
PopExpiredSilently(e) ==
    /\ expiring
    /\ Top(e)
    /\ e.time < now
    /\ expireQueue' = expireQueue \ {e}
    /\ UNCHANGED <<now, place, readyToResume, futurePostpone, expiring, postponedAt, unused>>

\* Second loop: the top is popped if its time is over; if its task is postponed it
\* is answered "Postpone task response timeout" and is over (respondAndDie).
PopExpired(e) ==
    /\ expiring
    /\ Top(e)
    /\ e.time < now
    /\ expireQueue' = expireQueue \ {e}
    /\ place' = IF place[e.task] = "postponed"
                THEN [place EXCEPT ![e.task] = "done"] ELSE place
    /\ UNCHANGED <<now, readyToResume, futurePostpone, expiring, postponedAt, unused>>

EndExpire ==
    /\ expiring
    /\ \A e \in expireQueue : Top(e) => now <= e.time
    /\ expiring' = FALSE
    /\ UNCHANGED <<now, place, readyToResume, expireQueue, futurePostpone, postponedAt, unused>>

\* Time passes; the second loop reads the clock once.
Tick ==
    /\ ~expiring
    /\ now < MaxTime
    /\ now' = now + 1
    /\ unused' = {e \in unused : now' < e.time}
    /\ UNCHANGED <<place, readyToResume, expireQueue, futurePostpone, expiring, postponedAt>>

PostponeNext ==
    \/ \E t \in Uuids : Start(t) \/ Finish(t) \/ PostponeAnswered(t) \/ PostponeWaits(t)
                        \/ Callback(t)
    \/ Resume
    \/ BeginExpire
    \/ \E e \in expireQueue : PopExpired(e)
    \/ EndExpire
    \/ Tick

PostponeSpec == PostponeInit /\ [][PostponeNext]_postponeVars

\* Looper::serve calls executePostponedTasks in every iteration, and time passes
\* whatever the IO thread does.
PostponeFairness ==
    /\ WF_postponeVars(Resume)
    /\ SF_postponeVars(BeginExpire)
    /\ WF_postponeVars((\E e \in expireQueue : PopExpired(e)) \/ EndExpire)
    /\ SF_postponeVars(Tick)

PostponeFairSpec == PostponeSpec /\ PostponeFairness

-----------------------------------------------------------------------------

\* Every variable keeps its type.
PostponeTypeOK ==
    /\ now \in Nat
    /\ place \in [Uuids -> PostponePlaces]
    /\ readyToResume \in Seq(Uuids)
    /\ expireQueue \subseteq Entry
    /\ futurePostpone \in Seq(Entry)
    /\ expiring \in BOOLEAN
    /\ postponedAt \in [Uuids -> Nat]
    /\ unused \subseteq Entry

\* A postponed task is never answered before its own time is over, although
\* executePostponedTasks looks entries up by uuid and an entry of an earlier
\* postponement of the same task may be in m_expireTaskQueue.
NoEarlyExpiry ==
    [][\A t \in Uuids : place[t] = "postponed" /\ place'[t] = "done" =>
          postponedAt[t] + Timeout < now]_postponeVars

\* A postponed task has the deadline of its present postponement in
\* m_expireTaskQueue, whatever was resumed, popped and pushed before: it cannot be
\* forgotten there.
DeadlineKept ==
    \A t \in Uuids : place[t] = "postponed" =>
        [time |-> postponedAt[t] + Timeout, task |-> t] \in expireQueue

\* A callback that comes before its task is postponed is not lost: no task waits
\* while there is a callback for it that is younger than the timeout, however many
\* older and later callbacks ExpiringListT had to sort out.
EarlyCallbackFound ==
    \A t \in Uuids : place[t] = "postponed" =>
        \A e \in unused : e.task = t => e.time <= now

\* A postponed task does not wait for ever: once no newer deadlines come it is
\* resumed or answered.
PostponementEnds ==
    \A t \in Uuids : place[t] = "postponed" ~> place[t] # "postponed"
=============================================================================
