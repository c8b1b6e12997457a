-------------------------- MODULE TaskManagerProofs --------------------------
(***************************************************************************)
(* TaskManager never loses a task, never runs one twice and never posts    *)
(* more jobs than the thread pool takes, for any clients, handlers, thread *)
(* count and queue sizes.  With a clock (PostponedTasks), a postponed task *)
(* is not answered before its time, keeps its deadline, and finds a        *)
(* callback that came early, for any tasks and any timeout.                *)
(***************************************************************************)
EXTENDS TaskManager, PostponedTasks, FiniteSetTheorems, SequenceTheorems, TLAPS

\* A task that waits for something was not answered Busy, and one that was is
\* finalized or back in the timer list while its dispatch ends.
NotBusyWhileWaiting ==
    /\ \A t \in Tasks : t \in upstream \cup postponed \/ InSeq(t, ready) => status[t] # "Busy"
    /\ dispatch # Exit /\ dispatch.state = "EXECUTE" => status[dispatch.task] # "Busy"
    /\ dispatch # Exit /\ dispatch.state = "PRE_ACTION" /\ status[dispatch.task] = "Busy" =>
          dispatch.task \notin alive \ timers

\* From the look at the limit to the post of the job there is room for it.
RoomForJob ==
    (/\ dispatch # Exit
     /\ dispatch.state \in {"PRE_ACTION", "CHK_PRE_ACTION", "WORKER_ACTION", "WORKER_ACTION_DONE"}
     /\ ~(dispatch.state = "PRE_ACTION" /\ status[dispatch.task] = "Busy")
     /\ HasWorker(dispatch.task))
    => jobs < ThreadPoolInputSize

\* A connection that has sent no request has no task yet, and neither has a
\* periodic task that is still in m_periodicTaskQueue.
NotYetAlive == (accepted \cup periodicQueue) \cap alive = {}

\* The inductive invariant.
IInv ==
    /\ TypeOK
    /\ OnePlace
    /\ JobAccounting
    /\ ClientAccounting
    /\ NotBusyWhileWaiting
    /\ RoomForJob
    /\ NotYetAlive

-----------------------------------------------------------------------------
(* Sequences without duplicates.                                             *)

\* A task appended to a queue that did not hold it.
LEMMA AppendFacts ==
    ASSUME NEW S, NEW q \in Seq(S), NEW e \in S
    PROVE  /\ Append(q, e) \in Seq(S)
           /\ Len(Append(q, e)) = Len(q) + 1
           /\ \A t : InSeq(t, Append(q, e)) <=> InSeq(t, q) \/ t = e
           /\ NoDuplicates(q) /\ ~InSeq(e, q) => NoDuplicates(Append(q, e))
<1>1. /\ Append(q, e) \in Seq(S)
      /\ Len(Append(q, e)) = Len(q) + 1
      /\ DOMAIN Append(q, e) = 1 .. Len(q) + 1
      /\ DOMAIN q = 1 .. Len(q)
      /\ \A k \in 1 .. Len(q) : Append(q, e)[k] = q[k]
      /\ Append(q, e)[Len(q) + 1] = e
  OBVIOUS
<1>2. \A t : InSeq(t, Append(q, e)) <=> InSeq(t, q) \/ t = e
  <2> SUFFICES ASSUME NEW t PROVE InSeq(t, Append(q, e)) <=> InSeq(t, q) \/ t = e
    OBVIOUS
  <2>1. ASSUME InSeq(t, Append(q, e)) PROVE InSeq(t, q) \/ t = e
    BY <1>1, <2>1 DEF InSeq
  <2>2. ASSUME InSeq(t, q) PROVE InSeq(t, Append(q, e))
    BY <1>1, <2>2 DEF InSeq
  <2>3. ASSUME t = e PROVE InSeq(t, Append(q, e))
    <3>1. Len(q) + 1 \in DOMAIN Append(q, e)
      BY <1>1
    <3> QED BY <1>1, <2>3, <3>1 DEF InSeq
  <2> QED BY <2>1, <2>2, <2>3
<1>3. ASSUME NoDuplicates(q), ~InSeq(e, q) PROVE NoDuplicates(Append(q, e))
  BY <1>1, <1>3 DEF InSeq, NoDuplicates
<1> QED BY <1>1, <1>2, <1>3

\* The first task taken from a queue.
LEMMA TailFacts ==
    ASSUME NEW S, NEW q \in Seq(S), q # <<>>
    PROVE  /\ Head(q) \in S
           /\ InSeq(Head(q), q)
           /\ Tail(q) \in Seq(S)
           /\ Len(q) \in Nat \ {0}
           /\ Len(Tail(q)) = Len(q) - 1
           /\ \A t : InSeq(t, Tail(q)) => InSeq(t, q)
           /\ \A t : InSeq(t, q) => InSeq(t, Tail(q)) \/ t = Head(q)
           /\ NoDuplicates(q) => ~InSeq(Head(q), Tail(q)) /\ NoDuplicates(Tail(q))
<1>1. /\ Head(q) \in S
      /\ Head(q) = q[1]
      /\ Tail(q) \in Seq(S)
      /\ Len(q) \in Nat \ {0}
      /\ Len(Tail(q)) = Len(q) - 1
      /\ DOMAIN q = 1 .. Len(q)
      /\ DOMAIN Tail(q) = 1 .. Len(q) - 1
      /\ \A k \in 1 .. Len(q) - 1 : Tail(q)[k] = q[k + 1]
  OBVIOUS
<1>2. 1 \in DOMAIN q
  BY <1>1
<1>3. InSeq(Head(q), q)
  BY <1>1, <1>2 DEF InSeq
<1>4. ASSUME NEW t, InSeq(t, Tail(q)) PROVE InSeq(t, q)
  <2>1. PICK k \in 1 .. Len(q) - 1 : q[k + 1] = t
    BY <1>1, <1>4 DEF InSeq
  <2>2. k + 1 \in DOMAIN q
    BY <1>1
  <2> QED BY <2>1, <2>2 DEF InSeq
<1>5. ASSUME NEW t, InSeq(t, q) PROVE InSeq(t, Tail(q)) \/ t = Head(q)
  <2>1. PICK k \in 1 .. Len(q) : q[k] = t
    BY <1>1, <1>5 DEF InSeq
  <2>2. CASE k = 1
    BY <1>1, <2>1, <2>2
  <2>3. CASE k # 1
    <3>1. k - 1 \in DOMAIN Tail(q) /\ Tail(q)[k - 1] = t
      BY <1>1, <2>1, <2>3
    <3> QED BY <3>1 DEF InSeq
  <2> QED BY <2>2, <2>3
<1>6. ASSUME NoDuplicates(q) PROVE ~InSeq(Head(q), Tail(q)) /\ NoDuplicates(Tail(q))
  <2>1. ASSUME NEW k \in DOMAIN Tail(q), Tail(q)[k] = Head(q) PROVE FALSE
    <3>1. k + 1 \in DOMAIN q /\ q[k + 1] = q[1]
      BY <1>1, <2>1
    <3>2. k + 1 = 1
      BY <1>2, <1>6, <3>1 DEF NoDuplicates
    <3> QED BY <1>1, <3>2
  <2>2. ASSUME NEW j \in DOMAIN Tail(q), NEW k \in DOMAIN Tail(q), Tail(q)[j] = Tail(q)[k]
        PROVE  j = k
    <3>1. j + 1 \in DOMAIN q /\ k + 1 \in DOMAIN q /\ q[j + 1] = q[k + 1]
      BY <1>1, <2>2
    <3>2. j + 1 = k + 1
      BY <1>6, <3>1 DEF NoDuplicates
    <3> QED BY <1>1, <3>2
  <2> QED BY <2>1, <2>2 DEF InSeq, NoDuplicates
<1> QED BY <1>1, <1>3, <1>4, <1>5, <1>6

-----------------------------------------------------------------------------
(* respondAndDie                                                             *)

\* The count of client tasks follows a client task that is finalized.
LEMMA ClientFinalized ==
    ASSUME TypeOK, ClientAccounting, NEW c \in alive \cap Clients
    PROVE  /\ baseTasks - 1 \in Nat
           /\ Cardinality((alive \ {c}) \cap Clients) = baseTasks - 1
<1>1. IsFiniteSet(alive \cap Clients)
  BY ConstantsAssumption, FS_Subset DEF TypeOK
<1>2. (alive \ {c}) \cap Clients = (alive \cap Clients) \ {c}
  OBVIOUS
<1>3. /\ Cardinality((alive \cap Clients) \ {c}) = Cardinality(alive \cap Clients) - 1
      /\ Cardinality((alive \cap Clients) \ {c}) \in Nat
  BY <1>1, FS_RemoveElement, FS_CardinalityType
<1> QED BY <1>2, <1>3 DEF ClientAccounting

\* An answer, final or not, keeps the types and the count of client tasks.
LEMMA RespondKeepsCount ==
    ASSUME TypeOK, ClientAccounting, NEW t \in alive, NEW s, NEW die \in BOOLEAN,
           die <=> s # "Again", NEW resumed,
           RespondAndResume(t, s, die, resumed)
    PROVE  /\ alive' \subseteq alive
           /\ open' \subseteq open
           /\ baseTasks' \in Nat
           /\ postponed' \subseteq postponed
           /\ timers' \subseteq Periodics
           /\ ClientAccounting'
<1>1. CASE t \in Clients /\ die
  <2>1. alive' = alive \ {t} /\ open' = open \ {t} /\ baseTasks' = baseTasks - 1
    BY <1>1 DEF RespondAndResume
  <2>2. timers' = timers
    BY <1>1, ConstantsAssumption DEF RespondAndResume
  <2>3. baseTasks' \in Nat /\ ClientAccounting'
    BY <1>1, <2>1, ClientFinalized DEF ClientAccounting
  <2> QED BY <2>1, <2>2, <2>3 DEF RespondAndResume, TypeOK
<1>2. CASE ~(t \in Clients /\ die)
  <2>1. baseTasks' = baseTasks /\ open' = open \ {t}
    BY <1>2 DEF RespondAndResume
  <2>2. alive' \subseteq alive /\ alive' \cap Clients = alive \cap Clients
    BY <1>2 DEF RespondAndResume
  <2>3. t \in Clients => alive' = alive
    BY <1>2 DEF RespondAndResume
  <2>4. open' \subseteq alive'
    BY <2>1, <2>2 DEF ClientAccounting, TypeOK
  <2> QED BY <2>1, <2>2, <2>4 DEF RespondAndResume, ClientAccounting, TypeOK
<1> QED BY <1>1, <1>2

\* A final answer takes the task out of the place it is in: the dispatch, the
\* upstream manager or m_postponedTasks.  A periodic task goes back to the timers.
LEMMA AnswerKeepsOnePlace ==
    ASSUME TypeOK, OnePlace, NEW t \in Tasks, NEW s, NEW resumed \in SUBSET postponed,
           s # "Again", RespondAndResume(t, s, TRUE, resumed),
           Dispatched(t) \/ t \in upstream \/ t \in postponed,
           \A u \in Tasks \ {t} : ~Dispatched(u),
           \A u \in Tasks : ~Dispatched(u)',
           t \notin resumed,
           upstream' = upstream \ {t},
           UNCHANGED <<pool, running, resQueue>>,
           \A u \in Tasks : InSeq(u, ready') <=> InSeq(u, ready) \/ u \in resumed,
           NoDuplicates(ready')
    PROVE  OnePlace'
<1>1. t \in alive
  BY DEF OnePlace, Places, Times
<1>2. ASSUME NEW u \in Tasks PROVE Places(u)' = Times(u \in alive)'
  <2>1. Places(u) = Times(u \in alive)
    BY DEF OnePlace
  <2>2. ~Dispatched(u)' /\ (InSeq(u, ready') <=> InSeq(u, ready) \/ u \in resumed)
    OBVIOUS
  <2>3. postponed' = postponed \ ({t} \cup resumed)
    BY DEF RespondAndResume
  <2>4. CASE u = t
    <3>1. u \in timers' <=> u \in alive'
      BY <1>1, <2>4, ConstantsAssumption, <2>1 DEF RespondAndResume, Tasks, TypeOK, Places, Times
    <3>2. /\ u \notin pool' /\ u \notin running' /\ ~InSeq(u, resQueue)' /\ u \notin upstream'
          /\ u \notin postponed' /\ ~InSeq(u, ready)'
      BY <1>1, <2>1, <2>2, <2>3, <2>4 DEF Places, Times
    <3> QED BY <2>2, <3>1, <3>2 DEF Places, Times
  <2>5. CASE u # t
    <3>1. (u \in timers' <=> u \in timers) /\ (u \in alive' <=> u \in alive)
      BY <2>5 DEF RespondAndResume
    <3>2. u \in resumed => u \in postponed /\ ~InSeq(u, ready)
      BY <2>1, <2>5 DEF Places, Times
    <3>3. ~Dispatched(u)
      BY <2>5
    <3> QED BY <2>1, <2>2, <2>3, <2>5, <3>1, <3>2, <3>3 DEF Places, Times
  <2> QED BY <2>4, <2>5
<1> QED BY <1>2 DEF OnePlace

\* A final answer of the dispatch, after which the dispatch ends.  It may resume
\* a postponed task.
LEMMA AnswerEndsDispatch ==
    ASSUME IInv, dispatch # Exit, Dispatched(dispatch.task), dispatch' = Exit,
           NEW s \in Statuses, s # "Again", NEW resumed \in SUBSET postponed,
           RespondAndResume(dispatch.task, s, TRUE, resumed),
           ready' \in Seq(Tasks), NoDuplicates(ready'),
           \A u \in Tasks : InSeq(u, ready') <=> InSeq(u, ready) \/ u \in resumed,
           future' \in [Tasks -> 0 .. MaxFuture],
           UNCHANGED <<ioVars, status, accepted, poolVars, upstream, blockingCalls>>
    PROVE  IInv'
<1> DEFINE t == dispatch.task
<1>1. t \in Tasks
  BY DEF IInv, TypeOK
<1>2. t \in alive /\ t \notin upstream /\ t \notin resumed
  BY <1>1 DEF IInv, OnePlace, Places, Times
<1>3. /\ \A u \in Tasks : ~Dispatched(u)'
      /\ \A u \in Tasks \ {t} : ~Dispatched(u)
      /\ Dispatched(t)
      /\ RespondAndResume(t, s, TRUE, resumed)
  BY DEF Dispatched
<1> HIDE DEF t
<1>4. /\ alive' \subseteq alive /\ open' \subseteq open /\ baseTasks' \in Nat
      /\ postponed' \subseteq postponed /\ timers' \subseteq Periodics /\ ClientAccounting'
  BY <1>2, <1>3, RespondKeepsCount DEF IInv
<1>5. OnePlace'
  <2>1. upstream' = upstream \ {t} /\ UNCHANGED <<pool, running, resQueue>>
    BY <1>2 DEF poolVars
  <2>2. TypeOK /\ OnePlace
    BY DEF IInv
  <2> QED BY <1>1, <1>2, <1>3, <2>1, <2>2, AnswerKeepsOnePlace
<1>6. TypeOK'
  BY <1>4 DEF IInv, TypeOK, ioVars, poolVars, Exit
<1>7. JobAccounting' /\ RoomForJob' /\ NotYetAlive'
  BY <1>4 DEF IInv, JobAccounting, RoomForJob, NotYetAlive, poolVars
<1>8. NotBusyWhileWaiting'
  BY <1>4 DEF IInv, TypeOK, NotBusyWhileWaiting
<1> QED BY <1>4, <1>5, <1>6, <1>7, <1>8 DEF IInv

\* The dispatch takes a row and keeps its task: nothing but the status of the
\* task and its connection may change.
LEMMA DispatchGoesOn ==
    ASSUME IInv, dispatch # Exit, Dispatched(dispatch.task),
           NEW st \in States, st # "EXECUTE", dispatch' = [dispatch EXCEPT !.state = st],
           Dispatched(dispatch.task)', RoomForJob',
           status' \in [Tasks -> Statuses],
           \A u \in Tasks : u # dispatch.task => status'[u] = status[u],
           open' \subseteq open,
           UNCHANGED <<ioVars, accepted, alive, baseTasks, poolVars, upstream, blockingCalls,
                       postponed, ready, future, timers>>
    PROVE  IInv'
<1> DEFINE t == dispatch.task
<1>1. t \in Tasks /\ dispatch'.task = t /\ dispatch' # Exit /\ dispatch'.state = st
      /\ dispatch' \in [task : Tasks, state : States]
  BY DEF IInv, TypeOK, Exit
<1>2. TypeOK'
  BY <1>1 DEF IInv, TypeOK, ioVars, poolVars
<1>3. \A u \in Tasks : Dispatched(u)' <=> Dispatched(u)
  BY <1>1 DEF Dispatched
<1>4. OnePlace'
  <2>1. ASSUME NEW u \in Tasks PROVE Places(u)' = Times(u \in alive)'
    <3>1. Places(u) = Times(u \in alive) /\ (Dispatched(u)' <=> Dispatched(u))
      BY <1>3 DEF IInv, OnePlace
    <3> QED BY <3>1 DEF Places, Times, poolVars
  <2> QED BY <2>1 DEF IInv, OnePlace, poolVars
<1>5. t \notin upstream \cup postponed /\ ~InSeq(t, ready)
  BY <1>1 DEF IInv, OnePlace, Places, Times
<1>6. NotBusyWhileWaiting'
  BY <1>1, <1>5 DEF IInv, NotBusyWhileWaiting, Dispatched
<1>7. JobAccounting' /\ ClientAccounting' /\ NotYetAlive'
  BY DEF IInv, JobAccounting, ClientAccounting, NotYetAlive, poolVars
<1> QED BY <1>2, <1>4, <1>6, <1>7 DEF IInv

\* Steps that only move the loop or ask for a stop.
LEMMA LoopControl ==
    ASSUME IInv, phase' \in Phases, stop' \in StopKinds,
           UNCHANGED <<dispatch, taskVars, poolVars, waitVars>>
    PROVE  IInv'
<1>1. UNCHANGED <<dispatch, alive, status, accepted, open, baseTasks, jobs, pool, running,
                  expelled, waiting, resQueue, promiseQueue, periodicQueue, upstream,
                  blockingCalls, postponed, ready, future, timers>>
  BY DEF taskVars, poolVars, waitVars
<1>2. TypeOK' /\ JobAccounting' /\ ClientAccounting' /\ NotYetAlive'
  BY <1>1 DEF IInv, TypeOK, JobAccounting, ClientAccounting, NotYetAlive
<1>3. OnePlace' /\ NotBusyWhileWaiting' /\ RoomForJob'
  BY <1>1 DEF IInv, OnePlace, Places, Dispatched, NotBusyWhileWaiting, RoomForJob
<1> QED BY <1>2, <1>3 DEF IInv
-----------------------------------------------------------------------------
(* The rows of the state machine                                             *)

\* The task of a dispatch, and that the dispatch is where At says.
LEMMA DispatchFacts ==
    ASSUME TypeOK, NEW st \in States, At(st)
    PROVE  /\ dispatch # Exit /\ dispatch.task \in Tasks /\ dispatch.state = st
           /\ dispatch \in [task : Tasks, state : States]
           /\ status[dispatch.task] \in Statuses
BY DEF TypeOK, At, Exit, States

\* checkThreadPoolOverflow preserves the invariant: a task refused with Busy is
\* finalized, and one let through has room for its job.
LEMMA StepCheckThreadPoolOverflow ==
    ASSUME IInv, CheckThreadPoolOverflow PROVE IInv'
<1> DEFINE t == dispatch.task
<1>1. /\ dispatch # Exit /\ t \in Tasks /\ dispatch.state = "EXECUTE"
      /\ dispatch \in [task : Tasks, state : States]
  BY DispatchFacts DEF IInv, CheckThreadPoolOverflow, States
<1>2. Dispatched(t) /\ status[t] # "Busy"
  BY <1>1 DEF IInv, NotBusyWhileWaiting, Dispatched
<1>3. /\ dispatch' = [dispatch EXCEPT !.state = "PRE_ACTION"]
      /\ dispatch'.task = t /\ dispatch'.state = "PRE_ACTION" /\ dispatch' # Exit
  BY <1>1 DEF CheckThreadPoolOverflow, Goto, Exit
<1>4. CASE /\ HasWorker(t) /\ jobs = ThreadPoolInputSize
           /\ status' = [status EXCEPT ![t] = "Busy"]
           /\ RespondAndDie(t, "Busy", TRUE)
  <2>1. /\ RespondAndResume(t, "Busy", TRUE, {})
        /\ UNCHANGED <<phase, stop, accepted, jobs, pool, running, expelled, waiting, resQueue,
                       promiseQueue, periodicQueue, upstream, blockingCalls, ready, future>>
    BY <1>4 DEF CheckThreadPoolOverflow, RespondAndDie, ioVars, poolVars
  <2>2. /\ t \in alive /\ t \notin upstream \cup postponed /\ ~InSeq(t, ready)
    BY <1>1, <1>2 DEF IInv, OnePlace, Places, Times
  <2>3. /\ status' \in [Tasks -> Statuses] /\ status'[t] = "Busy"
        /\ \A u \in Tasks : u # t => status'[u] = status[u]
    BY <1>1, <1>4 DEF IInv, TypeOK, Statuses
  <2>4. /\ \A u \in Tasks : ~Dispatched(u)'
        /\ \A u \in Tasks \ {t} : ~Dispatched(u)
    BY <1>1, <1>3, <2>3 DEF Dispatched
  <2> HIDE DEF t
  <2>5. /\ alive' \subseteq alive /\ open' \subseteq open /\ baseTasks' \in Nat
        /\ postponed' \subseteq postponed /\ timers' \subseteq Periodics /\ ClientAccounting'
    BY <2>1, <2>2, RespondKeepsCount DEF IInv
  <2>6. OnePlace'
    <3>1. /\ \A u \in Tasks : InSeq(u, ready') <=> InSeq(u, ready) \/ u \in {}
          /\ NoDuplicates(ready') /\ upstream' = upstream \ {t} /\ {} \in SUBSET postponed
      BY <2>1, <2>2 DEF IInv, OnePlace
    <3>2. TypeOK /\ OnePlace
      BY DEF IInv
    <3> QED BY <1>1, <1>2, <2>1, <2>2, <2>4, <3>1, <3>2, AnswerKeepsOnePlace
  <2>7. TypeOK'
    <3>1. dispatch' \in [task : Tasks, state : States]
      BY <1>1, <1>3 DEF States
    <3> QED BY <2>1, <2>3, <2>5, <3>1 DEF IInv, TypeOK
  <2>8. NotBusyWhileWaiting'
    <3>1. t \notin alive' \ timers'
      BY <1>1, <2>1 DEF RespondAndResume, Tasks
    <3>2. dispatch'.task = t /\ dispatch'.state = "PRE_ACTION"
      BY <1>3 DEF t
    <3> QED BY <2>1, <2>2, <2>3, <2>5, <3>1, <3>2 DEF IInv, NotBusyWhileWaiting
  <2>9. JobAccounting' /\ RoomForJob' /\ NotYetAlive'
    BY <1>3, <2>1, <2>3, <2>5 DEF IInv, JobAccounting, RoomForJob, NotYetAlive, t
  <2> QED BY <2>5, <2>6, <2>7, <2>8, <2>9 DEF IInv
<1>5. CASE /\ ~(HasWorker(t) /\ jobs = ThreadPoolInputSize)
           /\ UNCHANGED <<status, alive, open, baseTasks, postponed, timers>>
  <2>1. Dispatched(t)'
    BY <1>2, <1>3, <1>5 DEF Dispatched
  <2>2. RoomForJob'
    BY <1>1, <1>3, <1>5, ConstantsAssumption
       DEF IInv, TypeOK, JobAccounting, RoomForJob, CheckThreadPoolOverflow, poolVars
  <2> QED BY <1>1, <1>2, <1>3, <1>5, <2>1, <2>2, DispatchGoesOn
          DEF CheckThreadPoolOverflow, IInv, TypeOK, States
<1> QED BY <1>4, <1>5 DEF CheckThreadPoolOverflow, Task

\* An answer that is not the last one changes nothing but the connection.
LEMMA AgainFacts ==
    ASSUME IInv, dispatch # Exit, Dispatched(dispatch.task),
           RespondAndDie(dispatch.task, "Again", FALSE)
    PROVE  open' \subseteq open /\ UNCHANGED <<alive, baseTasks, postponed, timers>>
<1>1. dispatch.task \in Tasks
  BY DEF IInv, TypeOK
<1>2. dispatch.task \notin postponed
  BY <1>1 DEF IInv, OnePlace, Places, Times
<1> QED BY <1>2 DEF RespondAndDie, RespondAndResume

\* A dispatch that leaves after Busy holds no task any more.
LEMMA StepPreActionBusy ==
    ASSUME IInv, PreActionBusy PROVE IInv'
<1>1. dispatch # Exit /\ dispatch.state = "PRE_ACTION" /\ status[dispatch.task] = "Busy"
  BY DispatchFacts DEF IInv, PreActionBusy, States, Task
<1>2. dispatch' = Exit
  BY DEF PreActionBusy, Goto
<1>3. \A u \in Tasks : ~Dispatched(u) /\ ~Dispatched(u)'
  BY <1>1, <1>2 DEF Dispatched
<1>4. UNCHANGED <<phase, stop, alive, status, accepted, open, baseTasks, jobs, pool, running,
                  expelled, waiting, resQueue, promiseQueue, periodicQueue, upstream,
                  blockingCalls, postponed, ready, future, timers>>
  BY DEF PreActionBusy, ioVars, taskVars, poolVars, waitVars
<1>5. OnePlace'
  BY <1>3, <1>4 DEF IInv, OnePlace, Places, Times
<1> QED BY <1>2, <1>4, <1>5 DEF IInv, TypeOK, JobAccounting, ClientAccounting,
        NotBusyWhileWaiting, RoomForJob, NotYetAlive

\* runPreAction changes nothing but the status of the task it runs.
LEMMA StepRunPreAction ==
    ASSUME IInv, RunPreAction PROVE IInv'
<1> DEFINE t == dispatch.task
<1>1. /\ dispatch # Exit /\ t \in Tasks /\ dispatch.state = "PRE_ACTION"
      /\ dispatch \in [task : Tasks, state : States] /\ status[t] \in Statuses
  BY DispatchFacts DEF IInv, RunPreAction, States
<1>2. Dispatched(t)
  BY <1>1 DEF Dispatched, RunPreAction, Task
<1>3. /\ dispatch' = [dispatch EXCEPT !.state = "CHK_PRE_ACTION"]
      /\ dispatch'.task = t /\ dispatch'.state = "CHK_PRE_ACTION" /\ dispatch' # Exit
  BY <1>1 DEF RunPreAction, Goto, Exit
<1>4. status' \in [Tasks -> Statuses] /\ \A u \in Tasks : u # t => status'[u] = status[u]
  <2>1. CASE HasPre(t)
    <3>1. PICK s \in Returns[t]["pre"][status[t]] \ {Throws} : status' = [status EXCEPT ![t] = s]
      BY <1>1, <2>1 DEF RunPreAction, Task
    <3>2. s \in Statuses
      BY <1>1, ConstantsAssumption DEF Actions
    <3> QED BY <1>1, <3>1, <3>2 DEF IInv, TypeOK
  <2>2. CASE ~HasPre(t)
    BY <1>1, <2>2 DEF RunPreAction, Task, IInv, TypeOK
  <2> QED BY <2>1, <2>2
<1>5. Dispatched(t)'
  BY <1>3 DEF Dispatched
<1>6. RoomForJob'
  BY <1>1, <1>3 DEF IInv, RoomForJob, RunPreAction, Task, poolVars
<1> QED BY <1>1, <1>2, <1>3, <1>4, <1>5, <1>6, DispatchGoesOn
        DEF RunPreAction, States, waitVars

\* The rows after the pre_action: the task goes on or gets its error response.
LEMMA StepChkPreAction ==
    ASSUME IInv, ChkPreAction PROVE IInv'
<1> DEFINE t == dispatch.task
<1>1. /\ dispatch # Exit /\ t \in Tasks /\ dispatch.state = "CHK_PRE_ACTION"
      /\ dispatch \in [task : Tasks, state : States] /\ status[t] \in Statuses
  BY DispatchFacts DEF IInv, ChkPreAction, States
<1>2. Dispatched(t)
  BY <1>1 DEF Dispatched
<1>3. ASSUME NEW st \in {"PRE_ACTION", "WORKER_ACTION", "POST_ACTION"}, Goto(st),
             st = "PRE_ACTION" => status[t] = "Again",
             open' \subseteq open, UNCHANGED <<alive, baseTasks, postponed, timers>>
      PROVE  IInv'
  <2>1. /\ dispatch' = [dispatch EXCEPT !.state = st]
        /\ dispatch'.task = t /\ dispatch'.state = st /\ dispatch' # Exit
    BY <1>1, <1>3 DEF Goto, Exit
  <2>2. UNCHANGED <<ioVars, status, accepted, poolVars, upstream, blockingCalls, ready, future>>
    BY DEF ChkPreAction
  <2>3. Dispatched(t)'
    BY <1>3, <2>1, <2>2 DEF Dispatched
  <2>4. RoomForJob'
    BY <1>1, <1>3, <2>1, <2>2 DEF IInv, RoomForJob, poolVars
  <2>5. status' \in [Tasks -> Statuses] /\ \A u \in Tasks : u # t => status'[u] = status[u]
    BY <2>2 DEF IInv, TypeOK
  <2> QED BY <1>1, <1>2, <1>3, <2>1, <2>2, <2>3, <2>4, <2>5, DispatchGoesOn DEF States
<1>4. CASE /\ status[t] = "Again"
           /\ RespondAndDie(t, "Again", FALSE)
           /\ Goto("PRE_ACTION")
  BY <1>1, <1>2, <1>3, <1>4, AgainFacts
<1>5. CASE /\ Goto("WORKER_ACTION")
           /\ UNCHANGED <<alive, open, baseTasks, postponed, timers>>
  BY <1>3, <1>5
<1>6. CASE /\ Goto("POST_ACTION")
           /\ UNCHANGED <<alive, open, baseTasks, postponed, timers>>
  BY <1>3, <1>6
<1>7. CASE /\ PreFails(t)
           /\ RespondAndDie(t, status[t], TRUE)
           /\ Goto("EXIT")
  <2>1. status[t] # "Again" /\ dispatch' = Exit /\ RespondAndResume(t, status[t], TRUE, {})
    BY <1>7 DEF PreFails, RespondAndDie, Goto
  <2>2. UNCHANGED <<ioVars, status, accepted, poolVars, upstream, blockingCalls, ready, future>>
    BY DEF ChkPreAction
  <2>3. /\ ready' \in Seq(Tasks) /\ NoDuplicates(ready') /\ future' \in [Tasks -> 0 .. MaxFuture]
        /\ \A u \in Tasks : InSeq(u, ready') <=> InSeq(u, ready) \/ u \in {}
        /\ {} \in SUBSET postponed
    BY <2>2 DEF IInv, TypeOK, OnePlace
  <2> QED BY <1>1, <1>2, <2>1, <2>2, <2>3, AnswerEndsDispatch
<1> QED BY <1>4, <1>5, <1>6, <1>7 DEF ChkPreAction, Task

\* runWorkerAction counts the job it posts, and the limit is kept.
LEMMA StepRunWorkerAction ==
    ASSUME IInv, RunWorkerAction PROVE IInv'
<1> DEFINE t == dispatch.task
<1>1. /\ dispatch # Exit /\ t \in Tasks /\ dispatch.state = "WORKER_ACTION"
      /\ dispatch \in [task : Tasks, state : States] /\ status[t] \in Statuses
  BY DispatchFacts DEF IInv, RunWorkerAction, States
<1>2. Dispatched(t)
  BY <1>1 DEF Dispatched
<1>3. /\ dispatch' = [dispatch EXCEPT !.state = "CHK_WORKER_ACTION"]
      /\ dispatch'.task = t /\ dispatch'.state = "CHK_WORKER_ACTION" /\ dispatch' # Exit
      /\ dispatch' \in [task : Tasks, state : States]
  BY <1>1 DEF RunWorkerAction, Goto, Exit, States
<1>4. UNCHANGED <<ioVars, taskVars, running, expelled, waiting, resQueue, promiseQueue,
                  periodicQueue, waitVars>>
  BY DEF RunWorkerAction
<1>5. CASE HasWorker(t) /\ jobs' = jobs + 1 /\ pool' = pool \cup {t}
  <2>1. UNCHANGED <<phase, stop, alive, status, accepted, open, baseTasks, running,
                    expelled, waiting, resQueue, promiseQueue, periodicQueue, upstream,
                    blockingCalls, postponed, ready, future, timers>>
    BY <1>4 DEF ioVars, taskVars, waitVars
  <2>2. t \notin pool /\ Places(t) = Times(t \in alive)
    BY <1>1, <1>2 DEF IInv, OnePlace, Places, Times
  <2>3. JobAccounting'
    <3>1. IsFiniteSet(pool)
      BY ConstantsAssumption, FS_Subset DEF IInv, TypeOK
    <3>2. Cardinality(pool') = Cardinality(pool) + 1
      BY <1>5, <2>2, <3>1, FS_AddElement
    <3>3. jobs < ThreadPoolInputSize
      BY <1>1, <1>5 DEF IInv, RoomForJob
    <3>4. Cardinality(pool) \in Nat /\ Cardinality(running) \in Nat /\ Len(resQueue) \in Nat
          /\ jobs \in Nat
      BY <3>1, ConstantsAssumption, FS_Subset, FS_CardinalityType DEF IInv, TypeOK
    <3> QED BY <1>5, <2>1, <3>2, <3>3, <3>4, ConstantsAssumption DEF IInv, JobAccounting
  <2>4. OnePlace'
    <3>1. ASSUME NEW u \in Tasks PROVE Places(u)' = Times(u \in alive)'
      <4>1. ~Dispatched(u)' /\ (u # t => ~Dispatched(u))
        BY <1>3, <1>5 DEF Dispatched
      <4>2. Places(u) = Times(u \in alive)
        BY DEF IInv, OnePlace
      <4>3. u \in pool' <=> u \in pool \/ u = t
        BY <1>5
      <4> HIDE DEF t
      <4> QED BY <1>2, <2>1, <2>2, <4>1, <4>2, <4>3 DEF Places, Times
    <3> QED BY <2>1, <3>1 DEF IInv, OnePlace
  <2>5. TypeOK'
    BY <1>1, <1>3, <1>5, <2>1 DEF IInv, TypeOK
  <2>6. ClientAccounting' /\ NotBusyWhileWaiting' /\ RoomForJob' /\ NotYetAlive'
    BY <1>3, <2>1 DEF IInv, ClientAccounting, NotBusyWhileWaiting, RoomForJob, NotYetAlive
  <2> QED BY <2>3, <2>4, <2>5, <2>6 DEF IInv
<1>6. CASE ~HasWorker(t) /\ UNCHANGED <<jobs, pool>>
  <2>1. Dispatched(t)' /\ RoomForJob'
    BY <1>3, <1>6 DEF Dispatched, RoomForJob
  <2>2. status' \in [Tasks -> Statuses] /\ \A u \in Tasks : u # t => status'[u] = status[u]
    BY <1>4 DEF IInv, TypeOK, taskVars
  <2> QED BY <1>1, <1>2, <1>3, <1>4, <1>6, <2>1, <2>2, DispatchGoesOn
          DEF States, taskVars, poolVars, waitVars
<1> QED BY <1>5, <1>6 DEF RunWorkerAction, Task

\* The dispatch ends when a worker has the task.
LEMMA StepChkWorkerAction ==
    ASSUME IInv, ChkWorkerAction PROVE IInv'
<1> DEFINE t == dispatch.task
<1>1. /\ dispatch # Exit /\ t \in Tasks /\ dispatch.state = "CHK_WORKER_ACTION"
      /\ dispatch \in [task : Tasks, state : States] /\ status[t] \in Statuses
  BY DispatchFacts DEF IInv, ChkWorkerAction, States
<1>2. UNCHANGED <<phase, stop, alive, status, accepted, open, baseTasks, jobs, pool, running,
                  expelled, waiting, resQueue, promiseQueue, periodicQueue, upstream,
                  blockingCalls, postponed, ready, future, timers>>
  BY DEF ChkWorkerAction, ioVars, taskVars, poolVars, waitVars
<1>3. CASE HasWorker(t)
  <2>1. dispatch' = Exit
    BY <1>3 DEF ChkWorkerAction, Goto, Task
  <2>2. \A u \in Tasks : ~Dispatched(u) /\ ~Dispatched(u)'
    BY <1>1, <1>3, <2>1 DEF Dispatched
  <2>3. OnePlace'
    BY <1>2, <2>2 DEF IInv, OnePlace, Places, Times
  <2> QED BY <1>2, <2>1, <2>3 DEF IInv, TypeOK, JobAccounting, ClientAccounting,
          NotBusyWhileWaiting, RoomForJob, NotYetAlive
<1>4. CASE ~HasWorker(t)
  <2>1. /\ dispatch' = [dispatch EXCEPT !.state = "POST_ACTION"]
        /\ dispatch'.task = t /\ dispatch'.state = "POST_ACTION" /\ dispatch' # Exit
    BY <1>1, <1>4 DEF ChkWorkerAction, Goto, Task, Exit
  <2>2. Dispatched(t) /\ Dispatched(t)' /\ RoomForJob'
    BY <1>1, <1>4, <2>1 DEF Dispatched, RoomForJob
  <2>3. status' \in [Tasks -> Statuses] /\ \A u \in Tasks : u # t => status'[u] = status[u]
    BY <1>2 DEF IInv, TypeOK
  <2> QED BY <1>1, <1>2, <2>1, <2>2, <2>3, DispatchGoesOn DEF States, ioVars, poolVars
<1> QED BY <1>3, <1>4

\* The rows after the worker action, where Again leaves room for the next post.
LEMMA StepWorkerActionDone ==
    ASSUME IInv, WorkerActionDone PROVE IInv'
<1> DEFINE t == dispatch.task
<1>1. /\ dispatch # Exit /\ t \in Tasks /\ dispatch.state = "WORKER_ACTION_DONE"
      /\ dispatch \in [task : Tasks, state : States] /\ status[t] \in Statuses
  BY DispatchFacts DEF IInv, WorkerActionDone, States
<1>2. Dispatched(t)
  BY <1>1 DEF Dispatched
<1>3. UNCHANGED <<ioVars, status, accepted, poolVars, upstream, blockingCalls, ready, future>>
  BY DEF WorkerActionDone
<1>4. ASSUME NEW st \in {"WORKER_ACTION", "POST_ACTION"}, Goto(st),
             open' \subseteq open, UNCHANGED <<alive, baseTasks, postponed, timers>>
      PROVE  IInv'
  <2>1. /\ dispatch' = [dispatch EXCEPT !.state = st]
        /\ dispatch'.task = t /\ dispatch'.state = st /\ dispatch' # Exit
    BY <1>1, <1>4 DEF Goto, Exit
  <2>2. Dispatched(t)'
    BY <1>4, <2>1 DEF Dispatched
  <2>3. RoomForJob'
    BY <1>1, <1>3, <2>1 DEF IInv, RoomForJob, poolVars
  <2>4. status' \in [Tasks -> Statuses] /\ \A u \in Tasks : u # t => status'[u] = status[u]
    BY <1>3 DEF IInv, TypeOK
  <2> QED BY <1>1, <1>2, <1>3, <1>4, <2>1, <2>2, <2>3, <2>4, DispatchGoesOn DEF States
<1>5. CASE RespondAndDie(t, "Again", FALSE) /\ Goto("WORKER_ACTION")
  BY <1>1, <1>2, <1>4, <1>5, AgainFacts
<1>6. CASE Goto("POST_ACTION") /\ UNCHANGED <<alive, open, baseTasks, postponed, timers>>
  BY <1>4, <1>6
<1> QED BY <1>5, <1>6 DEF WorkerActionDone, Task

\* runPostAction changes nothing but the status of the task it runs.
LEMMA StepRunPostAction ==
    ASSUME IInv, RunPostAction PROVE IInv'
<1> DEFINE t == dispatch.task
<1>1. /\ dispatch # Exit /\ t \in Tasks /\ dispatch.state = "POST_ACTION"
      /\ dispatch \in [task : Tasks, state : States] /\ status[t] \in Statuses
  BY DispatchFacts DEF IInv, RunPostAction, States
<1>2. /\ dispatch' = [dispatch EXCEPT !.state = "CHK_POST_ACTION"]
      /\ dispatch'.task = t /\ dispatch'.state = "CHK_POST_ACTION" /\ dispatch' # Exit
  BY <1>1 DEF RunPostAction, Goto, Exit
<1>3. status' \in [Tasks -> Statuses] /\ \A u \in Tasks : u # t => status'[u] = status[u]
  <2>1. CASE HasPost(t) /\ status[t] # "Forward"
    <3>1. PICK s \in Returns[t]["post"][status[t]] \ {Throws} : status' = [status EXCEPT ![t] = s]
      BY <1>1, <2>1 DEF RunPostAction, Task
    <3>2. s \in Statuses
      BY <1>1, ConstantsAssumption DEF Actions
    <3> QED BY <1>1, <3>1, <3>2 DEF IInv, TypeOK
  <2>2. CASE ~(HasPost(t) /\ status[t] # "Forward")
    BY <1>1, <2>2 DEF RunPostAction, Task, IInv, TypeOK
  <2> QED BY <2>1, <2>2
<1>4. Dispatched(t) /\ Dispatched(t)' /\ RoomForJob'
  BY <1>1, <1>2 DEF Dispatched, RoomForJob
<1> QED BY <1>1, <1>2, <1>3, <1>4, DispatchGoesOn DEF RunPostAction, States, waitVars

\* Again from the post_action answers the client and keeps the task.
LEMMA StepChkPostAgain ==
    ASSUME IInv, ChkPostAgain PROVE IInv'
<1> DEFINE t == dispatch.task
<1>1. /\ dispatch # Exit /\ t \in Tasks /\ dispatch.state = "CHK_POST_ACTION"
      /\ dispatch \in [task : Tasks, state : States] /\ status[t] \in Statuses
  BY DispatchFacts DEF IInv, ChkPostAgain, States
<1>2. /\ dispatch' = [dispatch EXCEPT !.state = "POST_ACTION"]
      /\ dispatch'.task = t /\ dispatch'.state = "POST_ACTION" /\ dispatch' # Exit
  BY <1>1 DEF ChkPostAgain, Goto, Exit
<1>3. Dispatched(t) /\ Dispatched(t)' /\ RoomForJob'
  BY <1>1, <1>2 DEF Dispatched, RoomForJob
<1>4. UNCHANGED <<ioVars, status, accepted, poolVars, upstream, blockingCalls, ready, future>>
      /\ RespondAndDie(t, "Again", FALSE)
  BY DEF ChkPostAgain, Task
<1>5. open' \subseteq open /\ UNCHANGED <<alive, baseTasks, postponed, timers>>
  BY <1>1, <1>3, <1>4, AgainFacts
<1>6. status' \in [Tasks -> Statuses] /\ \A u \in Tasks : u # t => status'[u] = status[u]
  BY <1>4 DEF IInv, TypeOK
<1> QED BY <1>1, <1>2, <1>3, <1>4, <1>5, <1>6, DispatchGoesOn DEF States

\* processOk finalizes its task and moves a postponed next task to
\* m_readyToResume.
LEMMA StepProcessOk ==
    ASSUME IInv, ProcessOk PROVE IInv'
<1> DEFINE t == dispatch.task
<1>1. /\ dispatch # Exit /\ t \in Tasks /\ dispatch.state = "CHK_POST_ACTION"
  BY DispatchFacts DEF IInv, ProcessOk, States
<1>2. Dispatched(t) /\ dispatch' = Exit
  BY <1>1 DEF Dispatched, ProcessOk, Goto
<1>3. UNCHANGED <<ioVars, status, accepted, poolVars, upstream, blockingCalls>>
  BY DEF ProcessOk
<1>4. /\ ready \in Seq(Tasks) /\ NoDuplicates(ready) /\ future \in [Tasks -> 0 .. MaxFuture]
      /\ MaxFuture \in Nat /\ postponed \subseteq Tasks /\ "Ok" \in Statuses
  BY ConstantsAssumption DEF IInv, TypeOK, OnePlace, Statuses
<1>5. ASSUME RespondAndDie(t, "Ok", TRUE), ready' = ready, future' \in [Tasks -> 0 .. MaxFuture]
      PROVE  IInv'
  <2>1. RespondAndResume(t, "Ok", TRUE, {})
    BY <1>5 DEF RespondAndDie
  <2>2. \A u \in Tasks : InSeq(u, ready') <=> InSeq(u, ready) \/ u \in {}
    BY <1>5
  <2>3. {} \in SUBSET postponed /\ ready' \in Seq(Tasks) /\ NoDuplicates(ready')
    BY <1>4, <1>5
  <2> QED BY <1>1, <1>2, <1>3, <1>4, <1>5, <2>1, <2>2, <2>3, AnswerEndsDispatch
<1>6. ASSUME NEW n \in NextTaskIds[t] \cap postponed, ready' = Append(ready, n),
             RespondAndResume(t, "Ok", TRUE, {n}), UNCHANGED future
      PROVE  IInv'
  <2>1. n \in Tasks /\ ~InSeq(n, ready)
    BY <1>4 DEF IInv, OnePlace, Places, Times
  <2>2. /\ ready' \in Seq(Tasks) /\ NoDuplicates(ready')
        /\ \A u \in Tasks : InSeq(u, ready') <=> InSeq(u, ready) \/ u \in {n}
    BY <1>4, <1>6, <2>1, AppendFacts
  <2>3. {n} \in SUBSET postponed /\ future' \in [Tasks -> 0 .. MaxFuture]
    BY <1>4, <1>6
  <2> QED BY <1>1, <1>2, <1>3, <1>4, <1>6, <2>2, <2>3, AnswerEndsDispatch
<1>7. ASSUME NEW n \in NextTaskIds[t] \ postponed,
             future' = [future EXCEPT ![n] = IF @ < MaxFuture THEN @ + 1 ELSE @],
             RespondAndDie(t, "Ok", TRUE), UNCHANGED ready
      PROVE  IInv'
  <2>0. n \in Tasks
    BY <1>1, ConstantsAssumption
  <2>1. future' \in [Tasks -> 0 .. MaxFuture]
    BY <1>4, <1>7, <2>0
  <2> QED BY <1>5, <1>7, <2>1
<1> QED BY <1>4, <1>5, <1>6, <1>7 DEF ProcessOk, Task

\* run_error_response and run_drop finalize the task.
LEMMA StepChkPostFails ==
    ASSUME IInv, ChkPostFails PROVE IInv'
<1> DEFINE t == dispatch.task
<1>1. /\ dispatch # Exit /\ t \in Tasks /\ dispatch.state = "CHK_POST_ACTION"
      /\ status[t] \in Statuses
  BY DispatchFacts DEF IInv, ChkPostFails, States
<1>2. Dispatched(t) /\ dispatch' = Exit /\ status[t] # "Again"
  BY <1>1 DEF Dispatched, ChkPostFails, Goto, Task
<1>3. /\ UNCHANGED <<ioVars, status, accepted, poolVars, upstream, blockingCalls, ready, future>>
      /\ RespondAndResume(t, status[t], TRUE, {})
  BY DEF ChkPostFails, RespondAndDie, Task
<1>4. /\ ready' \in Seq(Tasks) /\ NoDuplicates(ready') /\ future' \in [Tasks -> 0 .. MaxFuture]
      /\ \A u \in Tasks : InSeq(u, ready') <=> InSeq(u, ready) \/ u \in {}
      /\ {} \in SUBSET postponed
  BY <1>3 DEF IInv, TypeOK, OnePlace
<1> QED BY <1>1, <1>2, <1>3, <1>4, AnswerEndsDispatch

\* A task leaves the dispatch for a place where it waits.
LEMMA StepProcessForward ==
    ASSUME IInv, ProcessForward PROVE IInv'
<1> DEFINE t == dispatch.task
<1>1. /\ dispatch # Exit /\ t \in Tasks /\ dispatch.state = "CHK_POST_ACTION"
  BY DispatchFacts DEF IInv, ProcessForward, States
<1>2. /\ Dispatched(t) /\ dispatch' = Exit /\ status[t] # "Busy" /\ upstream' = upstream \cup {t}
      /\ UNCHANGED <<phase, stop, alive, status, accepted, open, baseTasks, jobs, pool, running,
                     expelled, waiting, resQueue, promiseQueue, periodicQueue,
                     blockingCalls, postponed, ready, future, timers>>
  BY <1>1 DEF Dispatched, ProcessForward, Goto, Task, ioVars, taskVars, poolVars
<1>3. OnePlace'
  <2>1. ASSUME NEW u \in Tasks PROVE Places(u)' = Times(u \in alive)'
    <3>1. ~Dispatched(u)' /\ (u # t => ~Dispatched(u)) /\ (u \in upstream' <=> u \in upstream \/ u = t)
      BY <1>2 DEF Dispatched
    <3>2. Places(u) = Times(u \in alive)
      BY DEF IInv, OnePlace
    <3> HIDE DEF t
    <3> QED BY <1>2, <3>1, <3>2 DEF Places, Times
  <2> QED BY <1>2, <2>1 DEF IInv, OnePlace
<1>4. TypeOK'
  BY <1>1, <1>2 DEF IInv, TypeOK
<1>5. NotBusyWhileWaiting'
  BY <1>2 DEF IInv, NotBusyWhileWaiting
<1>6. JobAccounting' /\ ClientAccounting' /\ RoomForJob' /\ NotYetAlive'
  BY <1>2 DEF IInv, JobAccounting, ClientAccounting, RoomForJob, NotYetAlive
<1> QED BY <1>3, <1>4, <1>5, <1>6 DEF IInv

\* postponeTask moves the task to m_postponedTasks or to m_readyToResume, never
\* to both.
LEMMA StepPostponeTask ==
    ASSUME IInv, PostponeTask PROVE IInv'
<1> DEFINE t == dispatch.task
<1>1. /\ dispatch # Exit /\ t \in Tasks /\ dispatch.state = "CHK_POST_ACTION"
  BY DispatchFacts DEF IInv, PostponeTask, States
<1>2. /\ Dispatched(t) /\ dispatch' = Exit /\ status[t] # "Busy"
      /\ UNCHANGED <<phase, stop, alive, status, accepted, open, baseTasks, jobs, pool, running,
                     expelled, waiting, resQueue, promiseQueue, periodicQueue, upstream,
                     blockingCalls, timers>>
  BY <1>1 DEF Dispatched, PostponeTask, Goto, Task, ioVars, taskVars, poolVars
<1>3. /\ ready \in Seq(Tasks) /\ NoDuplicates(ready) /\ ~InSeq(t, ready) /\ t \notin postponed
      /\ future \in [Tasks -> 0 .. MaxFuture] /\ MaxFuture \in Nat /\ postponed \subseteq Tasks
  <2>1. ~InSeq(t, ready) /\ t \notin postponed /\ NoDuplicates(ready)
    BY <1>1, <1>2 DEF IInv, OnePlace, Places, Times
  <2> QED BY <2>1, ConstantsAssumption DEF IInv, TypeOK
<1>4. /\ ready' \in Seq(Tasks) /\ NoDuplicates(ready') /\ postponed' \subseteq Tasks
      /\ future' \in [Tasks -> 0 .. MaxFuture]
      /\ \/ /\ postponed' = postponed
            /\ \A u \in Tasks : InSeq(u, ready') <=> InSeq(u, ready) \/ u = t
         \/ ready' = ready /\ postponed' = postponed \cup {t}
  <2>1. CASE future[t] > 0 /\ ready' = Append(ready, t)
             /\ future' = [future EXCEPT ![t] = @ - 1] /\ UNCHANGED postponed
    <3>1. future' \in [Tasks -> 0 .. MaxFuture]
      BY <1>1, <1>3, <2>1
    <3> QED BY <1>1, <1>3, <2>1, <3>1, AppendFacts
  <2>2. CASE postponed' = postponed \cup {t} /\ future' = [future EXCEPT ![t] = 0]
             /\ UNCHANGED ready
    BY <1>1, <1>3, <2>2
  <2> QED BY <2>1, <2>2 DEF PostponeTask, Task
<1>5. OnePlace'
  <2>1. ASSUME NEW u \in Tasks PROVE Places(u)' = Times(u \in alive)'
    <3>1. ~Dispatched(u)' /\ (u # t => ~Dispatched(u))
      BY <1>2 DEF Dispatched
    <3>2. Places(u) = Times(u \in alive)
      BY DEF IInv, OnePlace
    <3> HIDE DEF t
    <3> QED BY <1>2, <1>3, <1>4, <3>1, <3>2 DEF Places, Times
  <2> QED BY <1>2, <1>4, <2>1 DEF IInv, OnePlace
<1>6. TypeOK'
  BY <1>2, <1>4 DEF IInv, TypeOK
<1>7. NotBusyWhileWaiting'
  BY <1>2, <1>4 DEF IInv, NotBusyWhileWaiting
<1>8. JobAccounting' /\ ClientAccounting' /\ RoomForJob' /\ NotYetAlive'
  BY <1>2 DEF IInv, JobAccounting, ClientAccounting, RoomForJob, NotYetAlive
<1> QED BY <1>5, <1>6, <1>7, <1>8 DEF IInv

\* addPeriodicTask on the IO thread puts a new task into the timer list.
LEMMA StepAddPeriodicTask ==
    ASSUME IInv, NEW t \in Periodics, AddPeriodicTask(t) PROVE IInv'
<1>1. /\ t \notin alive \cup periodicQueue /\ alive' = alive \cup {t} /\ timers' = timers \cup {t}
      /\ UNCHANGED <<phase, stop, dispatch, status, accepted, open, baseTasks, jobs, pool, running,
                     expelled, waiting, resQueue, promiseQueue, periodicQueue, upstream,
                     blockingCalls, postponed, ready, future>>
  BY DEF AddPeriodicTask, ioVars, poolVars
<1>2. t \in Tasks /\ t \notin Clients
  BY ConstantsAssumption DEF Tasks
<1>3. OnePlace'
  <2>1. ASSUME NEW u \in Tasks PROVE Places(u)' = Times(u \in alive)'
    <3>1. Dispatched(u)' <=> Dispatched(u)
      BY <1>1 DEF Dispatched
    <3>2. Places(u) = Times(u \in alive)
      BY DEF IInv, OnePlace
    <3> QED BY <1>1, <3>1, <3>2 DEF Places, Times
  <2> QED BY <1>1, <2>1 DEF IInv, OnePlace
<1>4. ClientAccounting'
  <2>1. alive' \cap Clients = alive \cap Clients
    BY <1>1, <1>2
  <2> QED BY <1>1, <2>1 DEF IInv, ClientAccounting
<1>5. TypeOK' /\ NotYetAlive'
  BY <1>1, <1>2 DEF IInv, TypeOK, NotYetAlive
<1>6. JobAccounting' /\ NotBusyWhileWaiting' /\ RoomForJob'
  BY <1>1 DEF IInv, JobAccounting, NotBusyWhileWaiting, RoomForJob
<1> QED BY <1>3, <1>4, <1>5, <1>6 DEF IInv

-----------------------------------------------------------------------------
(* Events of the IO thread                                                   *)

\* A waiting task starts a dispatch.
LEMMA StepHttpRequest ==
    ASSUME IInv, NEW c \in Clients, HttpRequest(c) PROVE IInv'
<1>1. /\ dispatch = Exit /\ c \in accepted /\ accepted' = accepted \ {c}
      /\ alive' = alive \cup {c} /\ open' = open \cup {c}
      /\ status' = [status EXCEPT ![c] = "None"] /\ future' = [future EXCEPT ![c] = 0]
      /\ baseTasks' = baseTasks + 1 /\ dispatch' = [task |-> c, state |-> "EXECUTE"]
      /\ UNCHANGED <<phase, stop, jobs, pool, running, expelled, waiting, resQueue,
                     promiseQueue, periodicQueue, upstream, blockingCalls, postponed, ready, timers>>
  BY DEF HttpRequest, IOThreadAt, Execute, ioVars, poolVars
<1>2. c \in Tasks /\ c \notin alive /\ c \notin Periodics
  BY <1>1, ConstantsAssumption DEF Tasks, IInv, NotYetAlive
<1>3. dispatch' # Exit /\ dispatch'.task = c /\ dispatch'.state = "EXECUTE"
      /\ dispatch' \in [task : Tasks, state : States]
  BY <1>1, <1>2 DEF Exit, States
<1>4. TypeOK'
  <2>1. status' \in [Tasks -> Statuses] /\ future' \in [Tasks -> 0 .. MaxFuture]
    BY <1>1, <1>2, ConstantsAssumption DEF IInv, TypeOK, Statuses
  <2> QED BY <1>1, <1>2, <1>3, <2>1 DEF IInv, TypeOK
<1>5. OnePlace'
  <2>1. ASSUME NEW u \in Tasks PROVE Places(u)' = Times(u \in alive)'
    <3>1. ~Dispatched(u) /\ (Dispatched(u)' <=> u = c)
      BY <1>1, <1>3 DEF Dispatched
    <3>2. Places(u) = Times(u \in alive)
      BY DEF IInv, OnePlace
    <3> QED BY <1>1, <1>2, <3>1, <3>2 DEF Places, Times
  <2> QED BY <1>1, <2>1 DEF IInv, OnePlace
<1>6. ClientAccounting'
  <2>1. IsFiniteSet(alive \cap Clients)
    BY ConstantsAssumption, FS_Subset DEF IInv, TypeOK
  <2>2. alive' \cap Clients = (alive \cap Clients) \cup {c}
    BY <1>1
  <2>3. Cardinality((alive \cap Clients) \cup {c}) = Cardinality(alive \cap Clients) + 1
    BY <1>2, <2>1, FS_AddElement
  <2> QED BY <1>1, <2>2, <2>3 DEF IInv, ClientAccounting
<1>7. NotBusyWhileWaiting'
  <2>1. \A u \in Tasks : u # c => status'[u] = status[u]
    BY <1>1, <1>2 DEF IInv, TypeOK
  <2>2. status'[c] = "None"
    BY <1>1, <1>2 DEF IInv, TypeOK
  <2> QED BY <1>1, <1>3, <2>1, <2>2 DEF IInv, NotBusyWhileWaiting
<1>8. JobAccounting' /\ RoomForJob' /\ NotYetAlive'
  BY <1>1, <1>2, <1>3 DEF IInv, TypeOK, JobAccounting, RoomForJob, NotYetAlive
<1> QED BY <1>4, <1>5, <1>6, <1>7, <1>8 DEF IInv

\* The connections of clients come and go.
LEMMA StepConnections ==
    ASSUME IInv, NEW c \in Clients, Accept(c) \/ DropAccepted(c) \/ ClientClose(c) PROVE IInv'
<1>1. /\ accepted' \subseteq accepted \cup ({c} \ alive) /\ open' \subseteq open
      /\ UNCHANGED <<phase, stop, dispatch, alive, status, baseTasks, jobs, pool, running,
                     expelled, waiting, resQueue, promiseQueue, periodicQueue, upstream,
                     blockingCalls, postponed, ready, future, timers>>
  BY DEF Accept, DropAccepted, ClientClose, ioVars, poolVars, waitVars
<1>2. TypeOK' /\ JobAccounting' /\ ClientAccounting' /\ NotYetAlive'
  BY <1>1 DEF IInv, TypeOK, JobAccounting, ClientAccounting, NotYetAlive
<1>3. OnePlace' /\ NotBusyWhileWaiting' /\ RoomForJob'
  BY <1>1 DEF IInv, OnePlace, Places, Dispatched, NotBusyWhileWaiting, RoomForJob
<1> QED BY <1>2, <1>3 DEF IInv

\* tryProcessReadyJob takes a task from m_resQueue and counts its job as done.
LEMMA StepTryProcessReadyJob ==
    ASSUME IInv, TryProcessReadyJob PROVE IInv'
<1> DEFINE t == Head(resQueue)
<1>1. /\ dispatch = Exit /\ resQueue # <<>> /\ resQueue' = Tail(resQueue) /\ jobs' = jobs - 1
      /\ dispatch' = [task |-> t, state |-> "WORKER_ACTION_DONE"]
      /\ UNCHANGED <<phase, stop, alive, status, accepted, open, baseTasks, pool, running,
                     expelled, waiting, promiseQueue, periodicQueue, upstream, blockingCalls,
                     postponed, ready, future, timers>>
  BY DEF TryProcessReadyJob, IOThreadAt, ioVars, taskVars, waitVars
<1>2. resQueue \in Seq(Tasks) /\ NoDuplicates(resQueue)
  BY DEF IInv, TypeOK, OnePlace
<1>3. /\ t \in Tasks /\ InSeq(t, resQueue) /\ resQueue' \in Seq(Tasks) /\ Len(resQueue) \in Nat \ {0}
      /\ Len(resQueue') = Len(resQueue) - 1 /\ NoDuplicates(resQueue')
      /\ \A u : InSeq(u, resQueue') <=> InSeq(u, resQueue) /\ u # t
  BY <1>1, <1>2, TailFacts
<1> HIDE DEF t
<1>4. dispatch' # Exit /\ dispatch'.task = t /\ dispatch'.state = "WORKER_ACTION_DONE"
      /\ dispatch' \in [task : Tasks, state : States]
  BY <1>1, <1>3 DEF Exit, States
<1>5. /\ jobs = Cardinality(pool) + Cardinality(running) + Len(resQueue)
      /\ jobs <= ThreadPoolInputSize /\ ThreadPoolInputSize \in Nat
      /\ Cardinality(pool) \in Nat /\ Cardinality(running) \in Nat
  BY ConstantsAssumption, FS_Subset, FS_CardinalityType DEF IInv, TypeOK, JobAccounting
<1>6. jobs' \in Nat /\ jobs' < ThreadPoolInputSize /\ JobAccounting'
  BY <1>1, <1>3, <1>5 DEF JobAccounting
<1>7. TypeOK'
  BY <1>1, <1>3, <1>4, <1>6 DEF IInv, TypeOK
<1>8. OnePlace'
  <2>1. ASSUME NEW u \in Tasks PROVE Places(u)' = Times(u \in alive)'
    <3>1. ~Dispatched(u) /\ (Dispatched(u)' <=> u = t)
      BY <1>1, <1>4 DEF Dispatched
    <3>2. Places(u) = Times(u \in alive)
      BY DEF IInv, OnePlace
    <3> QED BY <1>1, <1>3, <3>1, <3>2 DEF Places, Times
  <2> QED BY <1>1, <1>3, <2>1 DEF IInv, OnePlace
<1>9. ClientAccounting' /\ NotBusyWhileWaiting' /\ RoomForJob' /\ NotYetAlive'
  BY <1>1, <1>4, <1>6 DEF IInv, ClientAccounting, NotBusyWhileWaiting, RoomForJob, NotYetAlive
<1> QED BY <1>6, <1>7, <1>8, <1>9 DEF IInv

\* The place a task was in is given up for a dispatch that starts at EXECUTE.
LEMMA ExecuteTask ==
    ASSUME IInv, dispatch = Exit, NEW t \in Tasks, Execute(t), status[t] # "Busy",
           phase' \in Phases, UNCHANGED <<stop, taskVars, poolVars, blockingCalls, future, timers>>,
           ready' \in Seq(Tasks), NoDuplicates(ready'),
           \A u \in Tasks : InSeq(u, ready') => InSeq(u, ready),
           \A u \in Tasks : u # t => (InSeq(u, ready') <=> InSeq(u, ready)),
           postponed' = postponed, upstream' \subseteq upstream, upstream \ {t} \subseteq upstream',
           InSeq(t, ready) \/ t \in upstream, t \notin upstream', ~InSeq(t, ready')
    PROVE  IInv'
<1>1. dispatch' # Exit /\ dispatch'.task = t /\ dispatch'.state = "EXECUTE"
      /\ dispatch' \in [task : Tasks, state : States]
  BY DEF Exit, States, Execute
<1>2. UNCHANGED <<alive, status, accepted, open, baseTasks, jobs, pool, running, expelled, waiting,
                  resQueue, promiseQueue, periodicQueue>>
  BY DEF taskVars, poolVars
<1>3. TypeOK'
  BY <1>1, <1>2 DEF IInv, TypeOK
<1>4. OnePlace'
  <2>1. ASSUME NEW u \in Tasks PROVE Places(u)' = Times(u \in alive)'
    <3>1. ~Dispatched(u) /\ (Dispatched(u)' <=> u = t)
      BY <1>1 DEF Dispatched
    <3>2. Places(u) = Times(u \in alive)
      BY DEF IInv, OnePlace
    <3>3. CASE u = t
      BY <1>2, <3>1, <3>2, <3>3 DEF Places, Times
    <3>4. CASE u # t
      BY <1>2, <3>1, <3>2, <3>4 DEF Places, Times
    <3> QED BY <3>3, <3>4
  <2> QED BY <1>2, <2>1 DEF IInv, OnePlace
<1>5. NotBusyWhileWaiting'
  BY <1>1, <1>2 DEF IInv, NotBusyWhileWaiting
<1>6. JobAccounting' /\ ClientAccounting' /\ RoomForJob' /\ NotYetAlive'
  BY <1>1, <1>2 DEF IInv, JobAccounting, ClientAccounting, RoomForJob, NotYetAlive
<1> QED BY <1>3, <1>4, <1>5, <1>6 DEF IInv

\* executePostponedTasks runs a ready task.
LEMMA StepResumeTask ==
    ASSUME IInv, ResumeTask PROVE IInv'
<1> DEFINE t == Head(ready)
<1>1. dispatch = Exit /\ ready # <<>> /\ ready' = Tail(ready) /\ Execute(t)
      /\ UNCHANGED <<phase, stop, taskVars, poolVars, upstream, blockingCalls, postponed,
                     future, timers>>
  BY DEF ResumeTask, IOThreadAt, ioVars
<1>2. ready \in Seq(Tasks) /\ NoDuplicates(ready) /\ phase \in Phases
  BY DEF IInv, TypeOK, OnePlace
<1>3. /\ t \in Tasks /\ InSeq(t, ready) /\ ready' \in Seq(Tasks) /\ NoDuplicates(ready')
      /\ \A u : InSeq(u, ready') <=> InSeq(u, ready) /\ u # t
  BY <1>1, <1>2, TailFacts
<1> HIDE DEF t
<1>4. status[t] # "Busy" /\ t \notin upstream
  BY <1>3 DEF IInv, NotBusyWhileWaiting, OnePlace, Places, Times
<1> QED BY <1>1, <1>2, <1>3, <1>4, ExecuteTask

\* An error answer to a task that waits outside the dispatch.
LEMMA AnswerWaiting ==
    ASSUME IInv, dispatch = Exit, dispatch' = Exit, NEW t \in Tasks,
           t \in upstream \/ t \in postponed, upstream' = upstream \ {t},
           status' = [status EXCEPT ![t] = "Error"], RespondAndDie(t, "Error", TRUE),
           UNCHANGED <<ioVars, accepted, poolVars, blockingCalls, ready, future>>
    PROVE  IInv'
<1>1. /\ RespondAndResume(t, "Error", TRUE, {}) /\ {} \in SUBSET postponed /\ t \notin {}
      /\ UNCHANGED <<phase, stop, accepted, jobs, pool, running, expelled, waiting, resQueue,
                     promiseQueue, periodicQueue, blockingCalls, ready, future>>
  BY DEF RespondAndDie, ioVars, poolVars
<1>2. \A u \in Tasks : ~Dispatched(u) /\ ~Dispatched(u)'
  BY DEF Dispatched
<1>3. t \in alive
  BY DEF IInv, OnePlace, Places, Times
<1>4. /\ alive' \subseteq alive /\ open' \subseteq open /\ baseTasks' \in Nat
      /\ postponed' \subseteq postponed /\ timers' \subseteq Periodics /\ ClientAccounting'
  BY <1>1, <1>3, RespondKeepsCount DEF IInv
<1>5. /\ status' \in [Tasks -> Statuses] /\ status'[t] # "Busy"
      /\ \A u \in Tasks : u # t => status'[u] = status[u]
  BY DEF IInv, TypeOK, Statuses
<1>6. OnePlace'
  <2>1. /\ \A u \in Tasks : InSeq(u, ready') <=> InSeq(u, ready) \/ u \in {}
        /\ NoDuplicates(ready') /\ TypeOK /\ OnePlace
    BY <1>1 DEF IInv, OnePlace
  <2>2. \A u \in Tasks \ {t} : ~Dispatched(u)
    BY <1>2
  <2> QED BY <1>1, <1>2, <2>1, <2>2, AnswerKeepsOnePlace
<1>7. TypeOK'
  BY <1>1, <1>4, <1>5 DEF IInv, TypeOK
<1>8. NotBusyWhileWaiting'
  BY <1>1, <1>4, <1>5 DEF IInv, NotBusyWhileWaiting
<1>9. JobAccounting' /\ RoomForJob' /\ NotYetAlive'
  BY <1>1, <1>4 DEF IInv, JobAccounting, RoomForJob, NotYetAlive
<1> QED BY <1>4, <1>6, <1>7, <1>8, <1>9 DEF IInv

\* upstreamDoneProcess runs the task again or answers the error.
LEMMA StepUpstreamDone ==
    ASSUME IInv, NEW t \in Tasks, NEW ok \in BOOLEAN, UpstreamDone(t, ok) PROVE IInv'
<1>1. /\ dispatch = Exit /\ t \in upstream /\ upstream' = upstream \ {t}
      /\ UNCHANGED <<ioVars, accepted, poolVars, blockingCalls, ready, future>>
  BY DEF UpstreamDone, IOThreadAt
<1>2. CASE ok
  <2>1. Execute(t) /\ UNCHANGED <<taskVars, postponed, timers>>
    BY <1>2 DEF UpstreamDone, taskVars
  <2>2. status[t] # "Busy" /\ ~InSeq(t, ready) /\ NoDuplicates(ready)
    BY <1>1 DEF IInv, NotBusyWhileWaiting, OnePlace, Places, Times
  <2>3. ready \in Seq(Tasks) /\ phase' \in Phases /\ UNCHANGED stop
    BY <1>1 DEF IInv, TypeOK, ioVars
  <2> QED BY <1>1, <2>1, <2>2, <2>3, ExecuteTask
<1>3. CASE ~ok
  BY <1>1, <1>3, AnswerWaiting DEF UpstreamDone
<1> QED BY <1>2, <1>3

\* executePostponedTasks answers a postponed task whose time is over.
LEMMA StepExpireTask ==
    ASSUME IInv, NEW t \in Tasks, ExpireTask(t) PROVE IInv'
<1>1. /\ dispatch = Exit /\ dispatch' = Exit /\ t \in postponed
      /\ UNCHANGED <<ioVars, accepted, poolVars, upstream, blockingCalls, ready, future>>
      /\ status' = [status EXCEPT ![t] = "Error"] /\ RespondAndDie(t, "Error", TRUE)
  BY DEF ExpireTask, IOThreadAt
<1>2. t \notin upstream
  BY <1>1 DEF IInv, OnePlace, Places, Times
<1>3. upstream' = upstream \ {t}
  BY <1>1, <1>2
<1> QED BY <1>1, <1>3, AnswerWaiting

\* onTimer takes a periodic task from the timer list into a dispatch.
LEMMA StepOnTimer ==
    ASSUME IInv, NEW t \in Periodics, OnTimer(t) PROVE IInv'
<1>1. /\ dispatch = Exit /\ t \in timers /\ timers' = timers \ {t}
      /\ status' = [status EXCEPT ![t] = "None"]
      /\ dispatch' = [task |-> t, state |-> "EXECUTE"]
      /\ UNCHANGED <<phase, stop, alive, accepted, open, baseTasks, jobs, pool, running, expelled,
                     waiting, resQueue, promiseQueue, periodicQueue, upstream, blockingCalls,
                     postponed, ready, future>>
  BY DEF OnTimer, IOThreadAt, Execute, ioVars, poolVars
<1>2. t \in Tasks
  BY DEF Tasks
<1>3. dispatch' # Exit /\ dispatch'.task = t /\ dispatch'.state = "EXECUTE"
      /\ dispatch' \in [task : Tasks, state : States]
  BY <1>1, <1>2 DEF Exit, States
<1>4. /\ status' \in [Tasks -> Statuses] /\ status'[t] = "None"
      /\ \A u \in Tasks : u # t => status'[u] = status[u]
  BY <1>1, <1>2 DEF IInv, TypeOK, Statuses
<1>5. TypeOK'
  BY <1>1, <1>3, <1>4 DEF IInv, TypeOK
<1>6. OnePlace'
  <2>1. ASSUME NEW u \in Tasks PROVE Places(u)' = Times(u \in alive)'
    <3>1. ~Dispatched(u) /\ (Dispatched(u)' <=> u = t)
      BY <1>1, <1>3 DEF Dispatched
    <3>2. Places(u) = Times(u \in alive)
      BY DEF IInv, OnePlace
    <3> QED BY <1>1, <3>1, <3>2 DEF Places, Times
  <2> QED BY <1>1, <2>1 DEF IInv, OnePlace
<1>7. NotBusyWhileWaiting'
  BY <1>1, <1>3, <1>4 DEF IInv, NotBusyWhileWaiting
<1>8. JobAccounting' /\ ClientAccounting' /\ RoomForJob' /\ NotYetAlive'
  BY <1>1, <1>3 DEF IInv, JobAccounting, ClientAccounting, RoomForJob, NotYetAlive
<1> QED BY <1>5, <1>6, <1>7, <1>8 DEF IInv

\* checkPeriodicTaskIO creates the periodic tasks that workers asked for.
LEMMA StepCheckPeriodicTaskIO ==
    ASSUME IInv, CheckPeriodicTaskIO PROVE IInv'
<1>1. /\ alive' = alive \cup periodicQueue /\ timers' = timers \cup periodicQueue
      /\ periodicQueue' = {} /\ phase' = "resume"
      /\ UNCHANGED <<stop, dispatch, status, accepted, open, baseTasks, jobs, pool, running,
                     expelled, waiting, resQueue, promiseQueue, upstream, blockingCalls,
                     postponed, ready, future>>
  BY DEF CheckPeriodicTaskIO
<1>2. periodicQueue \subseteq Periodics /\ periodicQueue \cap alive = {}
      /\ periodicQueue \cap Clients = {} /\ Periodics \subseteq Tasks
  BY ConstantsAssumption DEF IInv, TypeOK, NotYetAlive, Tasks
<1>3. OnePlace'
  <2>1. ASSUME NEW u \in Tasks PROVE Places(u)' = Times(u \in alive)'
    <3>1. Dispatched(u)' <=> Dispatched(u)
      BY <1>1 DEF Dispatched
    <3>2. Places(u) = Times(u \in alive)
      BY DEF IInv, OnePlace
    <3> QED BY <1>1, <1>2, <3>1, <3>2 DEF Places, Times
  <2> QED BY <1>1, <2>1 DEF IInv, OnePlace
<1>4. ClientAccounting'
  <2>1. alive' \cap Clients = alive \cap Clients
    BY <1>1, <1>2
  <2> QED BY <1>1, <2>1 DEF IInv, ClientAccounting
<1>5. TypeOK' /\ NotYetAlive'
  BY <1>1, <1>2, ConstantsAssumption DEF IInv, TypeOK, NotYetAlive, Phases
<1>6. JobAccounting' /\ NotBusyWhileWaiting' /\ RoomForJob'
  BY <1>1 DEF IInv, JobAccounting, NotBusyWhileWaiting, RoomForJob
<1> QED BY <1>3, <1>4, <1>5, <1>6 DEF IInv

\* Steps around the promises, the expelling of workers and requests for periodic
\* tasks, which move no task.
LEMMA StepBookkeeping ==
    ASSUME IInv,
           \/ \E t \in Tasks : BlockingUpstreamDone(t) \/ ExpelWorker(t) \/ SendUpstreamBlocking(t)
           \/ \E t \in Periodics : RequestPeriodicTask(t)
           \/ CheckUpstreamBlockingIO
    PROVE  IInv'
<1>1. /\ UNCHANGED <<stop, dispatch, alive, status, accepted, open, baseTasks, jobs, pool,
                     running, resQueue, upstream, postponed, ready, future, timers>>
      /\ phase' \in Phases
      /\ expelled' \subseteq running /\ waiting' \subseteq running
      /\ promiseQueue' \subseteq Tasks /\ blockingCalls' \subseteq Tasks
      /\ periodicQueue' \subseteq Periodics /\ periodicQueue' \cap alive = {}
  <2>1. TypeOK /\ NotYetAlive
    BY DEF IInv
  <2>2. CASE \E t \in Tasks : BlockingUpstreamDone(t)
    BY <2>1, <2>2 DEF TypeOK, NotYetAlive, BlockingUpstreamDone, ioVars, taskVars
  <2>3. CASE \E t \in Tasks : ExpelWorker(t)
    BY <2>1, <2>3 DEF TypeOK, NotYetAlive, ExpelWorker, ioVars, taskVars, waitVars
  <2>4. CASE \E t \in Tasks : SendUpstreamBlocking(t)
    BY <2>1, <2>4 DEF TypeOK, NotYetAlive, SendUpstreamBlocking, ioVars, taskVars, waitVars
  <2>5. CASE \E t \in Periodics : RequestPeriodicTask(t)
    BY <2>1, <2>5 DEF TypeOK, NotYetAlive, RequestPeriodicTask, ioVars, taskVars, waitVars
  <2>6. CASE CheckUpstreamBlockingIO
    BY <2>1, <2>6 DEF TypeOK, NotYetAlive, CheckUpstreamBlockingIO, taskVars, Phases
  <2> QED BY <2>2, <2>3, <2>4, <2>5, <2>6
<1>2. TypeOK' /\ JobAccounting' /\ ClientAccounting' /\ NotYetAlive'
  BY <1>1 DEF IInv, TypeOK, JobAccounting, ClientAccounting, NotYetAlive
<1>3. OnePlace' /\ NotBusyWhileWaiting' /\ RoomForJob'
  BY <1>1 DEF IInv, OnePlace, Places, Dispatched, NotBusyWhileWaiting, RoomForJob
<1> QED BY <1>2, <1>3 DEF IInv

-----------------------------------------------------------------------------
(* The worker threads                                                        *)

\* The sets of jobs are finite.
LEMMA JobsAreFinite ==
    ASSUME TypeOK
    PROVE  /\ IsFiniteSet(pool) /\ IsFiniteSet(running)
           /\ Cardinality(pool) \in Nat /\ Cardinality(running) \in Nat /\ Len(resQueue) \in Nat
BY ConstantsAssumption, FS_Subset, FS_CardinalityType DEF TypeOK

\* A worker takes a job from the queue: it stays counted.
LEMMA StepStartJob ==
    ASSUME IInv, NEW t \in Tasks, StartJob(t) PROVE IInv'
<1>1. /\ t \in pool /\ pool' = pool \ {t} /\ running' = running \cup {t}
      /\ UNCHANGED <<phase, stop, dispatch, alive, status, accepted, open, baseTasks, jobs,
                     expelled, waiting, resQueue, promiseQueue, periodicQueue, upstream,
                     blockingCalls, postponed, ready, future, timers>>
  BY DEF StartJob, ioVars, taskVars, waitVars
<1>2. t \notin running
  BY <1>1 DEF IInv, OnePlace, Places, Times
<1>3. JobAccounting'
  <2>1. Cardinality(pool') = Cardinality(pool) - 1
    BY <1>1, JobsAreFinite, FS_RemoveElement DEF IInv
  <2>2. Cardinality(running') = Cardinality(running) + 1
    BY <1>1, <1>2, JobsAreFinite, FS_AddElement DEF IInv
  <2> QED BY <1>1, <2>1, <2>2, JobsAreFinite DEF IInv, JobAccounting
<1>4. OnePlace'
  <2>1. ASSUME NEW u \in Tasks PROVE Places(u)' = Times(u \in alive)'
    <3>1. Dispatched(u)' <=> Dispatched(u)
      BY <1>1 DEF Dispatched
    <3>2. Places(u) = Times(u \in alive)
      BY DEF IInv, OnePlace
    <3> QED BY <1>1, <1>2, <3>1, <3>2 DEF Places, Times
  <2> QED BY <1>1, <2>1 DEF IInv, OnePlace
<1>5. TypeOK'
  BY <1>1 DEF IInv, TypeOK
<1>6. ClientAccounting' /\ NotBusyWhileWaiting' /\ RoomForJob' /\ NotYetAlive'
  BY <1>1 DEF IInv, ClientAccounting, NotBusyWhileWaiting, RoomForJob, NotYetAlive
<1> QED BY <1>3, <1>4, <1>5, <1>6 DEF IInv

\* The push into m_resQueue cannot fail: its size is that of the pool's input.
LEMMA StepFinishJob ==
    ASSUME IInv, NEW t \in Tasks, FinishJob(t) PROVE IInv'
<1>1. t \in running /\ t \notin waiting /\ running' = running \ {t} /\ expelled' = expelled \ {t}
      /\ resQueue' = (IF Len(resQueue) < ResQueueSize THEN Append(resQueue, t) ELSE resQueue)
      /\ UNCHANGED <<phase, stop, dispatch, alive, accepted, open, baseTasks, jobs, pool, waiting,
                     promiseQueue, periodicQueue, upstream, blockingCalls, postponed, ready,
                     future, timers>>
  BY DEF FinishJob, ioVars, waitVars
<1>2. /\ status' \in [Tasks -> Statuses]
      /\ \A u \in Tasks : u # t => status'[u] = status[u]
  <2>1. PICK s \in Returns[t]["worker"][status[t]] \ {Throws} : status' = [status EXCEPT ![t] = s]
    BY DEF FinishJob
  <2>2. s \in Statuses
    BY ConstantsAssumption DEF IInv, TypeOK, Actions
  <2> QED BY <2>1, <2>2 DEF IInv, TypeOK
<1>3. /\ ~Dispatched(t) /\ t \notin pool /\ ~InSeq(t, resQueue) /\ t \notin upstream \cup postponed
      /\ ~InSeq(t, ready) /\ t \notin timers /\ t \in alive
  BY <1>1 DEF IInv, OnePlace, Places, Times
<1>4. /\ Cardinality(running') = Cardinality(running) - 1
      /\ Cardinality(running) # 0
  BY <1>1, JobsAreFinite, FS_RemoveElement, FS_EmptySet DEF IInv
<1>5. resQueue' = Append(resQueue, t)
  <2>1. Len(resQueue) < ResQueueSize
    BY <1>4, JobsAreFinite, ConstantsAssumption DEF IInv, JobAccounting
  <2> QED BY <1>1, <2>1
<1>6. /\ resQueue' \in Seq(Tasks) /\ Len(resQueue') = Len(resQueue) + 1 /\ NoDuplicates(resQueue')
      /\ \A u : InSeq(u, resQueue') <=> InSeq(u, resQueue) \/ u = t
  <2>1. resQueue \in Seq(Tasks) /\ NoDuplicates(resQueue)
    BY DEF IInv, TypeOK, OnePlace
  <2> QED BY <1>3, <1>5, <2>1, AppendFacts
<1>7. JobAccounting'
  BY <1>1, <1>4, <1>6, JobsAreFinite DEF IInv, JobAccounting
<1>8. TypeOK'
  BY <1>1, <1>2, <1>6 DEF IInv, TypeOK
<1>9. dispatch # Exit /\ dispatch.task = t => dispatch.state = "CHK_WORKER_ACTION" /\ HasWorker(t)
  BY <1>3 DEF Dispatched, IInv, NotBusyWhileWaiting
<1>10. OnePlace'
  <2>1. ASSUME NEW u \in Tasks PROVE Places(u)' = Times(u \in alive)'
    <3>1. Dispatched(u)' <=> Dispatched(u)
      BY <1>1, <1>2, <1>3, <1>9 DEF Dispatched
    <3>2. Places(u) = Times(u \in alive)
      BY DEF IInv, OnePlace
    <3> QED BY <1>1, <1>3, <1>6, <3>1, <3>2 DEF Places, Times
  <2> QED BY <1>1, <1>6, <2>1 DEF IInv, OnePlace
<1>11. ClientAccounting' /\ NotBusyWhileWaiting' /\ NotYetAlive'
  <2>1. dispatch # Exit => dispatch.task \in Tasks
    BY DEF IInv, TypeOK
  <2> QED BY <1>1, <1>2, <1>3, <1>9, <2>1 DEF IInv, ClientAccounting, NotBusyWhileWaiting, NotYetAlive
<1>12. RoomForJob'
  <2>1. dispatch # Exit => dispatch.task \in Tasks
    BY DEF IInv, TypeOK
  <2> QED BY <1>1, <1>2, <1>9, <2>1 DEF IInv, RoomForJob
<1> QED BY <1>7, <1>8, <1>10, <1>11, <1>12 DEF IInv
-----------------------------------------------------------------------------
(* The theorems                                                              *)

\* The invariant holds when serve() starts.
LEMMA InitIInv == Init => IInv
<1> SUFFICES ASSUME Init PROVE IInv
  OBVIOUS
<1>1. /\ dispatch = Exit /\ status = [t \in Tasks |-> "None"] /\ alive \in SUBSET Periodics
      /\ timers = alive /\ future = [t \in Tasks |-> 0] /\ resQueue = <<>> /\ ready = <<>>
      /\ phase = "poll" /\ stop = "no" /\ baseTasks = 0 /\ jobs = 0
      /\ accepted = {} /\ open = {} /\ pool = {} /\ running = {} /\ expelled = {} /\ waiting = {}
      /\ promiseQueue = {} /\ periodicQueue = {} /\ upstream = {} /\ blockingCalls = {}
      /\ postponed = {}
  BY DEF Init
<1>2. TypeOK
  <2>1. /\ status \in [Tasks -> Statuses] /\ future \in [Tasks -> 0 .. MaxFuture]
        /\ alive \subseteq Tasks
    BY <1>1, ConstantsAssumption DEF Statuses, Tasks
  <2> QED BY <1>1, <2>1 DEF TypeOK, Phases, StopKinds
<1>3. OnePlace
  BY <1>1 DEF OnePlace, Places, Times, Dispatched, InSeq, NoDuplicates
<1>4. JobAccounting /\ ClientAccounting
  <2>1. alive \cap Clients = {}
    BY <1>1, ConstantsAssumption
  <2>2. Cardinality({}) = 0
    BY FS_EmptySet
  <2>3. Cardinality(pool) = 0 /\ Cardinality(running) = 0 /\ Len(resQueue) = 0
        /\ Cardinality(alive \cap Clients) = 0
    BY <1>1, <2>1, <2>2
  <2>4. ThreadPoolInputSize \in Nat
    BY ConstantsAssumption
  <2>5. JobAccounting
    BY <1>1, <2>3, <2>4 DEF JobAccounting
  <2>6. ClientAccounting
    BY <1>1, <2>3 DEF ClientAccounting
  <2> QED BY <2>5, <2>6
<1>5. NotBusyWhileWaiting /\ RoomForJob /\ NotYetAlive
  BY <1>1 DEF NotBusyWhileWaiting, RoomForJob, NotYetAlive, InSeq
<1> QED BY <1>2, <1>3, <1>4, <1>5 DEF IInv

\* Every step of the IO thread, the workers and the signal handlers preserves the
\* invariant.
LEMMA NextIInv == IInv /\ [Next]_vars => IInv'
<1> SUFFICES ASSUME IInv, [Next]_vars PROVE IInv'
  OBVIOUS
<1>0. phase \in Phases /\ stop \in StopKinds
  BY DEF IInv, TypeOK
<1>1. CASE Dispatch
  <2>1. CASE IOThreadThrows
    BY <1>0, <2>1, LoopControl DEF IOThreadThrows, Terminate, Phases
  <2> QED BY <1>1, <2>1, StepCheckThreadPoolOverflow, StepPreActionBusy, StepRunPreAction,
          StepChkPreAction, StepRunWorkerAction, StepChkWorkerAction, StepWorkerActionDone,
          StepRunPostAction, StepChkPostAgain, StepProcessForward, StepProcessOk,
          StepChkPostFails, StepPostponeTask DEF Dispatch
<1>2. CASE IOEvent
  BY <1>2, StepConnections, StepHttpRequest, StepTryProcessReadyJob, StepUpstreamDone,
     StepBookkeeping DEF IOEvent
<1>3. CASE Loop
  <2>1. CASE EndPoll \/ EndTimers \/ EndResume \/ EndIteration
    <3>1. /\ phase' \in Phases
          /\ UNCHANGED <<stop, dispatch, taskVars, poolVars, waitVars>>
      BY <2>1 DEF EndPoll, EndTimers, EndResume, EndIteration, Phases
    <3> QED BY <1>0, <3>1, LoopControl
  <2> QED BY <1>3, <2>1, StepOnTimer, StepCheckPeriodicTaskIO, StepResumeTask, StepExpireTask,
          StepBookkeeping DEF Loop
<1>4. CASE Stop
  <2>1. stop' \in StopKinds /\ UNCHANGED <<phase, dispatch, taskVars, poolVars, waitVars>>
    BY <1>4 DEF Stop, StopKinds
  <2> QED BY <1>0, <2>1, LoopControl
<1>5. ASSUME NEW t \in Tasks, Worker(t) PROVE IInv'
  <2>1. CASE WorkerThrows(t)
    BY <1>0, <2>1, LoopControl DEF WorkerThrows, Terminate, Phases
  <2> QED BY <1>5, <2>1, StepStartJob, StepFinishJob, StepBookkeeping DEF Worker
<1>6. CASE \E t \in Periodics : AddPeriodicTask(t) \/ RequestPeriodicTask(t)
  BY <1>6, StepAddPeriodicTask, StepBookkeeping
<1>7. CASE Ended \/ UNCHANGED vars
  BY <1>0, <1>7, LoopControl DEF Ended, vars, ioVars
<1> QED BY <1>1, <1>2, <1>3, <1>4, <1>5, <1>6, <1>7 DEF Next

\* The inductive invariant holds in every reachable state.
THEOREM Invariance == Spec => []IInv
BY InitIInv, NextIInv, PTL DEF Spec

\* Every variable of the engine keeps its type.
THEOREM TypeCorrect == Spec => []TypeOK
<1>1. IInv => TypeOK
  BY DEF IInv
<1> QED BY <1>1, Invariance, PTL

\* No task is lost and none is in two places, for any number of clients and
\* periodic tasks, any handlers and any sizes.
THEOREM TaskInOnePlace == Spec => []OnePlace
<1>1. IInv => OnePlace
  BY DEF IInv
<1> QED BY <1>1, Invariance, PTL

\* The counters of jobs and of client tasks are exact, and the assertions of
\* checkThreadPoolOverflow hold.
THEOREM JobsCounted == Spec => []JobAccounting
<1>1. IInv => JobAccounting
  BY DEF IInv
<1> QED BY <1>1, Invariance, PTL

\* onNewClient and onClientDone balance: the difference of their counters is the
\* number of client tasks, through early closes, Again answers and failures.
THEOREM ClientsCounted == Spec => []ClientAccounting
<1>1. IInv => ClientAccounting
  BY DEF IInv
<1> QED BY <1>1, Invariance, PTL

\* The thread pool has room for every job that is posted, so
\* ThreadPoolImpl::post does not throw on the IO thread.
THEOREM PoolHasRoom == Spec => []NoPoolOverflow
<1>1. IInv => NoPoolOverflow
  <2> SUFFICES ASSUME IInv, PostOverflows PROVE FALSE
    BY DEF NoPoolOverflow
  <2>1. dispatch # Exit /\ dispatch.state = "WORKER_ACTION" /\ HasWorker(dispatch.task)
        /\ Cardinality(pool) >= ThreadPoolInputSize
    BY DispatchFacts DEF IInv, PostOverflows, Task, States
  <2>2. jobs < ThreadPoolInputSize
    BY <2>1 DEF IInv, RoomForJob
  <2> QED BY <2>1, <2>2, JobsAreFinite, ConstantsAssumption DEF IInv, JobAccounting
<1> QED BY <1>1, Invariance, PTL
-----------------------------------------------------------------------------
(* The end of serve()                                                        *)

\* What canStop() has seen stays true once serve() has returned.
StopSeen == phase = "exit" => dispatch = Exit /\ CanStop

\* After serve() has seen canStop() nothing changes any more.
LEMMA NextStopSeen == TypeOK /\ StopSeen /\ [Next]_vars => StopSeen'
<1> SUFFICES ASSUME TypeOK, StopSeen, [Next]_vars, phase' = "exit"
             PROVE  dispatch' = Exit /\ CanStop'
  BY DEF StopSeen
<1>1. ASSUME NEW st \in States, At(st), phase # "terminated" PROVE phase # "exit"
  BY <1>1, DispatchFacts DEF StopSeen
<1>2. CASE UNCHANGED vars \/ Ended
  BY <1>2 DEF StopSeen, CanStop, Ended, vars, ioVars, taskVars, poolVars, waitVars
<1>3. CASE EndPoll \/ EndIteration
  <2>1. IOThreadAt("poll") \/ IOThreadAt("expire")
    BY <1>3 DEF EndPoll, EndIteration
  <2>2. CanStop
    BY <1>3 DEF EndPoll, EndIteration
  <2>3. dispatch = Exit /\ UNCHANGED <<dispatch, taskVars, poolVars, waitVars>>
    BY <1>3, <2>1 DEF EndPoll, EndIteration, IOThreadAt
  <2> QED BY <2>2, <2>3 DEF CanStop, taskVars, poolVars, waitVars
<1>4. CASE Dispatch
  <2>1. phase' = phase \/ phase' = "terminated"
    BY <1>4 DEF Dispatch, CheckThreadPoolOverflow, PreActionBusy, RunPreAction, ChkPreAction,
       RunWorkerAction, ChkWorkerAction, WorkerActionDone, RunPostAction, ChkPostAgain,
       ProcessForward, ProcessOk, ChkPostFails, PostponeTask, IOThreadThrows, Terminate, ioVars
  <2>2. \/ \E st \in States : At(st)
        \/ IOThreadAt("blocking")
    BY <1>4 DEF Dispatch, CheckThreadPoolOverflow, PreActionBusy, RunPreAction, ChkPreAction,
       RunWorkerAction, ChkWorkerAction, WorkerActionDone, RunPostAction, ChkPostAgain,
       ProcessForward, ProcessOk, ChkPostFails, PostponeTask, IOThreadThrows,
       TableIncomplete, IOActionThrows, PostOverflows, SendThrows, States
  <2>3. phase # "exit"
    BY <1>1, <2>2 DEF At, IOThreadAt
  <2> QED BY <2>1, <2>3
<1>5. CASE IOEvent
  BY <1>5 DEF IOEvent, Accept, DropAccepted, HttpRequest, ClientClose, TryProcessReadyJob,
     UpstreamDone, BlockingUpstreamDone, IOThreadAt, ioVars
<1>6. CASE Loop
  <2>1. CASE ~(EndPoll \/ EndIteration)
    BY <1>6, <2>1 DEF Loop, OnTimer, EndTimers, CheckUpstreamBlockingIO, CheckPeriodicTaskIO,
       ResumeTask, EndResume, ExpireTask, ExpelWorker, IOThreadAt, ioVars
  <2> QED BY <1>3, <2>1
<1>7. CASE Stop
  BY <1>7 DEF Stop
<1>8. ASSUME NEW t \in Tasks, Worker(t) PROVE FALSE
  BY <1>8 DEF Worker, StartJob, SendUpstreamBlocking, FinishJob, WorkerThrows, WorkersRun,
     Terminate, ioVars
<1>9. ASSUME NEW t \in Periodics, AddPeriodicTask(t) \/ RequestPeriodicTask(t) PROVE FALSE
  BY <1>1, <1>9 DEF AddPeriodicTask, RequestPeriodicTask, WorkersRun, ioVars, States, At
<1> QED BY <1>2, <1>4, <1>5, <1>6, <1>7, <1>8, <1>9 DEF Next

\* When serve() returns no client task, job or upstream request is left.
THEOREM NothingLeftAtExit == Spec => []StopSound
<1>1. Init => StopSeen
  BY DEF Init, StopSeen
<1>2. TypeOK /\ StopSeen /\ [Next]_vars => StopSeen'
  BY NextStopSeen
<1>3. IInv /\ StopSeen => StopSound
  <2> SUFFICES ASSUME IInv, StopSeen, phase = "exit"
               PROVE  /\ alive \cap Clients = {}
                      /\ pool \cup running = {} /\ resQueue = <<>>
                      /\ upstream \cup blockingCalls = {}
    BY DEF StopSound
  <2>1. baseTasks = 0 /\ jobs = 0 /\ upstream \cup blockingCalls = {}
    BY DEF StopSeen, CanStop
  <2>2. IsFiniteSet(alive \cap Clients)
    BY ConstantsAssumption, FS_Subset DEF IInv, TypeOK
  <2>3. alive \cap Clients = {}
    BY <2>1, <2>2, FS_EmptySet DEF IInv, ClientAccounting
  <2>4. Cardinality(pool) = 0 /\ Cardinality(running) = 0 /\ Len(resQueue) = 0
    BY <2>1, JobsAreFinite DEF IInv, JobAccounting
  <2>5. pool = {} /\ running = {}
    BY <2>4, JobsAreFinite, FS_EmptySet DEF IInv
  <2>6. resQueue = <<>>
    BY <2>4 DEF IInv, TypeOK
  <2> QED BY <2>1, <2>3, <2>5, <2>6
<1> QED BY <1>1, <1>2, <1>3, TypeCorrect, Invariance, PTL DEF Spec
-----------------------------------------------------------------------------
(* Blocking requests of workers                                              *)

PromiseInv ==
    /\ promiseQueue \cup blockingCalls \subseteq waiting
    /\ promiseQueue \cap blockingCalls = {}
    /\ Cardinality(running \ expelled) <= ThreadCount

LEMMA PoolIsFinite ==
    ASSUME TypeOK
    PROVE  /\ IsFiniteSet(running \ expelled) /\ Cardinality(running \ expelled) \in Nat
           /\ IsFiniteSet(waiting) /\ waiting \subseteq running /\ expelled \subseteq running
  BY ConstantsAssumption, FS_Subset, FS_CardinalityType DEF TypeOK

\* A pool of ThreadCount threads, besides those that were expelled.
LEMMA NextPoolSize ==
    ASSUME TypeOK, PromiseInv, NEW t \in Tasks, StartJob(t) \/ FinishJob(t) \/ ExpelWorker(t)
    PROVE  Cardinality(running' \ expelled') <= ThreadCount
<1> DEFINE R == running \ expelled
<1>1. IsFiniteSet(R) /\ Cardinality(R) \in Nat /\ Cardinality(R) <= ThreadCount
      /\ ThreadCount \in Nat
  BY PoolIsFinite, ConstantsAssumption DEF PromiseInv
<1>2. CASE StartJob(t)
  <2>1. running' \ expelled' \subseteq R \cup {t} /\ Cardinality(R) < ThreadCount
    BY <1>2 DEF StartJob
  <2>2. IsFiniteSet(R \cup {t}) /\ Cardinality(R \cup {t}) <= Cardinality(R) + 1
        /\ Cardinality(R \cup {t}) \in Nat
    <3>1. /\ IsFiniteSet(R \cup {t})
          /\ Cardinality(R \cup {t}) = IF t \in R THEN Cardinality(R) ELSE Cardinality(R) + 1
      BY <1>1, FS_AddElement
    <3>2. Cardinality(R \cup {t}) \in Nat
      BY <3>1, FS_CardinalityType
    <3> HIDE DEF R
    <3> QED BY <1>1, <3>1, <3>2
  <2>3. Cardinality(running' \ expelled') <= Cardinality(R \cup {t})
        /\ Cardinality(running' \ expelled') \in Nat
    BY <2>1, <2>2, FS_Subset, FS_CardinalityType
  <2> QED BY <1>1, <2>1, <2>2, <2>3
<1>3. CASE FinishJob(t) \/ ExpelWorker(t)
  <2>1. running' \ expelled' \subseteq R
    BY <1>3 DEF FinishJob, ExpelWorker
  <2>2. Cardinality(running' \ expelled') <= Cardinality(R)
        /\ Cardinality(running' \ expelled') \in Nat
    BY <1>1, <2>1, FS_Subset, FS_CardinalityType
  <2> QED BY <1>1, <2>2
<1> QED BY <1>2, <1>3

LEMMA NextPromiseInv == TypeOK /\ PromiseInv /\ [Next]_vars => PromiseInv'
<1> SUFFICES ASSUME TypeOK, PromiseInv, [Next]_vars PROVE PromiseInv'
  OBVIOUS
<1>1. CASE UNCHANGED <<waiting, promiseQueue, blockingCalls, running, expelled>>
  BY <1>1 DEF PromiseInv
<1>2. ASSUME NEW t \in Tasks, BlockingUpstreamDone(t) PROVE PromiseInv'
  BY <1>2 DEF BlockingUpstreamDone, PromiseInv
<1>3. CASE CheckUpstreamBlockingIO
  BY <1>3 DEF CheckUpstreamBlockingIO, PromiseInv
<1>4. ASSUME NEW t \in Tasks, SendUpstreamBlocking(t) PROVE PromiseInv'
  BY <1>4 DEF SendUpstreamBlocking, PromiseInv, waitVars
<1>5. ASSUME NEW t \in Tasks, StartJob(t) \/ FinishJob(t) \/ ExpelWorker(t) PROVE PromiseInv'
  <2>1. UNCHANGED <<waiting, promiseQueue, blockingCalls>>
    BY <1>5 DEF StartJob, FinishJob, ExpelWorker, waitVars
  <2> QED BY <1>5, <2>1, NextPoolSize DEF PromiseInv
<1>6. CASE Dispatch
  BY <1>1, <1>6 DEF Dispatch, CheckThreadPoolOverflow, PreActionBusy, RunPreAction, ChkPreAction,
     RunWorkerAction, ChkWorkerAction, WorkerActionDone, RunPostAction, ChkPostAgain,
     ProcessForward, ProcessOk, ChkPostFails, PostponeTask, IOThreadThrows, poolVars, waitVars
<1>7. CASE IOEvent
  BY <1>1, <1>2, <1>7 DEF IOEvent, Accept, DropAccepted, HttpRequest, ClientClose,
     TryProcessReadyJob, UpstreamDone, poolVars, waitVars
<1>8. CASE Loop
  BY <1>1, <1>3, <1>5, <1>8 DEF Loop, EndPoll, OnTimer, EndTimers, CheckPeriodicTaskIO,
     ResumeTask, EndResume, ExpireTask, EndIteration, poolVars, waitVars
<1>9. ASSUME NEW t \in Tasks, Worker(t) PROVE PromiseInv'
  BY <1>1, <1>4, <1>5, <1>9 DEF Worker, WorkerThrows, poolVars, waitVars
<1>10. CASE \/ Stop \/ Ended \/ UNCHANGED vars
            \/ \E t \in Periodics : AddPeriodicTask(t) \/ RequestPeriodicTask(t)
  BY <1>1, <1>10 DEF Stop, Ended, AddPeriodicTask, RequestPeriodicTask, vars, poolVars, waitVars
<1> QED BY <1>6, <1>7, <1>8, <1>9, <1>10 DEF Next

\* The only step after which a request is neither in the queue nor with the upstream manager.
LEMMA OnlyFullQueueLoses ==
    ASSUME TypeOK, PromiseInv, NEW t \in Tasks, SendUpstreamBlocking(t),
           t \notin promiseQueue'
    PROVE  /\ promiseQueue \subseteq waiting \ {t}
           /\ Cardinality(promiseQueue) >= PromiseQueueSize
           /\ expelled \cap (promiseQueue \cup {t}) # {}
<1>1. t \in running /\ t \notin waiting /\ ~(Cardinality(promiseQueue) < PromiseQueueSize)
  BY DEF SendUpstreamBlocking
<1>2. promiseQueue \subseteq waiting \ {t} /\ promiseQueue \cup {t} \subseteq running
  BY <1>1, PoolIsFinite DEF PromiseInv
<1>3. IsFiniteSet(promiseQueue) /\ Cardinality(promiseQueue) \in Nat
      /\ Cardinality(promiseQueue \cup {t}) = Cardinality(promiseQueue) + 1
  BY <1>2, PoolIsFinite, FS_Subset, FS_CardinalityType, FS_AddElement
<1>4. Cardinality(promiseQueue) >= PromiseQueueSize
  BY <1>1, <1>3, ConstantsAssumption
<1>5. ASSUME expelled \cap (promiseQueue \cup {t}) = {} PROVE FALSE
  <2>1. promiseQueue \cup {t} \subseteq running \ expelled
    BY <1>2, <1>5
  <2>2. Cardinality(promiseQueue \cup {t}) <= Cardinality(running \ expelled)
    BY <2>1, PoolIsFinite, FS_Subset
  <2> QED BY <1>3, <1>4, <2>2, PoolIsFinite, ConstantsAssumption DEF PromiseInv
<1> QED BY <1>2, <1>4, <1>5

\* A blocked worker's request is lost only to a queue full with requests of other blocked
\* workers, one of all of them expelled, for any mix of expulsions, upstream answers and stops.
THEOREM PromisesKept == Spec => NoLostPromise
<1>1. Spec => []PromiseInv
  <2>1. Cardinality({}) = 0
    BY FS_EmptySet
  <2>2. Init => PromiseInv
    BY <2>1, ConstantsAssumption DEF Init, PromiseInv
  <2> QED BY <2>2, NextPromiseInv, TypeCorrect, PTL DEF Spec
<1>2. ASSUME TypeOK, PromiseInv, [Next]_vars,
             NEW t \in waiting' \ (promiseQueue' \cup blockingCalls'),
             t \notin waiting \ (promiseQueue \cup blockingCalls)
      PROVE  /\ promiseQueue \subseteq waiting \ {t}
             /\ Cardinality(promiseQueue) >= PromiseQueueSize
             /\ expelled \cap (promiseQueue \cup {t}) # {}
  <2>1. ~UNCHANGED <<waiting, promiseQueue, blockingCalls>>
    BY <1>2
  <2>2. ASSUME NEW u \in Tasks, BlockingUpstreamDone(u) PROVE FALSE
    BY <1>2, <2>2 DEF BlockingUpstreamDone
  <2>3. CASE CheckUpstreamBlockingIO
    BY <1>2, <2>3 DEF CheckUpstreamBlockingIO
  <2>4. ASSUME NEW u \in Tasks, SendUpstreamBlocking(u)
        PROVE  /\ promiseQueue \subseteq waiting \ {t}
               /\ Cardinality(promiseQueue) >= PromiseQueueSize
               /\ expelled \cap (promiseQueue \cup {t}) # {}
    <3>1. waiting' = waiting \cup {u} /\ promiseQueue \subseteq promiseQueue'
          /\ blockingCalls' = blockingCalls
      BY <2>4 DEF SendUpstreamBlocking, waitVars
    <3>2. t = u
      BY <1>2, <3>1
    <3> QED BY <1>2, <2>4, <3>2, OnlyFullQueueLoses
  <2>5. CASE Dispatch
    BY <2>1, <2>5 DEF Dispatch, CheckThreadPoolOverflow, PreActionBusy, RunPreAction,
       ChkPreAction, RunWorkerAction, ChkWorkerAction, WorkerActionDone, RunPostAction,
       ChkPostAgain, ProcessForward, ProcessOk, ChkPostFails, PostponeTask, IOThreadThrows,
       poolVars, waitVars
  <2>6. CASE IOEvent
    BY <2>1, <2>2, <2>6 DEF IOEvent, Accept, DropAccepted, HttpRequest, ClientClose,
       TryProcessReadyJob, UpstreamDone, poolVars, waitVars
  <2>7. CASE Loop
    BY <2>1, <2>3, <2>7 DEF Loop, EndPoll, OnTimer, EndTimers, CheckPeriodicTaskIO,
       ResumeTask, EndResume, ExpireTask, ExpelWorker, EndIteration, poolVars, waitVars
  <2>8. ASSUME NEW u \in Tasks, Worker(u)
        PROVE  /\ promiseQueue \subseteq waiting \ {t}
               /\ Cardinality(promiseQueue) >= PromiseQueueSize
               /\ expelled \cap (promiseQueue \cup {t}) # {}
    BY <2>1, <2>4, <2>8 DEF Worker, StartJob, FinishJob, WorkerThrows, poolVars, waitVars
  <2>9. CASE \/ Stop \/ Ended \/ UNCHANGED vars
             \/ \E u \in Periodics : AddPeriodicTask(u) \/ RequestPeriodicTask(u)
    BY <2>1, <2>9 DEF Stop, Ended, AddPeriodicTask, RequestPeriodicTask, vars, poolVars, waitVars
  <2> QED BY <1>2, <2>5, <2>6, <2>7, <2>8, <2>9 DEF Next
<1>3. TypeOK /\ PromiseInv /\ [Next]_vars =>
         [\A t \in waiting' \ (promiseQueue' \cup blockingCalls') :
             \/ t \in waiting \ (promiseQueue \cup blockingCalls)
             \/ /\ promiseQueue \subseteq waiting \ {t}
                /\ Cardinality(promiseQueue) >= PromiseQueueSize
                /\ expelled \cap (promiseQueue \cup {t}) # {}]_vars
  BY <1>2
<1> QED BY <1>1, <1>3, TypeCorrect, PTL DEF Spec, NoLostPromise

-----------------------------------------------------------------------------
(* The table of the state machine                                            *)

\* The statuses with which the dispatch of a task that keeps the contract gets to
\* each state.
RowOK(t, st, s) ==
    /\ st = "EXECUTE" => s \in {"None", "Forward", "Postpone"}
    /\ st = "PRE_ACTION" => s \in {"None", "Forward", "Postpone", "Busy"}
    /\ st = "CHK_PRE_ACTION" =>
          /\ HasPre(t) => s \notin {"Again", "Busy"}
          /\ ~HasPre(t) => s \in {"None", "Forward", "Postpone"}
    /\ st \in {"CHK_PRE_ACTION", "WORKER_ACTION", "CHK_WORKER_ACTION"} =>
          (~HasWorker(t) /\ ~HasPost(t) => s \notin {"None", "Busy"})
    /\ st = "WORKER_ACTION_DONE" => HasWorker(t)
    /\ st \in {"WORKER_ACTION_DONE", "POST_ACTION"} => (~HasPost(t) => s \notin {"None", "Busy"})
    /\ st = "CHK_POST_ACTION" => s \notin {"None", "Busy"}

\* The status a task waits with tells what it waits for.
PathOK(t) ==
    /\ t \in upstream => status[t] = "Forward"
    /\ t \in postponed \/ InSeq(t, ready) => status[t] = "Postpone"
    /\ t \in pool \cup running \/ InSeq(t, resQueue) => HasWorker(t)
    /\ InSeq(t, resQueue) => (~HasPost(t) => status[t] \notin {"None", "Busy"})
    /\ dispatch # Exit /\ dispatch.task = t => RowOK(t, dispatch.state, status[t])

PathsOK == \A t \in Tasks : KeepsContract(t) => PathOK(t)

\* A task is in one place only.
LEMMA Alone ==
    ASSUME IInv, NEW t \in Tasks,
           Dispatched(t) \/ t \in running \/ t \in upstream \/ t \in postponed
              \/ t \in timers \/ t \notin alive
    PROVE  /\ Dispatched(t) \/ t \in timers \/ t \notin alive => t \notin running \cup upstream \cup postponed
           /\ t \in running => t \notin upstream \cup postponed
           /\ t \in upstream => t \notin postponed
           /\ t \notin pool /\ ~InSeq(t, ready) /\ ~InSeq(t, resQueue)
BY DEF IInv, OnePlace, Places, Times

\* What holds of a task goes on while it stays where it is.
LEMMA PathKept ==
    ASSUME NEW t \in Tasks, PathOK(t), status'[t] = status[t],
           t \in upstream' => t \in upstream,
           t \in postponed' => t \in postponed,
           InSeq(t, ready') => InSeq(t, ready) \/ t \in postponed,
           t \in pool' \cup running' => t \in pool \cup running,
           InSeq(t, resQueue') => InSeq(t, resQueue),
           dispatch' # Exit /\ dispatch'.task = t => RowOK(t, dispatch'.state, status'[t])
    PROVE  PathOK(t)'
BY DEF PathOK

\* A row of the table leaves the tasks that wait alone.
LEMMA PathRow ==
    ASSUME IInv, NEW t \in Tasks, PathOK(t), dispatch # Exit,
           dispatch' # Exit => dispatch'.task = dispatch.task,
           dispatch' # Exit /\ dispatch.task = t => RowOK(t, dispatch'.state, status'[t]),
           dispatch.task # t => status'[t] = status[t],
           dispatch.task = t => Dispatched(t) \/ status'[t] = status[t],
           upstream' = upstream, postponed' \subseteq postponed, ready' = ready,
           pool' = pool, running' = running, resQueue' = resQueue
    PROVE  PathOK(t)'
<1>1. CASE status'[t] = status[t]
  BY <1>1, PathKept
<1>2. CASE status'[t] # status[t]
  <2>1. Dispatched(t)
    BY <1>2
  <2>2. t \notin running \cup upstream \cup postponed \cup pool /\ ~InSeq(t, ready) /\ ~InSeq(t, resQueue)
    BY <2>1, Alone
  <2> QED BY <2>2 DEF PathOK
<1> QED BY <1>1, <1>2

\* The rows before a worker gets the task.
LEMMA PathBeforeWorker ==
    ASSUME IInv, NEW t \in Tasks, KeepsContract(t), PathOK(t),
           CheckThreadPoolOverflow \/ PreActionBusy \/ RunPreAction \/ ChkPreAction
    PROVE  PathOK(t)'
<1> DEFINE u == dispatch.task
<1>1. status \in [Tasks -> Statuses] /\ UNCHANGED <<poolVars, upstream, ready>>
  BY DEF IInv, TypeOK, CheckThreadPoolOverflow, PreActionBusy, RunPreAction, ChkPreAction, waitVars
<1>2. postponed' \subseteq postponed
  BY DEF CheckThreadPoolOverflow, PreActionBusy, RunPreAction, ChkPreAction, waitVars,
     RespondAndDie, RespondAndResume
<1>3. UNCHANGED <<pool, running, resQueue, upstream, ready>>
  BY <1>1 DEF poolVars
<1>4. CASE CheckThreadPoolOverflow
  <2>1. dispatch # Exit /\ u \in Tasks /\ dispatch.state = "EXECUTE"
        /\ dispatch \in [task : Tasks, state : States]
    BY <1>4, DispatchFacts DEF IInv, CheckThreadPoolOverflow, States
  <2>2. dispatch' # Exit /\ dispatch'.task = u /\ dispatch'.state = "PRE_ACTION"
    BY <1>4, <2>1 DEF CheckThreadPoolOverflow, Goto, Exit
  <2>3. Dispatched(u)
    BY <2>1 DEF Dispatched
  <2>4. status' = status \/ status' = [status EXCEPT ![u] = "Busy"]
    BY <1>4 DEF CheckThreadPoolOverflow, Task
  <2>5. u = t => RowOK(t, "PRE_ACTION", status'[t])
    BY <1>1, <2>1, <2>4 DEF PathOK, RowOK
  <2> QED BY <1>1, <1>2, <1>3, <2>1, <2>2, <2>3, <2>4, <2>5, PathRow
<1>5. CASE PreActionBusy
  <2>1. dispatch # Exit /\ dispatch' = Exit /\ status' = status
    BY <1>5, DispatchFacts DEF IInv, PreActionBusy, Goto, taskVars, States
  <2> QED BY <1>2, <1>3, <2>1, PathRow
<1>6. CASE RunPreAction
  <2>1. dispatch # Exit /\ u \in Tasks /\ dispatch.state = "PRE_ACTION"
        /\ dispatch \in [task : Tasks, state : States]
    BY <1>6, DispatchFacts DEF IInv, RunPreAction, States
  <2>2. dispatch' # Exit /\ dispatch'.task = u /\ dispatch'.state = "CHK_PRE_ACTION"
    BY <1>6, <2>1 DEF RunPreAction, Goto, Exit
  <2>3. Dispatched(u) /\ status[u] \in {"None", "Ok", "Forward", "Postpone"}
    BY <1>6, <2>1 DEF Dispatched, RunPreAction, Task
  <2>4. \/ /\ HasPre(u)
           /\ \E s \in Returns[u]["pre"][status[u]] \ {Throws} : status' = [status EXCEPT ![u] = s]
        \/ ~HasPre(u) /\ status' = status
    BY <1>6 DEF RunPreAction, Task
  <2>5. ASSUME u = t PROVE RowOK(t, "CHK_PRE_ACTION", status'[t])
    <3>1. status[t] \in {"None", "Forward", "Postpone"}
      BY <2>1, <2>3, <2>5 DEF PathOK, RowOK
    <3>2. CASE HasPre(t)
      <4>1. status'[t] \in Returns[t]["pre"][status[t]]
        BY <1>1, <2>4, <2>5, <3>2
      <4>2. status'[t] \notin {"Again", "Busy"}
        BY <3>1, <3>2, <4>1 DEF KeepsContract, Statuses
      <4>3. ~HasWorker(t) /\ ~HasPost(t) => status'[t] \notin {"None", "Busy"}
        <5> SUFFICES ASSUME ~HasWorker(t), ~HasPost(t) PROVE status'[t] \notin {"None", "Busy"}
          OBVIOUS
        <5>1. LastAction(t) = "pre"
          BY DEF LastAction
        <5> QED BY <3>1, <4>1, <5>1 DEF KeepsContract, Statuses
      <4> QED BY <3>2, <4>2, <4>3 DEF RowOK
    <3>3. CASE ~HasPre(t)
      <4>1. status'[t] = status[t]
        BY <2>4, <2>5, <3>3
      <4>2. HasWorker(t) \/ HasPost(t)
        BY <3>3, ConstantsAssumption DEF KeepsContract, HasPre, HasWorker, HasPost, Actions
      <4> QED BY <3>1, <3>3, <4>1, <4>2 DEF RowOK
    <3> QED BY <3>2, <3>3
  <2>6. u # t => status'[t] = status[t]
    BY <1>1, <2>4
  <2> QED BY <1>2, <1>3, <2>1, <2>2, <2>3, <2>5, <2>6, PathRow
<1>7. CASE ChkPreAction
  <2>1. dispatch # Exit /\ u \in Tasks /\ dispatch.state = "CHK_PRE_ACTION"
        /\ dispatch \in [task : Tasks, state : States] /\ status' = status
    BY <1>7, DispatchFacts DEF IInv, ChkPreAction, States
  <2>2. dispatch' # Exit => dispatch'.task = u
    BY <1>7, <2>1 DEF ChkPreAction, Goto
  <2>3. ASSUME dispatch' # Exit, u = t PROVE RowOK(t, dispatch'.state, status[t])
    <3>1. RowOK(t, "CHK_PRE_ACTION", status[t])
      BY <2>1, <2>3 DEF PathOK
    <3>2. \/ status[t] = "Again"
          \/ /\ PreToWorker(t)
             /\ dispatch' = [dispatch EXCEPT !.state = "WORKER_ACTION"]
          \/ /\ PreToPost(t)
             /\ dispatch' = [dispatch EXCEPT !.state = "POST_ACTION"]
      BY <1>7, <2>3 DEF ChkPreAction, Goto, Task
    <3>3. status[t] # "Again"
      BY <3>1 DEF RowOK
    <3>4. CASE dispatch' = [dispatch EXCEPT !.state = "WORKER_ACTION"]
      BY <2>1, <3>1, <3>4 DEF RowOK
    <3>5. CASE PreToPost(t) /\ dispatch' = [dispatch EXCEPT !.state = "POST_ACTION"]
      BY <2>1, <3>5 DEF RowOK, PreToPost
    <3> QED BY <3>2, <3>3, <3>4, <3>5
  <2> QED BY <1>2, <1>3, <2>1, <2>2, <2>3, PathRow
<1> QED BY <1>4, <1>5, <1>6, <1>7

\* The rows for the worker.
LEMMA PathWorkerRows ==
    ASSUME IInv, NEW t \in Tasks, KeepsContract(t), PathOK(t),
           RunWorkerAction \/ ChkWorkerAction \/ WorkerActionDone
    PROVE  PathOK(t)'
<1> DEFINE u == dispatch.task
<1>1. status' = status /\ UNCHANGED <<running, resQueue, upstream, ready>>
  BY DEF RunWorkerAction, ChkWorkerAction, WorkerActionDone, taskVars, poolVars, waitVars
<1>2. postponed' \subseteq postponed
  BY DEF RunWorkerAction, ChkWorkerAction, WorkerActionDone, waitVars, RespondAndDie, RespondAndResume
<1>3. /\ dispatch # Exit /\ dispatch \in [task : Tasks, state : States]
      /\ dispatch.state \in {"WORKER_ACTION", "CHK_WORKER_ACTION", "WORKER_ACTION_DONE"}
  BY DispatchFacts DEF IInv, RunWorkerAction, ChkWorkerAction, WorkerActionDone, States
<1>4. dispatch' # Exit => dispatch'.task = u
  BY <1>3 DEF RunWorkerAction, ChkWorkerAction, WorkerActionDone, Goto
<1>5. ASSUME dispatch' # Exit, u = t PROVE RowOK(t, dispatch'.state, status[t])
  <2>1. RowOK(t, dispatch.state, status[t])
    BY <1>3, <1>5 DEF PathOK
  <2>2. CASE RunWorkerAction
    <3>1. dispatch.state = "WORKER_ACTION" /\ dispatch'.state = "CHK_WORKER_ACTION"
      BY <1>3, <2>2 DEF RunWorkerAction, At, Goto
    <3> QED BY <2>1, <3>1 DEF RowOK
  <2>3. CASE ChkWorkerAction
    <3>1. dispatch.state = "CHK_WORKER_ACTION" /\ dispatch'.state = "POST_ACTION" /\ ~HasWorker(t)
      BY <1>3, <1>5, <2>3 DEF ChkWorkerAction, At, Goto, Task
    <3> QED BY <2>1, <3>1 DEF RowOK
  <2>4. CASE WorkerActionDone
    <3>1. /\ dispatch.state = "WORKER_ACTION_DONE"
          /\ dispatch'.state \in {"WORKER_ACTION", "POST_ACTION"}
      BY <1>3, <2>4 DEF WorkerActionDone, At, Goto
    <3> QED BY <2>1, <3>1 DEF RowOK
  <2> QED BY <2>2, <2>3, <2>4
<1>6. pool' = pool \/ (pool' = pool \cup {u} /\ HasWorker(u))
  BY DEF RunWorkerAction, ChkWorkerAction, WorkerActionDone, poolVars, Task
<1>7. CASE t \in pool'
  <2>1. HasWorker(t)
    BY <1>6, <1>7 DEF PathOK
  <2> QED BY <1>1, <1>2, <1>4, <1>5, <2>1 DEF PathOK
<1>8. CASE t \notin pool'
  BY <1>1, <1>2, <1>4, <1>5, <1>8, PathKept
<1> QED BY <1>7, <1>8

\* The rows after it.
LEMMA PathPostRows ==
    ASSUME IInv, NEW t \in Tasks, KeepsContract(t), PathOK(t),
           RunPostAction \/ ChkPostAgain \/ ChkPostFails
    PROVE  PathOK(t)'
<1> DEFINE u == dispatch.task
<1>1. status \in [Tasks -> Statuses] /\ UNCHANGED <<pool, running, resQueue, upstream, ready>>
  BY DEF IInv, TypeOK, RunPostAction, ChkPostAgain, ChkPostFails, poolVars, waitVars
<1>2. postponed' \subseteq postponed
  BY DEF RunPostAction, ChkPostAgain, ChkPostFails, waitVars, RespondAndDie, RespondAndResume
<1>3. CASE RunPostAction
  <2>1. dispatch # Exit /\ u \in Tasks /\ dispatch.state = "POST_ACTION"
        /\ dispatch \in [task : Tasks, state : States]
    BY <1>3, DispatchFacts DEF IInv, RunPostAction, States
  <2>2. dispatch' # Exit /\ dispatch'.task = u /\ dispatch'.state = "CHK_POST_ACTION"
    BY <1>3, <2>1 DEF RunPostAction, Goto, Exit
  <2>3. Dispatched(u)
    BY <2>1 DEF Dispatched
  <2>4. \/ /\ HasPost(u)
           /\ \E s \in Returns[u]["post"][status[u]] \ {Throws} :
                 status' = IF status[u] = "Forward" THEN status ELSE [status EXCEPT ![u] = s]
        \/ ~HasPost(u) /\ status' = status
    BY <1>3 DEF RunPostAction, Task
  <2>5. ASSUME u = t PROVE RowOK(t, "CHK_POST_ACTION", status'[t])
    <3>1. status[t] \in Statuses /\ RowOK(t, "POST_ACTION", status[t])
      BY <1>1, <2>1, <2>5 DEF PathOK
    <3>2. CASE HasPost(t) /\ status[t] # "Forward"
      <4>1. status'[t] \in Returns[t]["post"][status[t]]
        BY <1>1, <2>4, <2>5, <3>2
      <4>2. LastAction(t) = "post"
        BY <3>2 DEF LastAction
      <4>3. status'[t] \notin {"None", "Busy"}
        BY <3>1, <4>1, <4>2 DEF KeepsContract
      <4> QED BY <4>3 DEF RowOK
    <3>3. CASE ~HasPost(t) \/ status[t] = "Forward"
      <4>1. status'[t] = status[t]
        BY <2>4, <2>5, <3>3
      <4> QED BY <3>1, <3>3, <4>1 DEF RowOK
    <3> QED BY <3>2, <3>3
  <2>6. u # t => status'[t] = status[t]
    BY <1>1, <2>4
  <2> QED BY <1>1, <1>2, <2>1, <2>2, <2>3, <2>5, <2>6, PathRow
<1>4. CASE ChkPostAgain
  <2>1. dispatch # Exit /\ status' = status /\ status[u] = "Again"
        /\ dispatch \in [task : Tasks, state : States]
    BY <1>4, DispatchFacts DEF IInv, ChkPostAgain, States, Task
  <2>2. dispatch' # Exit /\ dispatch'.task = u /\ dispatch'.state = "POST_ACTION"
    BY <1>4, <2>1 DEF ChkPostAgain, Goto, Exit
  <2>3. u = t => RowOK(t, "POST_ACTION", status[t])
    BY <2>1 DEF RowOK
  <2> QED BY <1>1, <1>2, <2>1, <2>2, <2>3, PathRow
<1>5. CASE ChkPostFails
  <2>1. dispatch # Exit /\ dispatch' = Exit /\ status' = status
    BY <1>5, DispatchFacts DEF IInv, ChkPostFails, Goto, States
  <2> QED BY <1>1, <1>2, <2>1, PathRow
<1> QED BY <1>3, <1>4, <1>5

\* A task leaves the dispatch for upstream, for m_postponedTasks or for good.
LEMMA PathLeaves ==
    ASSUME IInv, NEW t \in Tasks, PathOK(t), ProcessForward \/ ProcessOk \/ PostponeTask
    PROVE  PathOK(t)'
<1>1. dispatch' = Exit /\ status' = status /\ UNCHANGED <<pool, running, resQueue>>
  BY DEF ProcessForward, ProcessOk, PostponeTask, Goto, taskVars, poolVars
<1>2. CASE ProcessForward
  <2>1. /\ postponed' = postponed /\ ready' = ready
        /\ upstream' = upstream \cup {dispatch.task} /\ status[dispatch.task] = "Forward"
    BY <1>2 DEF ProcessForward, Task
  <2>2. CASE t = dispatch.task
    BY <1>1, <2>1, <2>2 DEF PathOK
  <2>3. CASE t # dispatch.task
    BY <1>1, <2>1, <2>3, PathKept
  <2> QED BY <2>2, <2>3
<1>3. CASE ProcessOk
  <2>1. upstream' = upstream /\ postponed' \subseteq postponed
    BY <1>3 DEF ProcessOk, RespondAndDie, RespondAndResume
  <2>2. ready' = ready \/ \E n \in postponed : ready' = Append(ready, n)
    BY <1>3 DEF ProcessOk
  <2>3. InSeq(t, ready') => InSeq(t, ready) \/ t \in postponed
    <3>1. ready \in Seq(Tasks) /\ postponed \subseteq Tasks
      BY DEF IInv, TypeOK
    <3>2. ASSUME NEW n \in postponed, ready' = Append(ready, n)
          PROVE  InSeq(t, ready') => InSeq(t, ready) \/ t \in postponed
      BY <3>1, <3>2, AppendFacts
    <3> QED BY <2>2, <3>2
  <2> QED BY <1>1, <2>1, <2>3, PathKept
<1>4. CASE PostponeTask
  <2>1. upstream' = upstream /\ status[dispatch.task] = "Postpone"
    BY <1>4 DEF PostponeTask, Task
  <2>2. dispatch.task \in Tasks
    BY <1>4, DispatchFacts DEF IInv, PostponeTask, States
  <2>3. \/ ready' = Append(ready, dispatch.task) /\ postponed' = postponed
        \/ postponed' = postponed \cup {dispatch.task} /\ ready' = ready
    BY <1>4 DEF PostponeTask, Task
  <2>4. CASE t = dispatch.task
    BY <1>1, <2>1, <2>4 DEF PathOK
  <2>5. CASE t # dispatch.task
    <3>1. InSeq(t, ready') => InSeq(t, ready)
      BY <2>2, <2>3, <2>5, AppendFacts DEF IInv, TypeOK
    <3> QED BY <1>1, <2>1, <2>3, <2>5, <3>1, PathKept
  <2> QED BY <2>4, <2>5
<1> QED BY <1>2, <1>3, <1>4

\* A dispatch starts with a status the table has a row for.
LEMMA PathStarts ==
    ASSUME IInv, PathsOK, NEW t \in Tasks, KeepsContract(t), PathOK(t), dispatch = Exit,
           NEW u \in Tasks,
           \/ HttpRequest(u)
           \/ OnTimer(u) /\ u \in Periodics
           \/ ResumeTask /\ u = Head(ready)
           \/ TryProcessReadyJob /\ u = Head(resQueue)
           \/ UpstreamDone(u, TRUE) \/ UpstreamDone(u, FALSE) \/ ExpireTask(u)
    PROVE  PathOK(t)'
<1>1. status \in [Tasks -> Statuses] /\ ready \in Seq(Tasks) /\ resQueue \in Seq(Tasks)
  BY DEF IInv, TypeOK
<1>2. CASE HttpRequest(u) \/ (OnTimer(u) /\ u \in Periodics)
  <2>1. /\ dispatch' = [task |-> u, state |-> "EXECUTE"] /\ status' = [status EXCEPT ![u] = "None"]
        /\ UNCHANGED <<pool, running, resQueue, upstream, postponed, ready>>
    BY <1>2 DEF HttpRequest, OnTimer, Execute, poolVars
  <2>2. u \in timers \/ u \notin alive
    BY <1>2 DEF HttpRequest, OnTimer, IInv, NotYetAlive
  <2>3. u \notin running \cup upstream \cup postponed \cup pool /\ ~InSeq(u, ready) /\ ~InSeq(u, resQueue)
    BY <2>2, Alone
  <2>4. CASE t = u
    BY <1>1, <2>1, <2>3, <2>4 DEF PathOK, RowOK
  <2>5. CASE t # u
    BY <1>1, <2>1, <2>5, PathKept
  <2> QED BY <2>4, <2>5
<1>3. CASE ResumeTask /\ u = Head(ready)
  <2>1. /\ dispatch' = [task |-> u, state |-> "EXECUTE"] /\ ready # <<>> /\ ready' = Tail(ready)
        /\ UNCHANGED <<status, pool, running, resQueue, upstream, postponed>>
    BY <1>3 DEF ResumeTask, Execute, taskVars, poolVars
  <2>2. InSeq(u, ready) /\ (InSeq(t, ready') => InSeq(t, ready))
    BY <1>1, <1>3, <2>1, TailFacts
  <2>3. t = u => RowOK(t, "EXECUTE", status[t])
    BY <2>2 DEF PathOK, RowOK
  <2> QED BY <2>1, <2>2, <2>3, PathKept
<1>4. CASE TryProcessReadyJob /\ u = Head(resQueue)
  <2>1. /\ dispatch' = [task |-> u, state |-> "WORKER_ACTION_DONE"]
        /\ resQueue # <<>> /\ resQueue' = Tail(resQueue)
        /\ UNCHANGED <<status, pool, running, ready, upstream, postponed>>
    BY <1>4 DEF TryProcessReadyJob, taskVars, waitVars
  <2>2. InSeq(u, resQueue) /\ (InSeq(t, resQueue') => InSeq(t, resQueue))
    BY <1>1, <1>4, <2>1, TailFacts
  <2>3. t = u => RowOK(t, "WORKER_ACTION_DONE", status[t])
    BY <2>2 DEF PathOK, RowOK
  <2> QED BY <2>1, <2>2, <2>3, PathKept
<1>5. CASE UpstreamDone(u, TRUE)
  <2>1. /\ dispatch' = [task |-> u, state |-> "EXECUTE"] /\ u \in upstream
        /\ upstream' = upstream \ {u}
        /\ UNCHANGED <<status, pool, running, resQueue, ready, postponed>>
    BY <1>5 DEF UpstreamDone, Execute, poolVars
  <2>2. t = u => RowOK(t, "EXECUTE", status[t])
    BY <2>1 DEF PathOK, RowOK
  <2> QED BY <2>1, <2>2, PathKept
<1>6. CASE UpstreamDone(u, FALSE) \/ ExpireTask(u)
  <2>1. /\ dispatch' = Exit /\ status' = [status EXCEPT ![u] = "Error"]
        /\ UNCHANGED <<pool, running, resQueue, ready>>
        /\ u \in upstream \/ u \in postponed
    BY <1>6 DEF UpstreamDone, ExpireTask, poolVars
  <2>2. u \notin upstream' /\ u \notin postponed'
    <3>1. u \in postponed => u \notin upstream
      BY Alone
    <3> QED BY <1>6, <3>1 DEF UpstreamDone, ExpireTask, RespondAndDie, RespondAndResume
  <2>3. upstream' \subseteq upstream /\ postponed' \subseteq postponed
    BY <1>6 DEF UpstreamDone, ExpireTask, RespondAndDie, RespondAndResume
  <2>4. u \notin pool /\ ~InSeq(u, ready) /\ ~InSeq(u, resQueue)
    BY <2>1, Alone
  <2>5. u \notin running
    BY <2>1, Alone
  <2>6. CASE t = u
    BY <2>1, <2>2, <2>4, <2>5, <2>6 DEF PathOK
  <2>7. CASE t # u
    BY <1>1, <2>1, <2>3, <2>7, PathKept
  <2> QED BY <2>6, <2>7
<1> QED BY <1>2, <1>3, <1>4, <1>5, <1>6

\* A worker takes a task, or gives it back with what its action returned.
LEMMA PathWorker ==
    ASSUME IInv, NEW t \in Tasks, KeepsContract(t), PathOK(t), NEW u \in Tasks,
           StartJob(u) \/ FinishJob(u)
    PROVE  PathOK(t)'
<1>1. status \in [Tasks -> Statuses] /\ resQueue \in Seq(Tasks) /\ running \subseteq Tasks
  BY DEF IInv, TypeOK
<1>2. CASE StartJob(u)
  <2>1. /\ u \in pool /\ pool' = pool \ {u} /\ running' = running \cup {u}
        /\ UNCHANGED <<dispatch, status, resQueue, upstream, postponed, ready>>
    BY <1>2 DEF StartJob, taskVars, waitVars
  <2>2. dispatch' # Exit /\ dispatch'.task = t => RowOK(t, dispatch'.state, status'[t])
    BY <2>1 DEF PathOK
  <2> QED BY <2>1, <2>2, PathKept
<1>3. CASE FinishJob(u)
  <2>1. /\ u \in running /\ running' = running \ {u}
        /\ resQueue' = IF Len(resQueue) < ResQueueSize THEN Append(resQueue, u) ELSE resQueue
        /\ UNCHANGED <<dispatch, pool, upstream, postponed, ready>>
    BY <1>3 DEF FinishJob, waitVars
  <2>2. PICK s \in Returns[u]["worker"][status[u]] \ {Throws} : status' = [status EXCEPT ![u] = s]
    BY <1>3 DEF FinishJob
  <2>3. u \notin upstream \cup postponed \cup pool /\ ~InSeq(u, ready)
    BY <2>1, Alone
  <2>4. CASE t = u
    <3>1. HasWorker(t)
      BY <2>1, <2>4 DEF PathOK
    <3>2. status'[t] = s /\ s \in Returns[t]["worker"][status[t]] /\ status[t] \in Statuses
      BY <1>1, <2>2, <2>4
    <3>3. ~HasPost(t) => s \notin {"None", "Busy"}
      <4> SUFFICES ASSUME ~HasPost(t) PROVE s \notin {"None", "Busy"}
        OBVIOUS
      <4>1. LastAction(t) = "worker"
        BY <3>1 DEF LastAction
      <4> QED BY <3>2, <4>1 DEF KeepsContract
    <3>4. dispatch' # Exit /\ dispatch'.task = t => RowOK(t, dispatch'.state, status'[t])
      <4> SUFFICES ASSUME dispatch # Exit, dispatch.task = t
                   PROVE  RowOK(t, dispatch.state, status'[t])
        BY <2>1
      <4>1. ~Dispatched(t)
        BY <2>1, <2>4, Alone
      <4>2. \/ dispatch.state = "PRE_ACTION" /\ status[t] = "Busy"
            \/ dispatch.state = "CHK_WORKER_ACTION"
        BY <4>1 DEF Dispatched
      <4>3. dispatch.state # "PRE_ACTION"
        <5> SUFFICES ASSUME dispatch.state = "PRE_ACTION", status[t] = "Busy" PROVE FALSE
          BY <4>2
        <5>1. t \notin alive \ timers
          BY DEF IInv, NotBusyWhileWaiting
        <5> QED BY <2>1, <2>4, <5>1, Alone
      <4> QED BY <3>1, <4>2, <4>3 DEF RowOK
    <3> QED BY <2>1, <2>3, <2>4, <3>1, <3>2, <3>3, <3>4 DEF PathOK
  <2>5. CASE t # u
    <3>1. InSeq(t, resQueue') => InSeq(t, resQueue)
      BY <1>1, <2>1, <2>5, AppendFacts
    <3>2. status'[t] = status[t]
      BY <1>1, <2>2, <2>5
    <3>3. dispatch' # Exit /\ dispatch'.task = t => RowOK(t, dispatch'.state, status'[t])
      BY <2>1, <3>2 DEF PathOK
    <3> QED BY <2>1, <3>1, <3>2, <3>3, PathKept
  <2> QED BY <2>4, <2>5
<1> QED BY <1>2, <1>3

\* Every step leaves every task with a status that fits where it is.
LEMMA NextPathsOK == IInv /\ PathsOK /\ [Next]_vars => PathsOK'
<1> SUFFICES ASSUME IInv, PathsOK, [Next]_vars, NEW t \in Tasks, KeepsContract(t)
             PROVE  PathOK(t)'
  BY DEF PathsOK, KeepsContract, LastAction, HasPre, HasWorker, HasPost
<1>1. PathOK(t)
  BY DEF PathsOK
<1>2. ASSUME UNCHANGED <<dispatch, status, pool, running, resQueue, upstream, postponed, ready>>
      PROVE  PathOK(t)'
  BY <1>1, <1>2 DEF PathOK
<1>3. CASE Dispatch
  <2>1. CASE IOThreadThrows
    BY <1>2, <2>1 DEF IOThreadThrows, taskVars, poolVars, waitVars
  <2> QED BY <1>1, <1>3, <2>1, PathBeforeWorker, PathWorkerRows, PathPostRows, PathLeaves DEF Dispatch
<1>4. CASE IOEvent
  <2>1. ASSUME NEW c \in Clients, Accept(c) \/ DropAccepted(c) \/ HttpRequest(c) \/ ClientClose(c)
        PROVE  PathOK(t)'
    <3>1. CASE HttpRequest(c)
      BY <1>1, <3>1, PathStarts DEF HttpRequest, IOThreadAt, Tasks
    <3>2. CASE Accept(c) \/ DropAccepted(c) \/ ClientClose(c)
      BY <1>2, <3>2 DEF Accept, DropAccepted, ClientClose, poolVars, waitVars
    <3> QED BY <2>1, <3>1, <3>2
  <2>2. CASE TryProcessReadyJob
    <3>1. Head(resQueue) \in Tasks /\ dispatch = Exit
      BY <2>2, TailFacts DEF TryProcessReadyJob, IOThreadAt, IInv, TypeOK
    <3> QED BY <1>1, <2>2, <3>1, PathStarts
  <2>3. ASSUME NEW u \in Tasks, NEW ok \in BOOLEAN, UpstreamDone(u, ok)
        PROVE  PathOK(t)'
    <3>1. UpstreamDone(u, TRUE) \/ UpstreamDone(u, FALSE)
      BY <2>3
    <3>2. dispatch = Exit
      BY <2>3 DEF UpstreamDone, IOThreadAt
    <3> QED BY <1>1, <3>1, <3>2, PathStarts
  <2>4. ASSUME NEW u \in Tasks, BlockingUpstreamDone(u)
        PROVE  PathOK(t)'
    BY <1>2, <2>4 DEF BlockingUpstreamDone, taskVars
  <2> QED BY <1>4, <2>1, <2>2, <2>3, <2>4 DEF IOEvent
<1>5. CASE Loop
  <2>1. ASSUME NEW u \in Periodics, OnTimer(u) PROVE PathOK(t)'
    BY <1>1, <2>1, PathStarts DEF OnTimer, IOThreadAt, Tasks
  <2>2. CASE ResumeTask
    <3>1. Head(ready) \in Tasks /\ dispatch = Exit
      BY <2>2, TailFacts DEF ResumeTask, IOThreadAt, IInv, TypeOK
    <3> QED BY <1>1, <2>2, <3>1, PathStarts
  <2>3. ASSUME NEW u \in Tasks, ExpireTask(u) PROVE PathOK(t)'
    BY <1>1, <2>3, PathStarts DEF ExpireTask, IOThreadAt
  <2>4. ASSUME \/ EndPoll \/ EndTimers \/ CheckUpstreamBlockingIO \/ CheckPeriodicTaskIO
               \/ EndResume \/ EndIteration \/ \E u \in Tasks : ExpelWorker(u)
        PROVE  PathOK(t)'
    BY <1>2, <2>4 DEF EndPoll, EndTimers, CheckUpstreamBlockingIO, CheckPeriodicTaskIO, EndResume,
       EndIteration, ExpelWorker, taskVars, poolVars, waitVars
  <2> QED BY <1>5, <2>1, <2>2, <2>3, <2>4 DEF Loop
<1>6. ASSUME NEW u \in Tasks, Worker(u) PROVE PathOK(t)'
  <2>1. CASE StartJob(u) \/ FinishJob(u)
    BY <1>1, <2>1, PathWorker
  <2>2. CASE SendUpstreamBlocking(u) \/ WorkerThrows(u)
    BY <1>2, <2>2 DEF SendUpstreamBlocking, WorkerThrows, taskVars, poolVars, waitVars
  <2> QED BY <1>6, <2>1, <2>2 DEF Worker
<1>7. CASE \/ Stop \/ Ended \/ UNCHANGED vars
           \/ \E u \in Periodics : AddPeriodicTask(u) \/ RequestPeriodicTask(u)
  BY <1>2, <1>7 DEF Stop, Ended, AddPeriodicTask, RequestPeriodicTask, vars, taskVars, poolVars,
     waitVars
<1> QED BY <1>3, <1>4, <1>5, <1>6, <1>7 DEF Next

\* StateMachine::process finds a row for a task whose handlers keep the contract, from
\* wherever the dispatch of the task starts, for any handlers, threads and queue sizes.
THEOREM TableHasRow == Spec => []TableComplete
<1>1. Init => PathsOK
  <2> SUFFICES ASSUME Init, NEW t \in Tasks PROVE PathOK(t)
    BY DEF PathsOK
  <2>1. ~InSeq(t, ready) /\ ~InSeq(t, resQueue)
    BY DEF Init, InSeq
  <2> QED BY <2>1 DEF Init, PathOK
<1>2. IInv /\ PathsOK => TableComplete
  <2> SUFFICES ASSUME IInv, PathsOK, TableIncomplete, KeepsContract(Task) PROVE FALSE
    BY DEF TableComplete
  <2> DEFINE t == dispatch.task
  <2>1. /\ dispatch # Exit /\ t \in Tasks /\ status[t] \in Statuses
        /\ dispatch.state \in {"PRE_ACTION", "CHK_PRE_ACTION", "CHK_POST_ACTION"}
    BY DispatchFacts DEF IInv, TableIncomplete, States
  <2>2. RowOK(t, dispatch.state, status[t])
    BY <2>1 DEF PathsOK, PathOK, Task
  <2> QED BY <2>1, <2>2 DEF TableIncomplete, RowOK, At, Task, PreToWorker, PreToPost, PreFails, Statuses
<1> QED BY <1>1, <1>2, NextPathsOK, Invariance, PTL DEF Spec

-----------------------------------------------------------------------------
(* PostponedTasks: the deadlines and the callbacks that come early.          *)

\* No entry of m_expireTaskQueue is later than the last postponement of its task
\* demands: what is in the queue besides its deadline is stale and older.
OldDeadlines ==
    /\ \A t \in Uuids : postponedAt[t] <= now
    /\ \A e \in expireQueue : e.time <= postponedAt[e.task] + Timeout

\* A callback that is not too old and was not used is still in the expiring list.
CallbacksKept ==
    \A e \in unused : now < e.time => \E k \in DOMAIN futurePostpone : futurePostpone[k] = e

\* The inductive invariant.
PostponeInv == PostponeTypeOK /\ OldDeadlines /\ DeadlineKept /\ CallbacksKept /\ EarlyCallbackFound

-----------------------------------------------------------------------------
(* The expiring list                                                         *)

\* ExpiringListT::chop keeps every entry whose time is not over.
LEMMA ChopKeeps ==
    ASSUME PostponeTypeOK, NEW n \in 0 .. Len(futurePostpone), Chop(n)
    PROVE  /\ Chopped(n) \in Seq(Entry)
           /\ \A k \in DOMAIN futurePostpone : now < futurePostpone[k].time =>
                 \E l \in DOMAIN Chopped(n) : Chopped(n)[l] = futurePostpone[k]
<1>1. futurePostpone \in Seq(Entry) /\ DOMAIN futurePostpone = 1 .. Len(futurePostpone) /\ Len(futurePostpone) \in Nat
      /\ now \in Nat
  BY DEF PostponeTypeOK
<1>2. /\ Chopped(n) \in Seq(Entry)
      /\ DOMAIN Chopped(n) = 1 .. Len(futurePostpone) - n
      /\ \A l \in 1 .. Len(futurePostpone) - n : Chopped(n)[l] = futurePostpone[l + n]
  BY <1>1 DEF Chopped
<1>3. ASSUME NEW k \in DOMAIN futurePostpone, now < futurePostpone[k].time
      PROVE  \E l \in DOMAIN Chopped(n) : Chopped(n)[l] = futurePostpone[k]
  <2>1. ASSUME NEW j \in DOMAIN futurePostpone PROVE futurePostpone[j].time \in Nat
    <3>1. futurePostpone[j] \in Entry
      BY <1>1
    <3> QED BY <3>1 DEF Entry
  <2>2. n < k
    <3>1. CASE now < futurePostpone[1].time
      BY <1>1, <3>1 DEF Chop
    <3>2. CASE ~(now < futurePostpone[1].time)
      <4>1. futurePostpone # <<>>
        BY <1>1
      <4>2. \A j \in 2 .. n : futurePostpone[j].time < now
        BY <3>2, <4>1 DEF Chop
      <4> QED BY <1>1, <1>3, <2>1, <3>2, <4>2
    <3> QED BY <3>1, <3>2
  <2>3. k - n \in 1 .. Len(futurePostpone) - n /\ (k - n) + n = k
    BY <1>1, <2>2
  <2>4. Chopped(n)[k - n] = futurePostpone[(k - n) + n]
    BY <1>2, <2>3
  <2> QED BY <1>2, <2>3, <2>4
<1> QED BY <1>2, <1>3

\* Taking one entry out of a sequence keeps the others.
LEMMA WithoutKeeps ==
    ASSUME NEW q \in Seq(Entry), NEW k \in DOMAIN q
    PROVE  /\ Without(q, k) \in Seq(Entry)
           /\ \A l \in DOMAIN q : l # k => \E m \in DOMAIN Without(q, k) : Without(q, k)[m] = q[l]
<1> DEFINE a == SubSeq(q, 1, k - 1)
           b == SubSeq(q, k + 1, Len(q))
<1>1. Len(q) \in Nat /\ DOMAIN q = 1 .. Len(q) /\ k \in 1 .. Len(q)
  OBVIOUS
<1>2. a \in Seq(Entry) /\ Len(a) = k - 1 /\ \A l \in 1 .. k - 1 : a[l] = q[l]
  BY <1>1
<1>3. b \in Seq(Entry) /\ Len(b) = Len(q) - k /\ \A l \in 1 .. Len(q) - k : b[l] = q[l + k]
  BY <1>1
<1> HIDE DEF a, b
<1>4. /\ a \o b \in Seq(Entry)
      /\ DOMAIN (a \o b) = 1 .. Len(a) + Len(b)
      /\ \A l \in 1 .. Len(a) + Len(b) :
            (a \o b)[l] = IF l <= Len(a) THEN a[l] ELSE b[l - Len(a)]
  <2>1. /\ a \o b \in Seq(Entry)
        /\ Len(a \o b) = Len(a) + Len(b)
        /\ \A l \in 1 .. Len(a) + Len(b) :
              (a \o b)[l] = IF l <= Len(a) THEN a[l] ELSE b[l - Len(a)]
    BY <1>2, <1>3, ConcatProperties
  <2> QED BY <2>1
<1>5. Without(q, k) = a \o b
  BY DEF Without, a, b
<1>6. ASSUME NEW l \in DOMAIN q, l # k PROVE \E m \in DOMAIN (a \o b) : (a \o b)[m] = q[l]
  <2>1. l \in 1 .. Len(q) /\ k \in 1 .. Len(q) /\ Len(q) \in Nat
    BY <1>1
  <2>2. CASE l < k
    <3>1. l \in 1 .. Len(a) + Len(b) /\ l <= Len(a) /\ l \in 1 .. k - 1
      BY <1>2, <1>3, <2>1, <2>2
    <3>2. (a \o b)[l] = a[l]
      BY <1>4, <3>1
    <3>3. a[l] = q[l]
      BY <1>2, <3>1
    <3> QED BY <1>4, <3>1, <3>2, <3>3
  <2>3. CASE k < l
    <3>1. /\ l - 1 \in 1 .. Len(a) + Len(b) /\ ~(l - 1 <= Len(a))
          /\ (l - 1) - Len(a) = l - k
      BY <1>2, <1>3, <2>1, <2>3
    <3>2. l - k \in 1 .. Len(q) - k /\ (l - k) + k = l
      BY <2>1, <2>3
    <3>3. (a \o b)[l - 1] = b[(l - 1) - Len(a)]
      BY <1>4, <3>1
    <3>4. b[l - k] = q[(l - k) + k]
      BY <1>3, <3>2
    <3>5. (a \o b)[l - 1] = q[l]
      BY <3>1, <3>2, <3>3, <3>4
    <3> QED BY <1>4, <3>1, <3>5
  <2> QED BY <1>6, <2>1, <2>2, <2>3
<1> QED BY <1>4, <1>5, <1>6

-----------------------------------------------------------------------------
(* The steps                                                                 *)

\* postponeTask with a callback at hand uses that callback and no other.
LEMMA StepPostponeAnswered ==
    ASSUME PostponeInv, NEW t \in Uuids, PostponeAnswered(t)
    PROVE  PostponeInv'
<1>1. PICK n \in 0 .. Len(futurePostpone) :
         /\ Chop(n)
         /\ \E k \in DOMAIN Chopped(n) :
               /\ futurePostpone' = Without(Chopped(n), k)
               /\ unused' = unused \ {Chopped(n)[k]}
  BY DEF PostponeAnswered
<1>2. PICK k \in DOMAIN Chopped(n) :
         /\ futurePostpone' = Without(Chopped(n), k)
         /\ unused' = unused \ {Chopped(n)[k]}
  BY <1>1
<1>3. /\ place' = [place EXCEPT ![t] = "ready"]
      /\ readyToResume' = Append(readyToResume, t)
      /\ UNCHANGED <<now, expireQueue, expiring, postponedAt>>
  BY DEF PostponeAnswered
<1>4. /\ PostponeTypeOK /\ OldDeadlines /\ DeadlineKept /\ CallbacksKept /\ EarlyCallbackFound
  BY DEF PostponeInv
<1>5. /\ Chopped(n) \in Seq(Entry)
      /\ \A l \in DOMAIN futurePostpone : now < futurePostpone[l].time =>
            \E m \in DOMAIN Chopped(n) : Chopped(n)[m] = futurePostpone[l]
  BY <1>1, <1>4, ChopKeeps
<1>6. /\ futurePostpone' \in Seq(Entry)
      /\ \A l \in DOMAIN Chopped(n) : l # k => \E m \in DOMAIN futurePostpone' : futurePostpone'[m] = Chopped(n)[l]
  BY <1>2, <1>5, WithoutKeeps
<1>7. PostponeTypeOK'
  BY <1>2, <1>3, <1>4, <1>6 DEF PostponeTypeOK, PostponePlaces
<1>8. OldDeadlines'
  BY <1>3, <1>4 DEF OldDeadlines
<1>9. DeadlineKept'
  BY <1>3, <1>4 DEF DeadlineKept, PostponeTypeOK
<1>10. CallbacksKept'
  <2> SUFFICES ASSUME NEW e \in unused, e # Chopped(n)[k], now < e.time
               PROVE  \E m \in DOMAIN futurePostpone' : futurePostpone'[m] = e
    BY <1>2, <1>3 DEF CallbacksKept
  <2>1. PICK l \in DOMAIN futurePostpone : futurePostpone[l] = e
    BY <1>4 DEF CallbacksKept
  <2>2. PICK m \in DOMAIN Chopped(n) : Chopped(n)[m] = e
    BY <1>5, <2>1
  <2>3. m # k
    BY <2>2
  <2> QED BY <1>6, <2>2, <2>3
<1>11. EarlyCallbackFound'
  BY <1>2, <1>3, <1>4 DEF EarlyCallbackFound, PostponeTypeOK
<1> QED BY <1>7, <1>8, <1>9, <1>10, <1>11 DEF PostponeInv

\* postponeTask without one: the new deadline is the latest of the task, and no
\* callback for it is left in the expiring list.
LEMMA StepPostponeWaits ==
    ASSUME PostponeInv, NEW t \in Uuids, PostponeWaits(t)
    PROVE  PostponeInv'
<1>1. PICK n \in 0 .. Len(futurePostpone) :
         /\ Chop(n)
         /\ \A k \in DOMAIN Chopped(n) : Chopped(n)[k].task # t
         /\ futurePostpone' = Chopped(n)
  BY DEF PostponeWaits, NotFound
<1>2. /\ place' = [place EXCEPT ![t] = "postponed"]
      /\ expireQueue' = expireQueue \cup {[time |-> now + Timeout, task |-> t]}
      /\ postponedAt' = [postponedAt EXCEPT ![t] = now]
      /\ UNCHANGED <<now, readyToResume, expiring, unused>>
  BY DEF PostponeWaits
<1>3. /\ PostponeTypeOK /\ OldDeadlines /\ DeadlineKept /\ CallbacksKept /\ EarlyCallbackFound
  BY DEF PostponeInv
<1>4. /\ Chopped(n) \in Seq(Entry)
      /\ \A l \in DOMAIN futurePostpone : now < futurePostpone[l].time =>
            \E m \in DOMAIN Chopped(n) : Chopped(n)[m] = futurePostpone[l]
  BY <1>1, <1>3, ChopKeeps
<1>5. /\ now \in Nat /\ Timeout \in Nat /\ expireQueue \subseteq Entry
      /\ place \in [Uuids -> PostponePlaces] /\ postponedAt \in [Uuids -> Nat]
  BY <1>3, TimeoutAssumption DEF PostponeTypeOK
<1>6. /\ place' \in [Uuids -> PostponePlaces] /\ place'[t] = "postponed"
      /\ postponedAt' \in [Uuids -> Nat] /\ postponedAt'[t] = now
      /\ \A u \in Uuids : u # t => place'[u] = place[u] /\ postponedAt'[u] = postponedAt[u]
  BY <1>2, <1>5 DEF PostponePlaces
<1>7. [time |-> now + Timeout, task |-> t] \in Entry
  BY <1>5 DEF Entry
<1>8. PostponeTypeOK'
  BY <1>1, <1>2, <1>3, <1>4, <1>6, <1>7 DEF PostponeTypeOK
<1>9. OldDeadlines'
  <2>1. \A u \in Uuids : postponedAt'[u] <= now'
    BY <1>2, <1>3, <1>5, <1>6 DEF OldDeadlines
  <2>2. ASSUME NEW e \in expireQueue PROVE e.time <= postponedAt'[e.task] + Timeout
    <3>1. e.time \in Nat /\ e.task \in Uuids /\ e.time <= postponedAt[e.task] + Timeout
          /\ postponedAt[e.task] <= now
      BY <1>3, <1>5 DEF OldDeadlines, Entry
    <3>2. CASE e.task = t
      <4>1. postponedAt'[e.task] = now
        BY <1>6, <3>2
      <4>2. postponedAt[e.task] \in Nat
        BY <1>5, <3>1
      <4> QED BY <1>5, <3>1, <4>1, <4>2
    <3>3. CASE e.task # t
      BY <1>6, <3>1, <3>3
    <3> QED BY <3>2, <3>3
  <2>3. now + Timeout <= postponedAt'[t] + Timeout
    BY <1>5, <1>6
  <2> QED BY <1>2, <2>1, <2>2, <2>3 DEF OldDeadlines
<1>10. DeadlineKept'
  BY <1>2, <1>3, <1>6 DEF DeadlineKept
<1>11. CallbacksKept'
  BY <1>1, <1>2, <1>3, <1>4 DEF CallbacksKept
<1>12. EarlyCallbackFound'
  <2>1. ASSUME NEW e \in unused, e.task = t PROVE e.time <= now
    <3>1. CASE now < e.time
      <4>1. PICK l \in DOMAIN futurePostpone : futurePostpone[l] = e
        BY <1>3, <3>1 DEF CallbacksKept
      <4> QED BY <1>1, <1>4, <2>1, <3>1, <4>1
    <3>2. e.time \in Nat
      BY <1>3 DEF PostponeTypeOK, Entry
    <3> QED BY <1>5, <3>1, <3>2
  <2> QED BY <1>2, <1>3, <1>6, <2>1 DEF EarlyCallbackFound
<1> QED BY <1>8, <1>9, <1>10, <1>11, <1>12 DEF PostponeInv

\* processOk: a callback resumes its postponed task or is kept.
LEMMA StepCallback ==
    ASSUME PostponeInv, NEW t \in Uuids, Callback(t)
    PROVE  PostponeInv'
<1>1. /\ PostponeTypeOK /\ OldDeadlines /\ DeadlineKept /\ CallbacksKept /\ EarlyCallbackFound
  BY DEF PostponeInv
<1>2. UNCHANGED <<now, expireQueue, expiring, postponedAt>>
  BY DEF Callback
<1>3. CASE place[t] = "postponed"
  <2>1. /\ place' = [place EXCEPT ![t] = "ready"] /\ readyToResume' = Append(readyToResume, t)
        /\ UNCHANGED <<futurePostpone, unused>>
    BY <1>3 DEF Callback
  <2>2. PostponeTypeOK'
    BY <1>1, <1>2, <2>1 DEF PostponeTypeOK, PostponePlaces
  <2>3. OldDeadlines' /\ CallbacksKept'
    BY <1>1, <1>2, <2>1 DEF OldDeadlines, CallbacksKept
  <2>4. DeadlineKept' /\ EarlyCallbackFound'
    BY <1>1, <1>2, <2>1 DEF DeadlineKept, EarlyCallbackFound, PostponeTypeOK
  <2> QED BY <2>2, <2>3, <2>4 DEF PostponeInv
<1>4. CASE place[t] # "postponed"
  <2> DEFINE c == [time |-> now + Timeout, task |-> t]
  <2>1. PICK n \in 0 .. Len(futurePostpone) : Chop(n) /\ futurePostpone' = Append(Chopped(n), c)
    BY <1>4 DEF Callback
  <2>2. unused' = unused \cup {c} /\ UNCHANGED <<place, readyToResume>>
    BY <1>4 DEF Callback
  <2>3. c \in Entry /\ c.task = t
    BY <1>1, TimeoutAssumption DEF PostponeTypeOK, Entry
  <2> HIDE DEF c
  <2>4. /\ Chopped(n) \in Seq(Entry)
        /\ \A l \in DOMAIN futurePostpone : now < futurePostpone[l].time =>
              \E m \in DOMAIN Chopped(n) : Chopped(n)[m] = futurePostpone[l]
    BY <1>1, <2>1, ChopKeeps
  <2>5. /\ futurePostpone' \in Seq(Entry)
        /\ \A m \in DOMAIN Chopped(n) : m \in DOMAIN futurePostpone' /\ futurePostpone'[m] = Chopped(n)[m]
        /\ Len(Chopped(n)) + 1 \in DOMAIN futurePostpone' /\ futurePostpone'[Len(Chopped(n)) + 1] = c
    BY <2>1, <2>3, <2>4
  <2>6. PostponeTypeOK'
    BY <1>1, <1>2, <2>2, <2>3, <2>5 DEF PostponeTypeOK
  <2>7. OldDeadlines' /\ DeadlineKept'
    BY <1>1, <1>2, <2>2 DEF OldDeadlines, DeadlineKept
  <2>8. CallbacksKept'
    <3>1. ASSUME NEW e \in unused, now < e.time PROVE \E m \in DOMAIN futurePostpone' : futurePostpone'[m] = e
      <4>1. PICK l \in DOMAIN futurePostpone : futurePostpone[l] = e
        BY <1>1, <3>1 DEF CallbacksKept
      <4>2. PICK m \in DOMAIN Chopped(n) : Chopped(n)[m] = e
        BY <2>4, <3>1, <4>1
      <4> QED BY <2>5, <4>2
    <3>2. \E m \in DOMAIN futurePostpone' : futurePostpone'[m] = c
      BY <2>5
    <3> QED BY <1>2, <2>2, <3>1, <3>2 DEF CallbacksKept
  <2>9. EarlyCallbackFound'
    BY <1>1, <1>2, <1>4, <2>2, <2>3 DEF EarlyCallbackFound
  <2> QED BY <2>6, <2>7, <2>8, <2>9 DEF PostponeInv
<1> QED BY <1>3, <1>4

\* The top of the queue is the latest deadline: if its time is over and its task
\* is postponed, it is the deadline of this postponement.
LEMMA TopIsOwnDeadline ==
    ASSUME PostponeInv, NEW e \in expireQueue, Top(e), e.time < now, place[e.task] = "postponed"
    PROVE  e.time = postponedAt[e.task] + Timeout
<1>1. e.task \in Uuids /\ e.time \in Nat
  BY DEF PostponeInv, PostponeTypeOK, Entry
<1>2. postponedAt[e.task] \in Nat /\ Timeout \in Nat
  BY <1>1, TimeoutAssumption DEF PostponeInv, PostponeTypeOK
<1>3. e.time <= postponedAt[e.task] + Timeout
  BY DEF PostponeInv, OldDeadlines
<1> DEFINE d == [time |-> postponedAt[e.task] + Timeout, task |-> e.task]
<1>4. d \in expireQueue
  BY <1>1 DEF PostponeInv, DeadlineKept
<1>5. d.time <= e.time
  BY <1>4 DEF Top
<1> QED BY <1>1, <1>2, <1>3, <1>5

\* executePostponedTasks pops the top and answers its task if it is postponed.
LEMMA StepPopExpired ==
    ASSUME PostponeInv, NEW e \in expireQueue, PopExpired(e)
    PROVE  PostponeInv'
<1>1. /\ PostponeTypeOK /\ OldDeadlines /\ DeadlineKept /\ CallbacksKept /\ EarlyCallbackFound
  BY DEF PostponeInv
<1>2. /\ Top(e) /\ e.time < now
      /\ expireQueue' = expireQueue \ {e}
      /\ place' = IF place[e.task] = "postponed"
                  THEN [place EXCEPT ![e.task] = "done"] ELSE place
      /\ UNCHANGED <<now, readyToResume, futurePostpone, expiring, postponedAt, unused>>
  BY DEF PopExpired
<1>3. e.task \in Uuids
  BY <1>1 DEF PostponeTypeOK, Entry
<1>4. /\ place' \in [Uuids -> PostponePlaces] /\ place'[e.task] # "postponed"
      /\ \A u \in Uuids : place'[u] = "postponed" => place[u] = "postponed" /\ u # e.task
  BY <1>1, <1>2, <1>3 DEF PostponeTypeOK, PostponePlaces
<1>5. PostponeTypeOK'
  BY <1>1, <1>2, <1>4 DEF PostponeTypeOK
<1>6. OldDeadlines' /\ CallbacksKept'
  BY <1>1, <1>2 DEF OldDeadlines, CallbacksKept
<1>7. DeadlineKept'
  BY <1>1, <1>2, <1>4 DEF DeadlineKept
<1>8. EarlyCallbackFound'
  BY <1>1, <1>2, <1>4 DEF EarlyCallbackFound
<1> QED BY <1>5, <1>6, <1>7, <1>8 DEF PostponeInv

\* Steps that only move a task between the engine and the readyToResume list, and the
\* clock.
LEMMA StepOthers ==
    ASSUME PostponeInv,
           \/ \E t \in Uuids : Start(t) \/ Finish(t)
           \/ Resume \/ BeginExpire \/ EndExpire \/ Tick \/ UNCHANGED postponeVars
    PROVE  PostponeInv'
<1>1. /\ PostponeTypeOK /\ OldDeadlines /\ DeadlineKept /\ CallbacksKept /\ EarlyCallbackFound
  BY DEF PostponeInv
<1>2. ASSUME NEW t \in Uuids, Start(t) \/ Finish(t) PROVE PostponeInv'
  <2>1. /\ place' \in [Uuids -> PostponePlaces]
        /\ \A u \in Uuids : place'[u] = "postponed" => place[u] = "postponed"
        /\ UNCHANGED <<now, readyToResume, expireQueue, futurePostpone, expiring, postponedAt, unused>>
    BY <1>1, <1>2 DEF Start, Finish, PostponeTypeOK, PostponePlaces
  <2> QED BY <1>1, <2>1 DEF PostponeInv, PostponeTypeOK, OldDeadlines, DeadlineKept, CallbacksKept,
          EarlyCallbackFound
<1>3. CASE Resume
  <2>1. /\ readyToResume \in Seq(Uuids) /\ readyToResume # <<>>
        /\ readyToResume' = Tail(readyToResume)
        /\ place' = [place EXCEPT ![Head(readyToResume)] = "engine"]
        /\ UNCHANGED <<now, expireQueue, futurePostpone, expiring, postponedAt, unused>>
    BY <1>1, <1>3 DEF Resume, PostponeTypeOK
  <2>2. readyToResume' \in Seq(Uuids) /\ Head(readyToResume) \in Uuids
    BY <2>1
  <2>3. /\ place' \in [Uuids -> PostponePlaces]
        /\ \A u \in Uuids : place'[u] = "postponed" => place[u] = "postponed"
    BY <1>1, <2>1, <2>2 DEF PostponeTypeOK, PostponePlaces
  <2> QED BY <1>1, <2>1, <2>2, <2>3 DEF PostponeInv, PostponeTypeOK, OldDeadlines, DeadlineKept,
          CallbacksKept, EarlyCallbackFound
<1>4. CASE BeginExpire \/ EndExpire \/ UNCHANGED postponeVars
  <2>1. /\ expiring' \in BOOLEAN
        /\ UNCHANGED <<now, place, readyToResume, expireQueue, futurePostpone, postponedAt, unused>>
    BY <1>1, <1>4 DEF BeginExpire, EndExpire, postponeVars, PostponeTypeOK
  <2> QED BY <1>1, <2>1 DEF PostponeInv, PostponeTypeOK, OldDeadlines, DeadlineKept, CallbacksKept,
          EarlyCallbackFound
<1>5. CASE Tick
  <2>1. /\ now \in Nat /\ now' = now + 1
        /\ unused' \subseteq unused
        /\ UNCHANGED <<place, readyToResume, expireQueue, futurePostpone, expiring, postponedAt>>
    BY <1>1, <1>5 DEF Tick, PostponeTypeOK
  <2>2. PostponeTypeOK'
    BY <1>1, <2>1 DEF PostponeTypeOK
  <2>3. \A e \in unused : e.time \in Nat
    BY <1>1 DEF PostponeTypeOK, Entry
  <2>4. OldDeadlines'
    BY <1>1, <2>1 DEF OldDeadlines, PostponeTypeOK
  <2>5. DeadlineKept'
    BY <1>1, <2>1 DEF DeadlineKept
  <2>6. CallbacksKept' /\ EarlyCallbackFound'
    BY <1>1, <2>1, <2>3 DEF CallbacksKept, EarlyCallbackFound
  <2> QED BY <2>2, <2>4, <2>5, <2>6 DEF PostponeInv
<1> QED BY <1>2, <1>3, <1>4, <1>5

-----------------------------------------------------------------------------
(* The theorems                                                              *)

\* The invariant holds when nothing has been postponed yet.
LEMMA InitPostpone == PostponeInit => PostponeInv
<1> SUFFICES ASSUME PostponeInit PROVE PostponeInv
  OBVIOUS
<1>1. PostponeTypeOK
  <2>1. now \in Nat /\ place \in [Uuids -> PostponePlaces] /\ postponedAt \in [Uuids -> Nat]
    BY DEF PostponeInit, PostponePlaces
  <2>2. readyToResume \in Seq(Uuids)
    BY DEF PostponeInit
  <2>3. futurePostpone \in Seq(Entry)
    BY DEF PostponeInit
  <2>4. expireQueue \subseteq Entry /\ unused \subseteq Entry /\ expiring \in BOOLEAN
    BY DEF PostponeInit
  <2> QED BY <2>1, <2>2, <2>3, <2>4 DEF PostponeTypeOK
<1>2. OldDeadlines /\ CallbacksKept
  BY DEF PostponeInit, OldDeadlines, CallbacksKept
<1>3. DeadlineKept /\ EarlyCallbackFound
  BY DEF PostponeInit, DeadlineKept, EarlyCallbackFound
<1> QED BY <1>1, <1>2, <1>3 DEF PostponeInv

\* Every step of the IO thread and of the clock preserves it.
LEMMA NextPostpone == PostponeInv /\ [PostponeNext]_postponeVars => PostponeInv'
<1> SUFFICES ASSUME PostponeInv, [PostponeNext]_postponeVars PROVE PostponeInv'
  OBVIOUS
<1> QED BY StepPostponeAnswered, StepPostponeWaits, StepCallback, StepPopExpired, StepOthers
        DEF PostponeNext

\* The inductive invariant holds in every reachable state.
THEOREM PostponeInvariance == PostponeSpec => []PostponeInv
BY InitPostpone, NextPostpone, PTL DEF PostponeSpec

\* A postponed task has its own deadline in m_expireTaskQueue until it is resumed
\* or answered.
THEOREM DeadlinesKept == PostponeSpec => []DeadlineKept
<1>1. PostponeInv => DeadlineKept
  BY DEF PostponeInv
<1> QED BY <1>1, PostponeInvariance, PTL

\* No task is postponed while a callback for it that is not too old is known.
THEOREM EarlyCallbacksFound == PostponeSpec => []EarlyCallbackFound
<1>1. PostponeInv => EarlyCallbackFound
  BY DEF PostponeInv
<1> QED BY <1>1, PostponeInvariance, PTL

\* executePostponedTasks never answers a task before the deadline of its present
\* postponement, because the latest deadline is at the top of the queue.
THEOREM NotBeforeDeadline == PostponeSpec => NoEarlyExpiry
<1>1. ASSUME PostponeInv, [PostponeNext]_postponeVars, NEW t \in Uuids, place[t] = "postponed", place'[t] = "done"
      PROVE  postponedAt[t] + Timeout < now
  <2>1. place \in [Uuids -> PostponePlaces]
    BY <1>1 DEF PostponeInv, PostponeTypeOK
  <2>2. PICK e \in expireQueue : PopExpired(e)
    <3>1. CASE \E u \in Uuids : Start(u) \/ Finish(u) \/ PostponeAnswered(u) \/ PostponeWaits(u)
                                \/ Callback(u)
      BY <1>1, <2>1, <3>1 DEF Start, Finish, PostponeAnswered, PostponeWaits, Callback
    <3>2. CASE Resume
      <4>1. Head(readyToResume) \in Uuids /\ place' = [place EXCEPT ![Head(readyToResume)] = "engine"]
        BY <1>1, <3>2 DEF Resume, PostponeInv, PostponeTypeOK
      <4> QED BY <1>1, <2>1, <4>1
    <3>3. CASE BeginExpire \/ EndExpire \/ Tick \/ UNCHANGED postponeVars
      BY <1>1, <3>3 DEF BeginExpire, EndExpire, Tick, postponeVars
    <3> QED BY <1>1, <3>1, <3>2, <3>3 DEF PostponeNext
  <2>3. /\ Top(e) /\ e.time < now /\ e.task \in Uuids
        /\ place' = IF place[e.task] = "postponed"
                    THEN [place EXCEPT ![e.task] = "done"] ELSE place
    BY <1>1, <2>2 DEF PopExpired, PostponeInv, PostponeTypeOK, Entry
  <2>4. t = e.task
    BY <1>1, <2>1, <2>3
  <2>5. e.time = postponedAt[t] + Timeout
    BY <1>1, <2>3, <2>4, TopIsOwnDeadline
  <2> QED BY <2>3, <2>5
<1>2. PostponeInv /\ [PostponeNext]_postponeVars =>
         [\A t \in Uuids : place[t] = "postponed" /\ place'[t] = "done" =>
             postponedAt[t] + Timeout < now]_postponeVars
  BY <1>1
<1> QED BY <1>2, PostponeInvariance, PTL DEF PostponeSpec, NoEarlyExpiry
=============================================================================
