----------------------------- MODULE TaskManager -----------------------------
(***************************************************************************)
(* The task engine of lib/graft: TaskManager and StateMachine (task.cpp),  *)
(* the HTTP side that feeds it (ConnectionManager, connection.cpp), the    *)
(* jobs run by the worker threads (GraftJob, thread_pool.h) and the loop   *)
(* Looper::serve that drives everything and decides when to stop.          *)
(*                                                                         *)
(* One IO thread runs the loop.  An IO event (a request, a finished job,   *)
(* an upstream answer, a timer, a resumed task) starts a dispatch of the   *)
(* state machine for one task, and the dispatch runs row by row until EXIT *)
(* before the IO thread looks at the next event.  Between two rows worker  *)
(* threads and signal handlers may take steps.                             *)
(*                                                                         *)
(* A handler is what it may return for the task's last status.  Counters   *)
(* the code only compares with one another are kept as their difference.   *)
(* Time is left out: a timer, a timeout or an expiry may come at any loop  *)
(* iteration (the order of expiries is the subject of PostponedTasks).     *)
(* The upstream side is what UpstreamService promises.                     *)
(***************************************************************************)
EXTENDS Integers, Sequences, FiniteSets

CONSTANTS
    Clients,              \* client connections, and the ClientTask each may carry
    Periodics,            \* PeriodicTask objects
    Handlers,             \* which actions the Handler3 of each task has
    Returns,              \* what an action of a task may return after a status
    NextTaskIds,          \* the tasks whose uuid the handlers of a task may name
                          \* with setNextTaskId
    Blocking,             \* tasks whose worker action calls sendUpstreamBlocking
    UnknownUri,           \* tasks that forward to a '$' uri without a substitution
    ThreadCount,          \* worker threads in service
    ThreadPoolInputSize,  \* m_threadPoolInputSize
    ResQueueSize,         \* capacity of m_resQueue
    PromiseQueueSize,     \* capacity of m_promiseQueue
    PeriodicQueueSize,    \* capacity of m_periodicTaskQueue
    MaxFuture             \* bound: entries of m_futurePostponeUuids with one uuid

Tasks == Clients \cup Periodics

Statuses == {"None", "Ok", "Forward", "Again", "Error", "Drop", "Busy",
             "InternalError", "Postpone", "Stop"}
Throws == "Throws"        \* the action leaves by an exception
Actions == {"pre", "worker", "post"}

\* initThreadPool: the result queue is the next power of two of the input size, and
\* m_promiseQueue has a cell for every thread.
\* Status::Stop is "for timer events" only.
ASSUME ConstantsAssumption ==
    /\ Clients \cap Periodics = {}
    /\ IsFiniteSet(Tasks)
    /\ Handlers \in [Tasks -> SUBSET Actions]
    /\ Returns \in [Tasks -> [Actions -> [Statuses -> SUBSET (Statuses \cup {Throws})]]]
    /\ \A c \in Clients, a \in Actions, s \in Statuses : "Stop" \notin Returns[c][a][s]
    /\ NextTaskIds \in [Tasks -> SUBSET Tasks]
    /\ Blocking \subseteq Tasks
    /\ UnknownUri \subseteq Tasks
    /\ ThreadCount \in Nat \ {0}
    /\ ThreadPoolInputSize \in Nat \ {0}
    /\ ResQueueSize \in Nat /\ ThreadPoolInputSize <= ResQueueSize
    /\ PromiseQueueSize \in Nat /\ ThreadCount <= PromiseQueueSize
    /\ PeriodicQueueSize \in Nat
    /\ MaxFuture \in Nat \ {0}

VARIABLES
    \* the IO thread
    phase,          \* where Looper::serve is in its loop
    stop,           \* m_stop and m_forceStop
    dispatch,       \* the StateMachine::dispatch in progress
    \* the tasks
    alive,          \* tasks that hold themselves (SelfHolder)
    status,         \* getLastStatus() of each task
    accepted,       \* accepted connections that have sent no request yet
    open,           \* ClientTasks whose m_client is not nullptr
    baseTasks,      \* m_cntBaseTask - m_cntBaseTaskDone
    \* the thread pool
    jobs,           \* m_cntJobSent - m_cntJobDone
    pool,           \* tasks whose job is in a queue of the thread pool
    running,        \* tasks whose worker action is executed
    expelled,       \* those of them whose worker has been expelled
    waiting,        \* those of them blocked in sendUpstreamBlocking
    resQueue,       \* m_resQueue
    promiseQueue,   \* m_promiseQueue, by the task whose worker waits
    periodicQueue,  \* m_periodicTaskQueue
    \* where tasks wait
    upstream,       \* tasks handed to UpstreamManager::send
    blockingCalls,  \* UpstreamTasks handed to it, by the task whose worker waits
    postponed,      \* m_postponedTasks
    ready,          \* m_readyToResume
    future,         \* the entries of each task in m_futurePostponeUuids
    timers          \* m_timerList

ioVars == <<phase, stop>>
taskVars == <<alive, status, accepted, open, baseTasks>>
poolVars == <<jobs, pool, running, expelled, waiting, resQueue, promiseQueue,
              periodicQueue>>
waitVars == <<upstream, blockingCalls, postponed, ready, future, timers>>
vars == <<ioVars, dispatch, taskVars, poolVars, waitVars>>

-----------------------------------------------------------------------------

Phases == {"poll", "timers", "blocking", "periodic", "resume", "expire", "exit",
           "terminated"}
StopKinds == {"no", "graceful", "force"}
States == {"EXECUTE", "PRE_ACTION", "CHK_PRE_ACTION", "WORKER_ACTION",
           "CHK_WORKER_ACTION", "WORKER_ACTION_DONE", "POST_ACTION",
           "CHK_POST_ACTION"}
Exit == [state |-> "EXIT"]

HasPre(t) == "pre" \in Handlers[t]
HasWorker(t) == "worker" \in Handlers[t]
HasPost(t) == "post" \in Handlers[t]

\* The program may add periodic tasks before it calls serve().
Init ==
    /\ phase = "poll"
    /\ stop = "no"
    /\ dispatch = Exit
    /\ alive \in SUBSET Periodics
    /\ timers = alive
    /\ status = [t \in Tasks |-> "None"]
    /\ accepted = {}
    /\ open = {}
    /\ baseTasks = 0
    /\ jobs = 0
    /\ pool = {}
    /\ running = {}
    /\ expelled = {}
    /\ waiting = {}
    /\ resQueue = <<>>
    /\ promiseQueue = {}
    /\ periodicQueue = {}
    /\ upstream = {}
    /\ blockingCalls = {}
    /\ postponed = {}
    /\ ready = <<>>
    /\ future = [t \in Tasks |-> 0]

\* The IO thread is in this part of its loop and in no dispatch.
IOThreadAt(p) == phase = p /\ dispatch = Exit

\* The dispatch in progress is about to process a row that starts in this state.
At(s) == dispatch.state = s /\ phase # "terminated"
Task == dispatch.task
Goto(s) == dispatch' = IF s = "EXIT" THEN Exit ELSE [dispatch EXCEPT !.state = s]

\* TaskManager::Execute
Execute(t) == dispatch' = [task |-> t, state |-> "EXECUTE"]

\* Faulty: processOk leaves the resumed task in m_postponedTasks.
RespondAndKeepPostponed(t, s, die, resumed) ==
    /\ open' = open \ {t}
    /\ baseTasks' = IF t \in Clients /\ s # "Again" THEN baseTasks - 1 ELSE baseTasks
    /\ postponed' = postponed \ {t}
    /\ alive' = IF die /\ (t \in Clients \/ s = "Stop") THEN alive \ {t} ELSE alive
    /\ timers' = IF die /\ t \in Periodics /\ s # "Stop" THEN timers \cup {t} ELSE timers

\* Faulty: respond() counts an intermediate answer as the end of the request.
RespondAndCountAgain(t, s, die, resumed) ==
    /\ open' = open \ {t}
    /\ baseTasks' = IF t \in Clients THEN baseTasks - 1 ELSE baseTasks
    /\ postponed' = postponed \ ({t} \cup resumed)
    /\ alive' = IF die /\ (t \in Clients \/ s = "Stop") THEN alive \ {t} ELSE alive
    /\ timers' = IF die /\ t \in Periodics /\ s # "Stop" THEN timers \cup {t} ELSE timers

\* respondAndDie: ConnectionManager::respond sends the response unless the
\* client has gone, counts the task as done unless it goes on (Again), and
\* forgets the connection; the postponed entry goes; and unless the task goes
\* on, finalize() releases it or schedules a periodic task again.
RespondAndResume(t, s, die, resumed) ==
    /\ open' = open \ {t}
    /\ baseTasks' = IF t \in Clients /\ s # "Again" THEN baseTasks - 1 ELSE baseTasks
    /\ postponed' = postponed \ ({t} \cup resumed)
    /\ alive' = IF die /\ (t \in Clients \/ s = "Stop") THEN alive \ {t} ELSE alive
    /\ timers' = IF die /\ t \in Periodics /\ s # "Stop" THEN timers \cup {t} ELSE timers
RespondAndDie(t, s, die) == RespondAndResume(t, s, die, {})

\* Faulty: canStop() does not ask for the client tasks.
CanStopIgnoresClients == upstream \cup blockingCalls = {} /\ jobs = 0

\* TaskManager::canStop
CanStop == baseTasks = 0 /\ upstream \cup blockingCalls = {} /\ jobs = 0

\* An exception that reaches the top of the IO thread or of a worker thread.
Terminate == phase' = "terminated"

-----------------------------------------------------------------------------
(* The rows of StateMachine::init_table, in order, each with its action.    *)

\* Faulty: the limit is missed by one.
CheckThreadPoolOverflowLate ==
    /\ At("EXECUTE")
    /\ \/ /\ HasWorker(Task) /\ jobs > ThreadPoolInputSize
          /\ status' = [status EXCEPT ![Task] = "Busy"]
          /\ RespondAndDie(Task, "Busy", TRUE)
       \/ /\ ~(HasWorker(Task) /\ jobs > ThreadPoolInputSize)
          /\ UNCHANGED <<status, alive, open, baseTasks, postponed, timers>>
    /\ Goto("PRE_ACTION")
    /\ UNCHANGED <<ioVars, accepted, poolVars, upstream, blockingCalls, ready, future>>

\* EXECUTE: checkThreadPoolOverflow answers Busy when the pool is full.
CheckThreadPoolOverflow ==
    /\ At("EXECUTE")
    /\ \/ /\ HasWorker(Task) /\ jobs = ThreadPoolInputSize
          /\ status' = [status EXCEPT ![Task] = "Busy"]
          /\ RespondAndDie(Task, "Busy", TRUE)
       \/ /\ ~(HasWorker(Task) /\ jobs = ThreadPoolInputSize)
          /\ UNCHANGED <<status, alive, open, baseTasks, postponed, timers>>
    /\ Goto("PRE_ACTION")
    /\ UNCHANGED <<ioVars, accepted, poolVars, upstream, blockingCalls, ready, future>>

\* PRE_ACTION: a task answered Busy leaves, any other runs its pre_action.
PreActionBusy ==
    /\ At("PRE_ACTION")
    /\ status[Task] = "Busy"
    /\ Goto("EXIT")
    /\ UNCHANGED <<ioVars, taskVars, poolVars, waitVars>>

RunPreAction ==
    /\ At("PRE_ACTION")
    /\ status[Task] \in {"None", "Ok", "Forward", "Postpone"}
    /\ \/ /\ HasPre(Task)
          /\ \E s \in Returns[Task]["pre"][status[Task]] \ {Throws} :
                status' = [status EXCEPT ![Task] = s]
       \/ ~HasPre(Task) /\ UNCHANGED status
    /\ Goto("CHK_PRE_ACTION")
    /\ UNCHANGED <<ioVars, alive, accepted, open, baseTasks, poolVars, waitVars>>

\* Faulty: the row for all pre_actions that let the task go on forgets None.
PreToWorkerNotNone(t) ==
    \/ HasPre(t) /\ status[t] \in {"Ok", "Postpone"}
    \/ ~HasPre(t) /\ status[t] \in {"None", "Ok", "Forward", "Postpone"}

\* The statuses CHK_PRE_ACTION has a row for, by where they lead.
PreToWorker(t) ==
    \/ HasPre(t) /\ status[t] \in {"None", "Ok", "Postpone"}
    \/ ~HasPre(t) /\ status[t] \in {"None", "Ok", "Forward", "Postpone"}
PreToPost(t) == HasPre(t) /\ status[t] = "Forward"
PreFails(t) == HasPre(t) /\ status[t] \in {"Error", "InternalError", "Stop", "Drop"}

ChkPreAction ==
    /\ At("CHK_PRE_ACTION")
    /\ \/ /\ status[Task] = "Again"
          /\ RespondAndDie(Task, "Again", FALSE)
          /\ Goto("PRE_ACTION")
       \/ /\ PreToWorker(Task)
          /\ Goto("WORKER_ACTION")
          /\ UNCHANGED <<alive, open, baseTasks, postponed, timers>>
       \/ /\ PreToPost(Task)
          /\ Goto("POST_ACTION")
          /\ UNCHANGED <<alive, open, baseTasks, postponed, timers>>
       \/ /\ PreFails(Task)
          /\ RespondAndDie(Task, status[Task], TRUE)
          /\ Goto("EXIT")
    /\ UNCHANGED <<ioVars, status, accepted, poolVars, upstream, blockingCalls, ready, future>>

\* Faulty: a job posted again after Again is not counted again.
RunWorkerActionAgainUncounted ==
    /\ At("WORKER_ACTION")
    /\ \/ /\ HasWorker(Task)
          /\ Cardinality(pool) < ThreadPoolInputSize
          /\ jobs' = IF status[Task] = "Again" THEN jobs ELSE jobs + 1
          /\ pool' = pool \cup {Task}
       \/ ~HasWorker(Task) /\ UNCHANGED <<jobs, pool>>
    /\ Goto("CHK_WORKER_ACTION")
    /\ UNCHANGED <<ioVars, taskVars, running, expelled, waiting, resQueue, promiseQueue,
                   periodicQueue, waitVars>>

\* WORKER_ACTION: runWorkerAction counts the job and posts it, to any queue of
\* the pool that has room.  From then on a worker owns the task.
RunWorkerAction ==
    /\ At("WORKER_ACTION")
    /\ \/ /\ HasWorker(Task)
          /\ Cardinality(pool) < ThreadPoolInputSize
          /\ jobs' = jobs + 1
          /\ pool' = pool \cup {Task}
       \/ ~HasWorker(Task) /\ UNCHANGED <<jobs, pool>>
    /\ Goto("CHK_WORKER_ACTION")
    /\ UNCHANGED <<ioVars, taskVars, running, expelled, waiting, resQueue, promiseQueue,
                   periodicQueue, waitVars>>

ChkWorkerAction ==
    /\ At("CHK_WORKER_ACTION")
    /\ Goto(IF HasWorker(Task) THEN "EXIT" ELSE "POST_ACTION")
    /\ UNCHANGED <<ioVars, taskVars, poolVars, waitVars>>

\* WORKER_ACTION_DONE: Again answers the client and posts the job once more.
WorkerActionDone ==
    /\ At("WORKER_ACTION_DONE")
    /\ \/ /\ status[Task] = "Again"
          /\ RespondAndDie(Task, "Again", FALSE)
          /\ Goto("WORKER_ACTION")
       \/ /\ status[Task] # "Again"
          /\ Goto("POST_ACTION")
          /\ UNCHANGED <<alive, open, baseTasks, postponed, timers>>
    /\ UNCHANGED <<ioVars, status, accepted, poolVars, upstream, blockingCalls, ready, future>>

\* POST_ACTION: runPostAction; what it returns is ignored after Forward.
RunPostAction ==
    /\ At("POST_ACTION")
    /\ \/ /\ HasPost(Task)
          /\ \E s \in Returns[Task]["post"][status[Task]] \ {Throws} :
                status' = IF status[Task] = "Forward" THEN status
                          ELSE [status EXCEPT ![Task] = s]
       \/ ~HasPost(Task) /\ UNCHANGED status
    /\ Goto("CHK_POST_ACTION")
    /\ UNCHANGED <<ioVars, alive, accepted, open, baseTasks, poolVars, waitVars>>

ChkPostAgain ==
    /\ At("CHK_POST_ACTION")
    /\ status[Task] = "Again"
    /\ RespondAndDie(Task, "Again", FALSE)
    /\ Goto("POST_ACTION")
    /\ UNCHANGED <<ioVars, status, accepted, poolVars, upstream, blockingCalls, ready, future>>

\* processForward
ProcessForward ==
    /\ At("CHK_POST_ACTION")
    /\ status[Task] = "Forward"
    /\ Task \notin UnknownUri
    /\ upstream' = upstream \cup {Task}
    /\ Goto("EXIT")
    /\ UNCHANGED <<ioVars, taskVars, poolVars, blockingCalls, postponed, ready, future, timers>>

\* processOk: if the task names a next task, that one is resumed if it is
\* postponed, and remembered for when it will be; then the response.  At the
\* bound, the oldest entry is taken to have expired.
ProcessOk ==
    /\ At("CHK_POST_ACTION")
    /\ status[Task] = "Ok"
    /\ \/ /\ RespondAndDie(Task, "Ok", TRUE)
          /\ UNCHANGED <<ready, future>>
       \/ \E n \in NextTaskIds[Task] \cap postponed :
             /\ ready' = Append(ready, n)
             /\ RespondAndResume(Task, "Ok", TRUE, {n})
             /\ UNCHANGED future
       \/ \E n \in NextTaskIds[Task] \ postponed :
             /\ future' = [future EXCEPT ![n] = IF @ < MaxFuture THEN @ + 1 ELSE @]
             /\ RespondAndDie(Task, "Ok", TRUE)
             /\ UNCHANGED ready
    /\ Goto("EXIT")
    /\ UNCHANGED <<ioVars, status, accepted, poolVars, upstream, blockingCalls>>

\* run_error_response and run_drop
ChkPostFails ==
    /\ At("CHK_POST_ACTION")
    /\ status[Task] \in {"Error", "InternalError", "Stop", "Drop"}
    /\ RespondAndDie(Task, status[Task], TRUE)
    /\ Goto("EXIT")
    /\ UNCHANGED <<ioVars, status, accepted, poolVars, upstream, blockingCalls, ready, future>>

\* postponeTask: a callback that came first resumes the task at once, unless its
\* entries in the expiring list are too old by now.
PostponeTask ==
    /\ At("CHK_POST_ACTION")
    /\ status[Task] = "Postpone"
    /\ \/ /\ future[Task] > 0
          /\ ready' = Append(ready, Task)
          /\ future' = [future EXCEPT ![Task] = @ - 1]
          /\ UNCHANGED postponed
       \/ /\ postponed' = postponed \cup {Task}
          /\ future' = [future EXCEPT ![Task] = 0]
          /\ UNCHANGED ready
    /\ Goto("EXIT")
    /\ UNCHANGED <<ioVars, taskVars, poolVars, upstream, blockingCalls, timers>>

\* No row matches: StateMachine::process throws.
TableIncomplete ==
    \/ /\ At("PRE_ACTION")
       /\ status[Task] \notin {"Busy", "None", "Ok", "Forward", "Postpone"}
    \/ /\ At("CHK_PRE_ACTION")
       /\ status[Task] # "Again"
       /\ ~(PreToWorker(Task) \/ PreToPost(Task) \/ PreFails(Task))
    \/ /\ At("CHK_POST_ACTION")
       /\ status[Task] \in {"None", "Busy"}

\* A pre_action or post_action that throws: the exception is passed on.
IOActionThrows ==
    \/ /\ At("PRE_ACTION") /\ HasPre(Task)
       /\ status[Task] \in {"None", "Ok", "Forward", "Postpone"}
       /\ Throws \in Returns[Task]["pre"][status[Task]]
    \/ /\ At("POST_ACTION") /\ HasPost(Task)
       /\ Throws \in Returns[Task]["post"][status[Task]]

\* ThreadPoolImpl::post finds no room in any queue.
PostOverflows ==
    /\ At("WORKER_ACTION") /\ HasWorker(Task)
    /\ Cardinality(pool) >= ThreadPoolInputSize

\* UpstreamManager::send does not know the uri.
SendThrows ==
    \/ /\ At("CHK_POST_ACTION")
       /\ status[Task] = "Forward" /\ Task \in UnknownUri
    \/ IOThreadAt("blocking") /\ promiseQueue \cap UnknownUri # {}

IOThreadThrows ==
    /\ TableIncomplete \/ IOActionThrows \/ PostOverflows \/ SendThrows
    /\ Terminate
    /\ UNCHANGED <<stop, dispatch, taskVars, poolVars, waitVars>>

\* addPeriodicTask called by the pre_action or post_action in progress.
AddPeriodicTask(t) ==
    /\ \/ At("PRE_ACTION") /\ HasPre(Task) /\ status[Task] # "Busy"
       \/ At("POST_ACTION") /\ HasPost(Task)
    /\ t \notin alive \cup periodicQueue
    /\ alive' = alive \cup {t}
    /\ timers' = timers \cup {t}
    /\ UNCHANGED <<ioVars, dispatch, status, accepted, open, baseTasks, poolVars,
                   upstream, blockingCalls, postponed, ready, future>>

Dispatch ==
    \/ CheckThreadPoolOverflow
    \/ PreActionBusy
    \/ RunPreAction
    \/ ChkPreAction
    \/ RunWorkerAction
    \/ ChkWorkerAction
    \/ WorkerActionDone
    \/ RunPostAction
    \/ ChkPostAgain
    \/ ProcessForward
    \/ ProcessOk
    \/ ChkPostFails
    \/ PostponeTask
    \/ IOThreadThrows

-----------------------------------------------------------------------------
(* Events the IO thread takes inside mg_mgr_poll.                            *)

\* ev_handler_http, MG_EV_ACCEPT: refused once the server is stopping.
Accept(c) ==
    /\ IOThreadAt("poll")
    /\ c \notin alive \cup accepted
    /\ stop = "no"
    /\ accepted' = accepted \cup {c}
    /\ UNCHANGED <<ioVars, dispatch, alive, status, open, baseTasks, poolVars, waitVars>>

\* An accepted connection ends without a task: MG_EV_TIMER, no route, or closed
\* by the peer.
DropAccepted(c) ==
    /\ IOThreadAt("poll")
    /\ c \in accepted
    /\ accepted' = accepted \ {c}
    /\ UNCHANGED <<ioVars, dispatch, alive, status, open, baseTasks, poolVars, waitVars>>

\* MG_EV_HTTP_REQUEST with a route: a new ClientTask, with a uuid nobody knows
\* yet, and onNewClient.
HttpRequest(c) ==
    /\ IOThreadAt("poll")
    /\ c \in accepted
    /\ accepted' = accepted \ {c}
    /\ alive' = alive \cup {c}
    /\ open' = open \cup {c}
    /\ status' = [status EXCEPT ![c] = "None"]
    /\ future' = [future EXCEPT ![c] = 0]
    /\ baseTasks' = baseTasks + 1
    /\ Execute(c)
    /\ UNCHANGED <<ioVars, poolVars, upstream, blockingCalls, postponed, ready, timers>>

\* ConnectionManager::ev_handler, MG_EV_CLOSE: the client goes, the task stays.
ClientClose(c) ==
    /\ IOThreadAt("poll")
    /\ c \in open
    /\ open' = open \ {c}
    /\ UNCHANGED <<ioVars, dispatch, alive, status, accepted, baseTasks, poolVars, waitVars>>

\* cb_event and tryProcessReadyJob
TryProcessReadyJob ==
    /\ IOThreadAt("poll")
    /\ resQueue # <<>>
    /\ resQueue' = Tail(resQueue)
    /\ jobs' = jobs - 1
    /\ dispatch' = [task |-> Head(resQueue), state |-> "WORKER_ACTION_DONE"]
    /\ UNCHANGED <<ioVars, taskVars, pool, running, expelled, waiting, promiseQueue,
                   periodicQueue, waitVars>>

\* upstreamDoneProcess for a forwarded task: run it again, or answer the error.
UpstreamDone(t, ok) ==
    /\ IOThreadAt("poll")
    /\ t \in upstream
    /\ upstream' = upstream \ {t}
    /\ \/ /\ ok
          /\ Execute(t)
          /\ UNCHANGED <<status, alive, open, baseTasks, postponed, timers>>
       \/ /\ ~ok
          /\ status' = [status EXCEPT ![t] = "Error"]
          /\ RespondAndDie(t, "Error", TRUE)
          /\ UNCHANGED dispatch
    /\ UNCHANGED <<ioVars, accepted, poolVars, blockingCalls, ready, future>>

\* upstreamDoneProcess for an UpstreamTask: the promise gets its value or its
\* exception, and the worker goes on.
BlockingUpstreamDone(t) ==
    /\ IOThreadAt("poll")
    /\ t \in blockingCalls
    /\ blockingCalls' = blockingCalls \ {t}
    /\ waiting' = waiting \ {t}
    /\ UNCHANGED <<ioVars, dispatch, taskVars, jobs, pool, running, expelled, resQueue,
                   promiseQueue, periodicQueue, upstream, postponed, ready, future, timers>>

IOEvent ==
    \/ \E c \in Clients : Accept(c) \/ DropAccepted(c) \/ HttpRequest(c) \/ ClientClose(c)
    \/ TryProcessReadyJob
    \/ \E t \in Tasks, ok \in BOOLEAN : UpstreamDone(t, ok)
    \/ \E t \in Tasks : BlockingUpstreamDone(t)

-----------------------------------------------------------------------------
(* The rest of an iteration of Looper::serve.                                *)

\* Faulty: every stop skips the rest of the iteration.
EndPollSkipsOnStop ==
    /\ IOThreadAt("poll")
    /\ \/ stop # "no" /\ phase' = IF CanStop THEN "exit" ELSE "poll"
       \/ stop = "no" /\ phase' = "timers"
    /\ UNCHANGED <<stop, dispatch, taskVars, poolVars, waitVars>>

\* After the poll: a forced stop looks at canStop() and skips everything else.
EndPoll ==
    /\ IOThreadAt("poll")
    /\ \/ stop = "force" /\ phase' = IF CanStop THEN "exit" ELSE "poll"
       \/ stop # "force" /\ phase' = "timers"
    /\ UNCHANGED <<stop, dispatch, taskVars, poolVars, waitVars>>

\* TimerList::eval and onTimer
OnTimer(t) ==
    /\ IOThreadAt("timers")
    /\ t \in timers
    /\ timers' = timers \ {t}
    /\ status' = [status EXCEPT ![t] = "None"]
    /\ Execute(t)
    /\ UNCHANGED <<ioVars, alive, accepted, open, baseTasks, poolVars,
                   upstream, blockingCalls, postponed, ready, future>>

EndTimers ==
    /\ IOThreadAt("timers")
    /\ phase' = "blocking"
    /\ UNCHANGED <<stop, dispatch, taskVars, poolVars, waitVars>>

\* Faulty: requests of workers are thrown away once the server is stopping.
CheckUpstreamBlockingIODrops ==
    /\ IOThreadAt("blocking")
    /\ promiseQueue \cap UnknownUri = {}
    /\ blockingCalls' = IF stop = "no" THEN blockingCalls \cup promiseQueue ELSE blockingCalls
    /\ promiseQueue' = {}
    /\ phase' = "periodic"
    /\ UNCHANGED <<stop, dispatch, taskVars, jobs, pool, running, expelled, waiting, resQueue,
                   periodicQueue, upstream, postponed, ready, future, timers>>

\* checkUpstreamBlockingIO hands every waiting request to the upstream manager.
CheckUpstreamBlockingIO ==
    /\ IOThreadAt("blocking")
    /\ promiseQueue \cap UnknownUri = {}
    /\ blockingCalls' = blockingCalls \cup promiseQueue
    /\ promiseQueue' = {}
    /\ phase' = "periodic"
    /\ UNCHANGED <<stop, dispatch, taskVars, jobs, pool, running, expelled, waiting, resQueue,
                   periodicQueue, upstream, postponed, ready, future, timers>>

\* checkPeriodicTaskIO creates and schedules the periodic tasks workers asked for.
CheckPeriodicTaskIO ==
    /\ IOThreadAt("periodic")
    /\ alive' = alive \cup periodicQueue
    /\ timers' = timers \cup periodicQueue
    /\ periodicQueue' = {}
    /\ phase' = "resume"
    /\ UNCHANGED <<stop, dispatch, status, accepted, open, baseTasks, jobs, pool, running,
                   expelled, waiting, resQueue, promiseQueue, upstream, blockingCalls,
                   postponed, ready, future>>

\* executePostponedTasks: first it runs all tasks that are ready,
ResumeTask ==
    /\ IOThreadAt("resume")
    /\ ready # <<>>
    /\ ready' = Tail(ready)
    /\ Execute(Head(ready))
    /\ UNCHANGED <<ioVars, taskVars, poolVars, upstream, blockingCalls, postponed, future, timers>>

EndResume ==
    /\ IOThreadAt("resume")
    /\ ready = <<>>
    /\ phase' = "expire"
    /\ UNCHANGED <<stop, dispatch, taskVars, poolVars, waitVars>>

\* then it answers the postponed tasks whose time is over.
ExpireTask(t) ==
    /\ IOThreadAt("expire")
    /\ t \in postponed
    /\ status' = [status EXCEPT ![t] = "Error"]
    /\ RespondAndDie(t, "Error", TRUE)
    /\ UNCHANGED <<ioVars, dispatch, accepted, poolVars, upstream, blockingCalls, ready, future>>

\* expelWorkers: a worker too long in one job is replaced by a new one.
ExpelWorker(t) ==
    /\ IOThreadAt("expire")
    /\ t \in running \ expelled
    /\ expelled' = expelled \cup {t}
    /\ UNCHANGED <<ioVars, dispatch, taskVars, jobs, pool, running, waiting, resQueue,
                   promiseQueue, periodicQueue, waitVars>>

\* The end of the iteration
EndIteration ==
    /\ IOThreadAt("expire")
    /\ phase' = IF stop # "no" /\ CanStop THEN "exit" ELSE "poll"
    /\ UNCHANGED <<stop, dispatch, taskVars, poolVars, waitVars>>

Loop ==
    \/ EndPoll
    \/ \E t \in Periodics : OnTimer(t)
    \/ EndTimers
    \/ CheckUpstreamBlockingIO
    \/ CheckPeriodicTaskIO
    \/ ResumeTask
    \/ EndResume
    \/ \E t \in Tasks : ExpireTask(t) \/ ExpelWorker(t)
    \/ EndIteration

\* Looper::stop, from the handler of SIGINT or SIGHUP, and of SIGTERM.
Stop ==
    /\ phase \notin {"exit", "terminated"}
    /\ \/ stop = "no" /\ stop' = "graceful"
       \/ stop # "force" /\ stop' = "force"
    /\ UNCHANGED <<phase, dispatch, taskVars, poolVars, waitVars>>

-----------------------------------------------------------------------------
(* The worker threads.                                                       *)

WorkersRun == phase \notin {"exit", "terminated"}

\* WorkerT::threadFunc takes a job from its own queue or its neighbour's.
StartJob(t) ==
    /\ WorkersRun
    /\ t \in pool
    /\ Cardinality(running \ expelled) < ThreadCount
    /\ pool' = pool \ {t}
    /\ running' = running \cup {t}
    /\ UNCHANGED <<ioVars, dispatch, taskVars, jobs, expelled, waiting, resQueue,
                   promiseQueue, periodicQueue, waitVars>>

\* sendUpstreamBlocking: the result of the push is not looked at.
SendUpstreamBlocking(t) ==
    /\ WorkersRun
    /\ t \in (running \ waiting) \cap Blocking
    /\ waiting' = waiting \cup {t}
    /\ promiseQueue' = IF Cardinality(promiseQueue) < PromiseQueueSize
                       THEN promiseQueue \cup {t} ELSE promiseQueue
    /\ UNCHANGED <<ioVars, dispatch, taskVars, jobs, pool, running, expelled, resQueue,
                   periodicQueue, waitVars>>

\* addPeriodicTask in a worker; a full queue is reported to the caller.
RequestPeriodicTask(t) ==
    /\ WorkersRun
    /\ running \ waiting # {}
    /\ t \notin alive \cup periodicQueue
    /\ Cardinality(periodicQueue) < PeriodicQueueSize
    /\ periodicQueue' = periodicQueue \cup {t}
    /\ UNCHANGED <<ioVars, dispatch, taskVars, jobs, pool, running, expelled, waiting, resQueue,
                   promiseQueue, waitVars>>

\* GraftJob::operator(): runWorkerActionFromTheThreadPool, then the push into
\* m_resQueue, whose result is not looked at either.
FinishJob(t) ==
    /\ WorkersRun
    /\ t \in running \ waiting
    /\ \E s \in Returns[t]["worker"][status[t]] \ {Throws} :
          status' = [status EXCEPT ![t] = s]
    /\ running' = running \ {t}
    /\ expelled' = expelled \ {t}
    /\ resQueue' = IF Len(resQueue) < ResQueueSize THEN Append(resQueue, t) ELSE resQueue
    /\ UNCHANGED <<ioVars, dispatch, alive, accepted, open, baseTasks, jobs, pool, waiting,
                   promiseQueue, periodicQueue, waitVars>>

\* A worker action that throws: passed on by every caller up to the thread.
WorkerThrows(t) ==
    /\ WorkersRun
    /\ t \in running \ waiting
    /\ Throws \in Returns[t]["worker"][status[t]]
    /\ Terminate
    /\ UNCHANGED <<stop, dispatch, taskVars, poolVars, waitVars>>

Worker(t) == StartJob(t) \/ SendUpstreamBlocking(t) \/ FinishJob(t) \/ WorkerThrows(t)

-----------------------------------------------------------------------------

\* serve() has returned, or the process has ended.
Ended ==
    /\ phase \in {"exit", "terminated"}
    /\ UNCHANGED vars

Next ==
    \/ Dispatch
    \/ IOEvent
    \/ Loop
    \/ Stop
    \/ \E t \in Tasks : Worker(t)
    \/ \E t \in Periodics : AddPeriodicTask(t) \/ RequestPeriodicTask(t)
    \/ Ended

Spec == Init /\ [][Next]_vars

\* The IO thread runs its loop, mg_mgr_poll delivers a notification or an upstream
\* answer (at the latest its timeout) if it keeps finding one, and once no new
\* requests come a postponed task's time is over at some time (before, newer
\* deadlines may hold it up).  Idle workers take jobs, and a worker action returns
\* after finitely many blocking calls.
Fairness ==
    /\ WF_vars(Dispatch)
    /\ WF_vars(EndPoll \/ EndTimers \/ CheckUpstreamBlockingIO \/ CheckPeriodicTaskIO
               \/ ResumeTask \/ EndResume \/ EndIteration)
    /\ SF_vars(TryProcessReadyJob
               \/ \E t \in Tasks : BlockingUpstreamDone(t)
                                   \/ \E ok \in BOOLEAN : UpstreamDone(t, ok))
    /\ SF_vars(stop # "no" /\ \E t \in Tasks : ExpireTask(t))
    /\ WF_vars(\E t \in Tasks : StartJob(t))
    /\ \A t \in Tasks \ Blocking : WF_vars(FinishJob(t))
    /\ \A t \in Blocking : SF_vars(FinishJob(t))

FairSpec == Spec /\ Fairness

-----------------------------------------------------------------------------

\* Every variable keeps its type.
TypeOK ==
    /\ phase \in Phases
    /\ stop \in StopKinds
    /\ dispatch \in [task : Tasks, state : States] \cup {Exit}
    /\ alive \subseteq Tasks
    /\ status \in [Tasks -> Statuses]
    /\ accepted \subseteq Clients
    /\ open \subseteq Clients
    /\ baseTasks \in Nat
    /\ jobs \in Nat
    /\ pool \subseteq Tasks
    /\ running \subseteq Tasks
    /\ expelled \subseteq running
    /\ waiting \subseteq running
    /\ resQueue \in Seq(Tasks)
    /\ promiseQueue \subseteq Tasks
    /\ periodicQueue \subseteq Periodics
    /\ upstream \subseteq Tasks
    /\ blockingCalls \subseteq Tasks
    /\ postponed \subseteq Tasks
    /\ ready \in Seq(Tasks)
    /\ future \in [Tasks -> 0 .. MaxFuture]
    /\ timers \subseteq Periodics

InSeq(t, q) == \E k \in DOMAIN q : q[k] = t
NoDuplicates(q) == \A j, k \in DOMAIN q : q[j] = q[k] => j = k

\* The dispatch in progress holds the task: it has not yet answered Busy and not
\* yet handed the task to a worker.
Dispatched(t) ==
    /\ dispatch # Exit
    /\ dispatch.task = t
    /\ dispatch.state = "PRE_ACTION" => status[t] # "Busy"
    /\ dispatch.state = "CHK_WORKER_ACTION" => ~HasWorker(t)

Times(b) == IF b THEN 1 ELSE 0
Places(t) ==
    Times(Dispatched(t)) + Times(t \in pool) + Times(t \in running)
    + Times(InSeq(t, resQueue)) + Times(t \in upstream) + Times(t \in postponed)
    + Times(InSeq(t, ready)) + Times(t \in timers)

\* No task is lost and none is run twice: at any moment a task that has not been
\* finalized is in exactly one place - in the dispatch, in a queue of the thread
\* pool, with a worker, in m_resQueue, with the upstream manager, postponed,
\* ready to resume or in the timer list - and a finalized one is in none,
\* whatever the order of worker results, callbacks, expiries and overflows.
OnePlace ==
    /\ \A t \in Tasks : Places(t) = Times(t \in alive)
    /\ NoDuplicates(resQueue)
    /\ NoDuplicates(ready)

\* The assertions of checkThreadPoolOverflow, and that the counters mean what
\* they should: the jobs sent and not done are those in the pool's queues, with
\* the workers and in m_resQueue, and never more than the pool takes, although
\* the limit is looked at only when a task enters EXECUTE.
JobAccounting ==
    /\ jobs = Cardinality(pool) + Cardinality(running) + Len(resQueue)
    /\ jobs <= ThreadPoolInputSize

\* onNewClient and onClientDone balance: the difference of the two counters is
\* the number of client tasks not finalized, through Again answers, clients that
\* close early, expiries and upstream failures.
ClientAccounting ==
    /\ baseTasks = Cardinality(alive \cap Clients)
    /\ open \subseteq alive

\* When serve() returns no request is left: no client task, no job, no worker in
\* an action, nothing sent upstream.
StopSound ==
    phase = "exit" =>
        /\ alive \cap Clients = {}
        /\ pool \cup running = {} /\ resQueue = <<>>
        /\ upstream \cup blockingCalls = {}

\* The request of a worker that blocks in sendUpstreamBlocking is in m_promiseQueue or with the
\* upstream manager until its promise is fulfilled.  It is lost, and its worker blocks for ever,
\* only if it finds the queue full with requests of other blocked workers; the queue has a cell
\* for every thread of the pool, so one of all these workers was expelled.
NoLostPromise ==
    [][\A t \in waiting' \ (promiseQueue' \cup blockingCalls') :
          \/ t \in waiting \ (promiseQueue \cup blockingCalls)
          \/ /\ promiseQueue \subseteq waiting \ {t}
             /\ Cardinality(promiseQueue) >= PromiseQueueSize
             /\ expelled \cap (promiseQueue \cup {t}) # {}]_vars

\* What the table of the state machine asks of a Handler3: pre_action returns
\* neither Again nor Busy, and the last action neither None nor Busy.
LastAction(t) ==
    IF HasPost(t) THEN "post" ELSE IF HasWorker(t) THEN "worker" ELSE "pre"
KeepsContract(t) ==
    /\ Handlers[t] # {}
    /\ \A s \in Statuses :
          /\ HasPre(t) => Returns[t]["pre"][s] \cap {"Again", "Busy"} = {}
          /\ Returns[t][LastAction(t)][s] \cap {"None", "Busy"} = {}

\* For such a handler the table is complete: whatever path a task takes - new,
\* back from upstream, resumed, from the timer, refused by a full pool - process()
\* finds a row and does not throw "State machine table is not complete".
TableComplete == TableIncomplete => ~KeepsContract(Task)

\* ThreadPoolImpl::post, whose failure would end the IO thread, always finds
\* room, although the limit is looked at only when a task enters EXECUTE and an
\* Again from the worker posts the job again without a look.
NoPoolOverflow == ~PostOverflows

\* stop(false), from SIGINT or SIGHUP: serve() returns once the requests it has
\* are answered, unless the stop is turned into a forced one.
GracefulStop == stop = "graceful" ~> (phase \in {"exit", "terminated"} \/ stop = "force")
=============================================================================
