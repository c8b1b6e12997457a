--------------------------- MODULE UpstreamManager ---------------------------
(***************************************************************************)
(* class UpstreamManager and its ConnItems (lib/graft/task.cpp), with the  *)
(* UpstreamSender and UpstreamStub objects that drive it                   *)
(* (lib/graft/connection.cpp).                                             *)
(*                                                                         *)
(* A ConnItem is a named upstream: a cap on its connections (0 means no    *)
(* cap), a keep-alive flag, the idle and the active connections, and a     *)
(* queue of tasks waiting for a connection.  Everything runs on the IO     *)
(* thread, but onDone() calls back into the task engine between counting   *)
(* the sender as done and releasing its connection, and the callback may   *)
(* call send() again: `finishing' keeps the position inside onDone().      *)
(*                                                                         *)
(* The code only ever compares m_cntUpstreamSender with                    *)
(* m_cntUpstreamSenderDone, so one variable holds their difference.  A     *)
(* ConnectionId is never reused and belongs to one mg_connection for its   *)
(* whole life: both are the same element of Conns.                         *)
(***************************************************************************)
EXTENDS Integers, Sequences, FiniteSets

CONSTANTS
    Tasks,            \* BaseTask objects that may be forwarded upstream
    Items,            \* the ConnItems: m_default and those of m_conn2item
    Conns,            \* mg_connection objects of keep-alive upstreams
    MaxConnections,   \* m_maxConnections of each item
    KeepAlive,        \* m_keepAlive of each item
    NoConn            \* nullptr

ASSUME ConstantsAssumption ==
    /\ MaxConnections \in [Items -> Nat]
    /\ KeepAlive \in [Items -> BOOLEAN]
    /\ NoConn \notin Conns
    /\ IsFiniteSet(Tasks)

VARIABLES
    connCnt,          \* m_connCnt of each item
    idle,             \* m_idleConnections of each item
    active,           \* m_activeConnections of each item
    taskQueue,        \* m_taskQueue of each item
    sender,           \* the live UpstreamSender of each task, as a set of at most one
    inFlight,         \* m_cntUpstreamSender - m_cntUpstreamSenderDone
    finishing         \* the onDone() call in progress

vars == <<connCnt, idle, active, taskQueue, sender, inFlight, finishing>>

-----------------------------------------------------------------------------

\* An UpstreamSender: the item it works for and its keep-alive connection.
Sender == [item : Items, conn : Conns \cup {NoConn}]

\* onDone() in progress: where it is, for which task, on which item, the
\* connection its sender used, and whether the event leaves it usable.
Stages == {"none", "callback", "dequeue"}
Finishing == [stage : Stages, task : Tasks, item : Items,
              conn : Conns \cup {NoConn}, ok : BOOLEAN]
NotFinishing == [stage |-> "none"]

Queued(t) == \E i \in Items : \E k \in DOMAIN taskQueue[i] : taskQueue[i][k] = t
Pending(t) == sender[t] # {} \/ Queued(t)

\* The connections some item holds.
UsedConns == UNION {idle[i] \cup active[i] : i \in Items}

\* The senders at work on an item.
SendersOf(i) == {t \in Tasks : \E s \in sender[t] : s.item = i}

-----------------------------------------------------------------------------

Init ==
    /\ connCnt = [i \in Items |-> 0]
    /\ idle = [i \in Items |-> {}]
    /\ active = [i \in Items |-> {}]
    /\ taskQueue = [i \in Items |-> <<>>]
    /\ sender = [t \in Tasks |-> {}]
    /\ inFlight = 0
    /\ finishing = NotFinishing

\* Faulty: an idle connection that is taken again is counted again.
GetConnectionCountsReuse(i, c) ==
    /\ active' = [active EXCEPT ![i] = @ \cup {c}]
    /\ connCnt' = [connCnt EXCEPT ![i] = @ + 1]
    /\ idle' = [idle EXCEPT ![i] = @ \ {c}]
    /\ c \in idle[i] \/ (idle[i] = {} /\ c \in Conns \ UsedConns)

\* Faulty: the new connection is looked for among the inactive ones only.
GetConnectionSharesActive(i, c) ==
    /\ active' = [active EXCEPT ![i] = @ \cup {c}]
    /\ idle' = [idle EXCEPT ![i] = @ \ {c}]
    /\ connCnt' = [connCnt EXCEPT ![i] = IF idle[i] = {} THEN @ + 1 ELSE @]
    /\ c \in idle[i] \/ idle[i] = {}

\* ConnItem::getConnection for a keep-alive item: an idle connection if there
\* is one, a new one otherwise; either way it becomes active.
GetConnection(i, c) ==
    /\ active' = [active EXCEPT ![i] = @ \cup {c}]
    /\ \/ /\ c \in idle[i]
          /\ idle' = [idle EXCEPT ![i] = @ \ {c}]
          /\ UNCHANGED connCnt
       \/ /\ idle[i] = {}
          /\ c \in Conns \ UsedConns
          /\ connCnt' = [connCnt EXCEPT ![i] = @ + 1]
          /\ UNCHANGED idle

\* createUpstreamSender and UpstreamSender::send.  Only a keep-alive item
\* takes a connection from the pool and counts it.
CreateUpstreamSender(i, t) ==
    /\ inFlight' = inFlight + 1
    /\ \/ /\ KeepAlive[i]
          /\ \E c \in Conns :
                /\ GetConnection(i, c)
                /\ sender' = [sender EXCEPT ![t] = {[item |-> i, conn |-> c]}]
       \/ /\ ~KeepAlive[i]
          /\ sender' = [sender EXCEPT ![t] = {[item |-> i, conn |-> NoConn]}]
          /\ UNCHANGED <<connCnt, idle, active>>

\* The condition under which send() queues the task.
Saturated(i) ==
    /\ MaxConnections[i] # 0
    /\ idle[i] = {}
    /\ connCnt[i] = MaxConnections[i]

\* send(), from an IO event or from the callback inside onDone().  The callback
\* sends at most the task whose answer it handles, and only on success.
Send(t, i) ==
    /\ \/ finishing.stage = "none"
       \/ finishing.stage = "callback" /\ finishing.task = t /\ finishing.ok
    /\ ~Pending(t)
    /\ \/ /\ Saturated(i)
          /\ taskQueue' = [taskQueue EXCEPT ![i] = Append(@, t)]
          /\ UNCHANGED <<connCnt, idle, active, sender, inFlight>>
       \/ /\ ~Saturated(i)
          /\ CreateUpstreamSender(i, t)
          /\ UNCHANGED taskQueue
    /\ UNCHANGED finishing

\* UpstreamSender::ev_handler: MG_EV_HTTP_REPLY is the success, a failed
\* MG_EV_CONNECT, MG_EV_CLOSE and MG_EV_TIMER are the failures.  The handler is
\* replaced, so a sender reports once; onDone() counts it before anything else.
Event(t, ok) ==
    /\ finishing.stage = "none"
    /\ \E s \in sender[t] :
          finishing' = [stage |-> "callback", task |-> t, item |-> s.item,
                        conn |-> s.conn, ok |-> ok]
    /\ sender' = [sender EXCEPT ![t] = {}]
    /\ inFlight' = inFlight - 1
    /\ UNCHANGED <<connCnt, idle, active, taskQueue>>

\* Faulty: a failed connection does not look at the queue.
ReleaseActiveForgetsQueue ==
    LET i == finishing.item IN
    /\ finishing.stage = "callback"
    /\ active' = [active EXCEPT ![i] = @ \ {finishing.conn}]
    /\ connCnt' = [connCnt EXCEPT ![i] = IF KeepAlive[i] /\ ~finishing.ok THEN @ - 1 ELSE @]
    /\ idle' = [idle EXCEPT ![i] = IF KeepAlive[i] /\ finishing.ok
                                   THEN @ \cup {finishing.conn} ELSE @]
    /\ finishing' = IF taskQueue[i] = <<>> \/ ~finishing.ok
                    THEN NotFinishing
                    ELSE [finishing EXCEPT !.stage = "dequeue"]
    /\ UNCHANGED <<taskQueue, sender, inFlight>>

\* The callback has returned: ConnItem::releaseActive, then the look at the
\* queue.  After a reply a keep-alive connection becomes idle, after a failure
\* it is gone.
ReleaseActive ==
    LET i == finishing.item IN
    /\ finishing.stage = "callback"
    /\ \/ /\ KeepAlive[i] /\ finishing.ok
          /\ idle' = [idle EXCEPT ![i] = @ \cup {finishing.conn}]
          /\ active' = [active EXCEPT ![i] = @ \ {finishing.conn}]
          /\ UNCHANGED connCnt
       \/ /\ KeepAlive[i] /\ ~finishing.ok
          /\ connCnt' = [connCnt EXCEPT ![i] = @ - 1]
          /\ active' = [active EXCEPT ![i] = @ \ {finishing.conn}]
          /\ UNCHANGED idle
       \/ /\ ~KeepAlive[i]
          /\ UNCHANGED <<connCnt, idle, active>>
    /\ finishing' = IF taskQueue[i] = <<>>
                    THEN NotFinishing
                    ELSE [finishing EXCEPT !.stage = "dequeue"]
    /\ UNCHANGED <<taskQueue, sender, inFlight>>

\* Faulty: a sender made for a queued task is not counted.
DequeueUncounted ==
    LET i == finishing.item
        t == Head(taskQueue[i])
    IN
    /\ finishing.stage = "dequeue"
    /\ \E c \in Conns : GetConnection(i, c) /\ sender' = [sender EXCEPT ![t] = {[item |-> i, conn |-> c]}]
    /\ taskQueue' = [taskQueue EXCEPT ![i] = Tail(@)]
    /\ finishing' = NotFinishing
    /\ UNCHANGED inFlight

\* Faulty: the task that got the sender stays in the queue.
DequeueKeepsFront ==
    /\ finishing.stage = "dequeue"
    /\ CreateUpstreamSender(finishing.item, Head(taskQueue[finishing.item]))
    /\ finishing' = NotFinishing
    /\ UNCHANGED taskQueue

\* The tail of onDone(): the front of the queue gets a sender.
Dequeue ==
    LET i == finishing.item IN
    /\ finishing.stage = "dequeue"
    /\ CreateUpstreamSender(i, Head(taskQueue[i]))
    /\ taskQueue' = [taskQueue EXCEPT ![i] = Tail(@)]
    /\ finishing' = NotFinishing

\* UpstreamStub::ev_handler on MG_EV_CLOSE: the peer closes an idle connection.
OnCloseIdle(i, c) ==
    /\ finishing.stage = "none"
    /\ c \in idle[i]
    /\ idle' = [idle EXCEPT ![i] = @ \ {c}]
    /\ connCnt' = [connCnt EXCEPT ![i] = @ - 1]
    /\ UNCHANGED <<active, taskQueue, sender, inFlight, finishing>>

\* UpstreamManager::busy
Busy == inFlight # 0

Next ==
    \/ \E t \in Tasks, i \in Items : Send(t, i)
    \/ \E t \in Tasks, ok \in BOOLEAN : Event(t, ok)
    \/ ReleaseActive
    \/ Dequeue
    \/ \E i \in Items, c \in Conns : OnCloseIdle(i, c)

Spec == Init /\ [][Next]_vars

\* The IO thread finishes the onDone() it is in, and every sender gets an event:
\* UpstreamSender::send arms a timer, so MG_EV_TIMER comes if nothing else does.
Fairness ==
    /\ WF_vars(ReleaseActive)
    /\ WF_vars(Dequeue)
    /\ \A t \in Tasks : SF_vars(\E ok \in BOOLEAN : Event(t, ok))

FairSpec == Spec /\ Fairness

-----------------------------------------------------------------------------

\* Every variable keeps its type; in particular no connection count of a
\* ConnItem goes below zero and a dequeue never meets an empty m_taskQueue.
TypeOK ==
    /\ connCnt \in [Items -> Nat]
    /\ idle \in [Items -> SUBSET Conns]
    /\ active \in [Items -> SUBSET Conns]
    /\ taskQueue \in [Items -> Seq(Tasks)]
    /\ sender \in [Tasks -> SUBSET Sender]
    /\ inFlight \in Nat
    /\ finishing \in Finishing \cup {NotFinishing}
    /\ finishing.stage = "dequeue" => taskQueue[finishing.item] # <<>>

\* The assertions of getConnection(): a keep-alive item counts exactly its idle
\* and its active connections, none of them is both, and a cap is kept, through
\* every order of sends, replies, failures and closed idle connections.
PoolAccounting ==
    \A i \in Items :
        /\ idle[i] \cap active[i] = {}
        /\ connCnt[i] = Cardinality(idle[i]) + Cardinality(active[i])
        /\ MaxConnections[i] # 0 => connCnt[i] <= MaxConnections[i]

\* A keep-alive connection carries one request at a time: no two senders share
\* one, a sender's connection is in m_activeConnections of its own item, and the
\* connection an onDone() is about to release is not used by a sender, although
\* the callback may already have sent again.
ConnectionExclusive ==
    /\ \A t1, t2 \in Tasks : \A s1 \in sender[t1], s2 \in sender[t2] :
          t1 # t2 /\ s1.conn # NoConn => s1.conn # s2.conn
    /\ \A t \in Tasks : \A s \in sender[t] :
          s.conn # NoConn => s.conn \in active[s.item]
    /\ finishing.stage = "callback" /\ KeepAlive[finishing.item] =>
          /\ finishing.conn \in active[finishing.item]
          /\ \A t \in Tasks : \A s \in sender[t] : s.conn # finishing.conn

\* No task waits in m_taskQueue while send() could have served it: outside the
\* moment in which onDone() is about to take one, an item with waiting tasks has
\* all its connections open and none idle.
WorkConserving ==
    \A i \in Items :
        taskQueue[i] # <<>> /\ ~(finishing.stage = "dequeue" /\ finishing.item = i)
            => Saturated(i)

\* canStop() relies on busy(): between two IO events the manager says it is not
\* busy exactly when no task is waiting or in flight, although busy() does not
\* look at the queues.
BusyIsExact ==
    finishing.stage = "none" => (Busy <=> \E t \in Tasks : Pending(t))

\* What the task engine relies on: every task handed over is reported exactly
\* once, and eventually.
Service == INSTANCE UpstreamService WITH pending <- {t \in Tasks : Pending(t)}
ImplementsService == Service!Spec
=============================================================================
