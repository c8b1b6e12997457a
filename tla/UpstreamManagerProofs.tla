------------------------ MODULE UpstreamManagerProofs ------------------------
(***************************************************************************)
(* The connection pools of UpstreamManager are accounted for exactly,      *)
(* connections are not shared, no task waits without need, and the manager *)
(* implements the safety part of UpstreamService, for any tasks, items,    *)
(* caps and connections.                                                   *)
(***************************************************************************)
EXTENDS UpstreamManager, FiniteSetTheorems, TLAPS

\* A connection belongs to one item, and the pools are finite.
PoolsDisjoint ==
    /\ \A i, j \in Items : i # j =>
          (idle[i] \cup active[i]) \cap (idle[j] \cup active[j]) = {}
    /\ \A i \in Items : IsFiniteSet(idle[i]) /\ IsFiniteSet(active[i])

\* An item without keep-alive has no pool, hence no queue.
PlainItems ==
    \A i \in Items : ~KeepAlive[i] =>
        /\ idle[i] = {} /\ active[i] = {} /\ connCnt[i] = 0 /\ taskQueue[i] = <<>>

\* A task has one sender, which has a connection exactly if its item keeps them;
\* the same holds for the connection that is being finished.
SenderKinds ==
    /\ \A t \in Tasks : \A s1, s2 \in sender[t] : s1 = s2
    /\ \A t \in Tasks : \A s \in sender[t] : KeepAlive[s.item] <=> s.conn # NoConn
    /\ finishing.stage # "none" => (KeepAlive[finishing.item] <=> finishing.conn # NoConn)

\* An active connection is used by a sender, or about to be released.
ActiveUsed ==
    \A i \in Items : \A c \in active[i] :
        \/ \E t \in Tasks : [item |-> i, conn |-> c] \in sender[t]
        \/ finishing.stage = "callback" /\ finishing.item = i /\ finishing.conn = c

\* When onDone() takes a task from the queue, the connection it has just released
\* is the only room there is.
OneFreed ==
    finishing.stage = "dequeue" =>
        LET i == finishing.item IN
        /\ MaxConnections[i] # 0
        /\ \/ idle[i] = {} /\ connCnt[i] = MaxConnections[i] - 1
           \/ idle[i] = {finishing.conn} /\ connCnt[i] = MaxConnections[i]

\* A task waits in one place of one queue, and has no sender meanwhile.
QueuedOnce ==
    /\ \A t \in Tasks : Queued(t) => sender[t] = {}
    /\ \A i, j \in Items : \A k \in DOMAIN taskQueue[i], l \in DOMAIN taskQueue[j] :
          taskQueue[i][k] = taskQueue[j][l] => i = j /\ k = l

\* m_cntUpstreamSender - m_cntUpstreamSenderDone is the number of senders.
Counted == inFlight = Cardinality({t \in Tasks : sender[t] # {}})

\* The inductive invariant: pools, senders and queues.
PoolInv == TypeOK /\ PoolAccounting /\ PoolsDisjoint /\ PlainItems
SenderInv == SenderKinds /\ ConnectionExclusive /\ ActiveUsed
QueueInv == WorkConserving /\ OneFreed /\ QueuedOnce
IInv == PoolInv /\ SenderInv /\ QueueInv /\ Counted

-----------------------------------------------------------------------------
(* Taking a connection                                                       *)

\* What getConnection() does to the pools when it is called with room for it.
LEMMA ConnectionTaken ==
    ASSUME IInv, NEW i \in Items, NEW c \in Conns, KeepAlive[i], GetConnection(i, c),
           MaxConnections[i] # 0 /\ idle[i] = {} => connCnt[i] # MaxConnections[i]
    PROVE  /\ connCnt' \in [Items -> Nat]
           /\ idle' \in [Items -> SUBSET Conns]
           /\ active' \in [Items -> SUBSET Conns]
           /\ active'[i] = active[i] \cup {c} /\ idle'[i] = idle[i] \ {c}
           /\ \A j \in Items : j # i => active'[j] = active[j] /\ idle'[j] = idle[j]
                                        /\ connCnt'[j] = connCnt[j]
           /\ connCnt'[i] = IF idle[i] = {} THEN connCnt[i] + 1 ELSE connCnt[i]
           /\ \A j \in Items : c \notin active[j]
           /\ PoolAccounting'
           /\ PoolsDisjoint'
<1>1. /\ connCnt \in [Items -> Nat] /\ idle \in [Items -> SUBSET Conns]
      /\ active \in [Items -> SUBSET Conns] /\ MaxConnections \in [Items -> Nat]
  BY ConstantsAssumption DEF IInv, PoolInv, TypeOK
<1>2. /\ active'[i] = active[i] \cup {c} /\ idle'[i] = idle[i] \ {c}
      /\ \A j \in Items : j # i => active'[j] = active[j] /\ idle'[j] = idle[j]
                                   /\ connCnt'[j] = connCnt[j]
      /\ connCnt'[i] = IF idle[i] = {} THEN connCnt[i] + 1 ELSE connCnt[i]
      /\ connCnt' \in [Items -> Nat] /\ idle' \in [Items -> SUBSET Conns]
      /\ active' \in [Items -> SUBSET Conns]
  BY <1>1 DEF GetConnection
<1>3. \A j \in Items : c \notin active[j]
  <2>1. CASE c \in idle[i]
    BY <2>1 DEF IInv, PoolInv, PoolAccounting, PoolsDisjoint
  <2>2. CASE c \notin idle[i]
    BY <2>2 DEF GetConnection, UsedConns
  <2> QED BY <2>1, <2>2
<1>4. \A j \in Items : j # i => c \notin idle[j]
  <2>1. CASE c \in idle[i]
    BY <2>1 DEF IInv, PoolInv, PoolsDisjoint
  <2>2. CASE c \notin idle[i]
    BY <2>2 DEF GetConnection, UsedConns
  <2> QED BY <2>1, <2>2
<1>5. PoolsDisjoint'
  <2>1. \A j \in Items : IsFiniteSet(idle'[j]) /\ IsFiniteSet(active'[j])
    <3>1. IsFiniteSet(idle[i]) /\ IsFiniteSet(active[i])
      BY DEF IInv, PoolInv, PoolsDisjoint
    <3>2. IsFiniteSet(active[i] \cup {c})
      BY <3>1, FS_AddElement
    <3>3. IsFiniteSet(idle[i] \ {c})
      BY <3>1, FS_RemoveElement
    <3> QED BY <1>2, <3>2, <3>3 DEF IInv, PoolInv, PoolsDisjoint
  <2>2. \A j, k \in Items : j # k =>
           (idle'[j] \cup active'[j]) \cap (idle'[k] \cup active'[k]) = {}
    BY <1>2, <1>3, <1>4 DEF IInv, PoolInv, PoolsDisjoint
  <2> QED BY <2>1, <2>2 DEF PoolsDisjoint
<1>6. PoolAccounting'
  <2>1. /\ idle[i] \cap active[i] = {}
        /\ connCnt[i] = Cardinality(idle[i]) + Cardinality(active[i])
        /\ MaxConnections[i] # 0 => connCnt[i] <= MaxConnections[i]
        /\ IsFiniteSet(idle[i]) /\ IsFiniteSet(active[i])
    BY DEF IInv, PoolInv, PoolAccounting, PoolsDisjoint
  <2>2. Cardinality(active'[i]) = Cardinality(active[i]) + 1
    <3>1. Cardinality(active[i] \cup {c})
             = IF c \in active[i] THEN Cardinality(active[i]) ELSE Cardinality(active[i]) + 1
      BY <2>1, FS_AddElement
    <3> QED BY <1>2, <1>3, <3>1
  <2>3. Cardinality(idle[i]) \in Nat /\ Cardinality(active[i]) \in Nat
    BY <2>1, FS_CardinalityType
  <2>4. connCnt'[i] = Cardinality(idle'[i]) + Cardinality(active'[i])
    <3>1. CASE c \in idle[i]
      <4>1. Cardinality(idle[i] \ {c})
               = IF c \in idle[i] THEN Cardinality(idle[i]) - 1 ELSE Cardinality(idle[i])
        BY <2>1, FS_RemoveElement
      <4>2. Cardinality(idle'[i]) = Cardinality(idle[i]) - 1
        BY <1>2, <3>1, <4>1
      <4> QED BY <1>2, <2>1, <2>2, <2>3, <3>1, <4>2
    <3>2. CASE c \notin idle[i]
      <4>1. idle'[i] = idle[i] /\ idle[i] = {}
        BY <3>2, <1>2 DEF GetConnection
      <4> QED BY <1>2, <2>1, <2>2, <2>3, <4>1
    <3> QED BY <3>1, <3>2
  <2>5. MaxConnections[i] # 0 => connCnt'[i] <= MaxConnections[i]
    BY <1>1, <1>2, <2>1
  <2>6. idle'[i] \cap active'[i] = {}
    BY <1>2, <2>1
  <2> QED BY <1>2, <2>4, <2>5, <2>6 DEF IInv, PoolInv, PoolAccounting
<1> QED BY <1>2, <1>3, <1>5, <1>6

-----------------------------------------------------------------------------
(* Making a sender                                                           *)

\* The onDone() in progress is for a task, an item and a connection.
LEMMA FinishingFacts ==
    ASSUME TypeOK
    PROVE  /\ finishing.stage \in Stages
           /\ finishing.stage # "none" =>
                 /\ finishing \in Finishing
                 /\ finishing.task \in Tasks /\ finishing.item \in Items
                 /\ finishing.conn \in Conns \cup {NoConn} /\ finishing.ok \in BOOLEAN
BY DEF TypeOK, Finishing, NotFinishing, Stages

\* A sender that is added or removed changes the count by one.
LEMMA SenderCount ==
    ASSUME NEW f \in [Tasks -> SUBSET Sender], NEW t \in Tasks, NEW S \in SUBSET Sender
    PROVE  LET g == [f EXCEPT ![t] = S]
               n == Cardinality({u \in Tasks : f[u] # {}})
               m == Cardinality({u \in Tasks : g[u] # {}})
           IN  /\ n \in Nat /\ m \in Nat
               /\ f[t] = {} /\ S # {} => m = n + 1
               /\ f[t] # {} /\ S = {} => m = n - 1
<1> DEFINE g == [f EXCEPT ![t] = S]
           F == {u \in Tasks : f[u] # {}}
           G == {u \in Tasks : g[u] # {}}
<1>1. IsFiniteSet(F) /\ IsFiniteSet(G)
  <2>1. F \in SUBSET Tasks /\ G \in SUBSET Tasks
    OBVIOUS
  <2> HIDE DEF F, G
  <2>2. IsFiniteSet(F)
    BY <2>1, ConstantsAssumption, FS_Subset
  <2>3. IsFiniteSet(G)
    BY <2>1, ConstantsAssumption, FS_Subset
  <2> QED BY <2>2, <2>3
<1>2. Cardinality(F) \in Nat /\ Cardinality(G) \in Nat
  <2> HIDE DEF F, G
  <2>1. Cardinality(F) \in Nat
    BY <1>1, FS_CardinalityType
  <2>2. Cardinality(G) \in Nat
    BY <1>1, FS_CardinalityType
  <2> QED BY <2>1, <2>2
<1>3. ASSUME f[t] = {}, S # {} PROVE Cardinality(G) = Cardinality(F) + 1
  <2>1. G = F \cup {t} /\ t \notin F
    BY <1>3
  <2> HIDE DEF F, G
  <2>2. Cardinality(F \cup {t}) = IF t \in F THEN Cardinality(F) ELSE Cardinality(F) + 1
    BY <1>1, FS_AddElement
  <2> QED BY <2>1, <2>2
<1>4. ASSUME f[t] # {}, S = {} PROVE Cardinality(G) = Cardinality(F) - 1
  <2>1. G = F \ {t} /\ t \in F
    BY <1>4
  <2> HIDE DEF F, G
  <2>2. Cardinality(F \ {t}) = IF t \in F THEN Cardinality(F) - 1 ELSE Cardinality(F)
    BY <1>1, FS_RemoveElement
  <2> QED BY <2>1, <2>2
<1> QED BY <1>2, <1>3, <1>4

\* createUpstreamSender, called by send() or at the end of onDone() with room for
\* a connection, keeps everything that is said about pools and senders.
LEMMA SenderCreated ==
    ASSUME IInv, NEW i \in Items, NEW t \in Tasks, sender[t] = {},
           CreateUpstreamSender(i, t),
           MaxConnections[i] # 0 /\ idle[i] = {} => connCnt[i] # MaxConnections[i],
           \/ finishing' = finishing
           \/ finishing' = NotFinishing /\ finishing.stage = "dequeue"
    PROVE  /\ connCnt' \in [Items -> Nat]
           /\ idle' \in [Items -> SUBSET Conns] /\ active' \in [Items -> SUBSET Conns]
           /\ sender' \in [Tasks -> SUBSET Sender] /\ inFlight' \in Nat
           /\ sender'[t] # {} /\ \A u \in Tasks : u # t => sender'[u] = sender[u]
           /\ \A j \in Items : j # i => active'[j] = active[j] /\ idle'[j] = idle[j]
                                        /\ connCnt'[j] = connCnt[j]
           /\ IF KeepAlive[i] THEN \E c \in Conns : GetConnection(i, c)
                              ELSE UNCHANGED <<connCnt, idle, active>>
           /\ PoolAccounting' /\ PoolsDisjoint' /\ SenderInv' /\ Counted'
<1>1. /\ connCnt \in [Items -> Nat] /\ idle \in [Items -> SUBSET Conns]
      /\ active \in [Items -> SUBSET Conns] /\ sender \in [Tasks -> SUBSET Sender]
      /\ inFlight \in Nat /\ NoConn \notin Conns
  BY ConstantsAssumption DEF IInv, PoolInv, TypeOK
<1>2. PICK s \in Sender :
         /\ sender' = [sender EXCEPT ![t] = {s}]
         /\ s.item = i
         /\ KeepAlive[i] => s.conn \in Conns /\ GetConnection(i, s.conn)
         /\ ~KeepAlive[i] => s.conn = NoConn /\ UNCHANGED <<connCnt, idle, active>>
         /\ s = [item |-> i, conn |-> s.conn]
  <2>1. CASE KeepAlive[i]
    <3>1. PICK c \in Conns : GetConnection(i, c)
                             /\ sender' = [sender EXCEPT ![t] = {[item |-> i, conn |-> c]}]
      BY <2>1 DEF CreateUpstreamSender
    <3> DEFINE r == [item |-> i, conn |-> c]
    <3>2. r \in Sender /\ r.item = i /\ r.conn = c
      BY DEF Sender
    <3> QED BY <2>1, <3>1, <3>2
  <2>2. CASE ~KeepAlive[i]
    <3> DEFINE r == [item |-> i, conn |-> NoConn]
    <3>1. r \in Sender /\ r.item = i /\ r.conn = NoConn
      BY DEF Sender
    <3>2. sender' = [sender EXCEPT ![t] = {r}] /\ UNCHANGED <<connCnt, idle, active>>
      BY <2>2 DEF CreateUpstreamSender
    <3> QED BY <2>2, <3>1, <3>2
  <2> QED BY <2>1, <2>2
<1>3. /\ sender' \in [Tasks -> SUBSET Sender]
      /\ sender'[t] = {s} /\ \A u \in Tasks : u # t => sender'[u] = sender[u]
  BY <1>1, <1>2
<1>4. /\ connCnt' \in [Items -> Nat]
      /\ idle' \in [Items -> SUBSET Conns] /\ active' \in [Items -> SUBSET Conns]
      /\ active'[i] = active[i] \cup ({s.conn} \ {NoConn})
      /\ \A j \in Items : j # i => active'[j] = active[j] /\ idle'[j] = idle[j]
                                   /\ connCnt'[j] = connCnt[j]
      /\ \A j \in Items : s.conn \notin active[j]
      /\ PoolAccounting' /\ PoolsDisjoint'
  <2>1. CASE KeepAlive[i]
    BY <1>1, <1>2, <2>1, ConnectionTaken
  <2>2. CASE ~KeepAlive[i]
    <3>1. UNCHANGED <<connCnt, idle, active>> /\ s.conn = NoConn
      BY <1>2, <2>2
    <3>2. PoolAccounting' /\ PoolsDisjoint'
      BY <3>1 DEF IInv, PoolInv, PoolAccounting, PoolsDisjoint
    <3> QED BY <1>1, <3>1, <3>2
  <2> QED BY <2>1, <2>2
<1>5. Counted' /\ inFlight' \in Nat
  <2>1. inFlight' = inFlight + 1
    BY DEF CreateUpstreamSender
  <2>2. Cardinality({u \in Tasks : sender'[u] # {}})
           = Cardinality({u \in Tasks : sender[u] # {}}) + 1
    <3>1. {s} \in SUBSET Sender /\ {s} # {}
      OBVIOUS
    <3>2. Cardinality({u \in Tasks : [sender EXCEPT ![t] = {s}][u] # {}})
             = Cardinality({u \in Tasks : sender[u] # {}}) + 1
      BY <1>1, <3>1, SenderCount
    <3> QED BY <1>2, <3>2
  <2> QED BY <1>1, <2>1, <2>2 DEF IInv, Counted
<1>6. SenderKinds'
  <2>1. \A u \in Tasks : \A s1, s2 \in sender'[u] : s1 = s2
    BY <1>3 DEF IInv, SenderInv, SenderKinds
  <2>2. \A u \in Tasks : \A r \in sender'[u] : KeepAlive[r.item] <=> r.conn # NoConn
    BY <1>1, <1>2, <1>3 DEF IInv, SenderInv, SenderKinds
  <2>3. finishing'.stage # "none" => (KeepAlive[finishing'.item] <=> finishing'.conn # NoConn)
    BY DEF IInv, SenderInv, SenderKinds, NotFinishing
  <2> QED BY <2>1, <2>2, <2>3 DEF SenderKinds
<1>7. ConnectionExclusive'
  <2>1. \A u \in Tasks : \A r \in sender[u] : r.item \in Items /\ (r.conn # NoConn => r.conn \in active[r.item])
    BY <1>1 DEF IInv, SenderInv, ConnectionExclusive, Sender
  <2>2. \A u \in Tasks : \A r \in sender[u] : s.conn # NoConn => r.conn # s.conn
    BY <1>4, <2>1
  <2>3. \A t1, t2 \in Tasks : \A s1 \in sender'[t1], s2 \in sender'[t2] :
           t1 # t2 /\ s1.conn # NoConn => s1.conn # s2.conn
    BY <1>3, <2>2 DEF IInv, SenderInv, ConnectionExclusive
  <2>4. \A u \in Tasks : \A r \in sender'[u] : r.conn # NoConn => r.conn \in active'[r.item]
    BY <1>2, <1>3, <1>4, <2>1
  <2>5. finishing'.stage = "callback" /\ KeepAlive[finishing'.item] =>
           /\ finishing'.conn \in active'[finishing'.item]
           /\ \A u \in Tasks : \A r \in sender'[u] : r.conn # finishing'.conn
    <3> SUFFICES ASSUME finishing'.stage = "callback", KeepAlive[finishing'.item]
                 PROVE  /\ finishing'.conn \in active'[finishing'.item]
                        /\ \A u \in Tasks : \A r \in sender'[u] : r.conn # finishing'.conn
      OBVIOUS
    <3>1. finishing' = finishing
      BY DEF NotFinishing
    <3>2. /\ finishing.conn \in active[finishing.item] /\ finishing.item \in Items
          /\ \A u \in Tasks : \A r \in sender[u] : r.conn # finishing.conn
      BY <3>1, FinishingFacts DEF IInv, PoolInv, SenderInv, ConnectionExclusive
    <3> QED BY <1>3, <1>4, <3>1, <3>2
  <2> QED BY <2>3, <2>4, <2>5 DEF ConnectionExclusive
<1>8. ActiveUsed'
  <2> SUFFICES ASSUME NEW j \in Items, NEW c \in active'[j]
               PROVE  \/ \E u \in Tasks : [item |-> j, conn |-> c] \in sender'[u]
                      \/ finishing'.stage = "callback" /\ finishing'.item = j /\ finishing'.conn = c
    BY DEF ActiveUsed
  <2>1. CASE c \in active[j]
    <3>1. CASE \E u \in Tasks : [item |-> j, conn |-> c] \in sender[u]
      BY <1>3, <3>1
    <3>2. CASE finishing.stage = "callback" /\ finishing.item = j /\ finishing.conn = c
      BY <3>2
    <3> QED BY <2>1, <3>1, <3>2 DEF IInv, SenderInv, ActiveUsed
  <2>2. CASE c \notin active[j]
    <3>1. j = i /\ c = s.conn
      BY <1>4, <2>2
    <3> QED BY <1>2, <1>3, <3>1
  <2> QED BY <2>1, <2>2
<1> QED BY <1>2, <1>3, <1>4, <1>5, <1>6, <1>7, <1>8 DEF SenderInv

-----------------------------------------------------------------------------
(* The queues                                                                *)

\* A task that waits nowhere goes to the end of a queue: afterwards the tasks
\* waiting are those of before and this one, each in one place.
LEMMA TaskQueued ==
    ASSUME TypeOK, QueuedOnce, NEW i \in Items, NEW t \in Tasks, ~Pending(t),
           taskQueue' = [taskQueue EXCEPT ![i] = Append(@, t)], UNCHANGED sender
    PROVE  /\ taskQueue' \in [Items -> Seq(Tasks)]
           /\ \A j \in Items : j # i => taskQueue'[j] = taskQueue[j]
           /\ taskQueue'[i] # <<>>
           /\ \A u \in Tasks : Queued(u)' <=> Queued(u) \/ u = t
           /\ QueuedOnce'
<1>1. taskQueue \in [Items -> Seq(Tasks)] /\ taskQueue[i] \in Seq(Tasks)
  BY DEF TypeOK
<1>2. /\ taskQueue'[i] = Append(taskQueue[i], t)
      /\ \A j \in Items : j # i => taskQueue'[j] = taskQueue[j]
  BY <1>1
<1>3. /\ Append(taskQueue[i], t) \in Seq(Tasks)
      /\ DOMAIN Append(taskQueue[i], t) = 1 .. Len(taskQueue[i]) + 1
      /\ DOMAIN taskQueue[i] = 1 .. Len(taskQueue[i])
      /\ Len(taskQueue[i]) \in Nat
      /\ \A k \in 1 .. Len(taskQueue[i]) : Append(taskQueue[i], t)[k] = taskQueue[i][k]
      /\ Append(taskQueue[i], t)[Len(taskQueue[i]) + 1] = t
      /\ Append(taskQueue[i], t) # <<>>
  BY <1>1
<1>4. taskQueue' \in [Items -> Seq(Tasks)]
  BY <1>1, <1>3
<1>5. ASSUME NEW u \in Tasks PROVE Queued(u)' <=> Queued(u) \/ u = t
  <2>1. ASSUME Queued(u) PROVE Queued(u)'
    <3>0. PICK j \in Items : \E k \in DOMAIN taskQueue[j] : taskQueue[j][k] = u
      BY <2>1 DEF Queued
    <3>1. PICK k \in DOMAIN taskQueue[j] : taskQueue[j][k] = u
      BY <3>0
    <3>2. k \in DOMAIN taskQueue'[j] /\ taskQueue'[j][k] = u
      BY <1>2, <1>3, <3>1
    <3> QED BY <3>2 DEF Queued
  <2>2. ASSUME u = t PROVE Queued(u)'
    <3>1. Len(taskQueue[i]) + 1 \in DOMAIN taskQueue'[i] /\ taskQueue'[i][Len(taskQueue[i]) + 1] = u
      BY <1>2, <1>3, <2>2
    <3> QED BY <3>1 DEF Queued
  <2>3. ASSUME Queued(u)', u # t PROVE Queued(u)
    <3>0. PICK j \in Items : \E k \in DOMAIN taskQueue'[j] : taskQueue'[j][k] = u
      BY <2>3 DEF Queued
    <3>1. PICK k \in DOMAIN taskQueue'[j] : taskQueue'[j][k] = u
      BY <3>0
    <3>2. k \in DOMAIN taskQueue[j] /\ taskQueue[j][k] = u
      BY <1>2, <1>3, <2>3, <3>1
    <3> QED BY <3>2 DEF Queued
  <2> QED BY <2>1, <2>2, <2>3
<1>6. \A u \in Tasks : Queued(u)' => sender'[u] = {}
  BY <1>5 DEF QueuedOnce, Pending
<1>7. ASSUME NEW j \in Items, NEW h \in Items,
             NEW k \in DOMAIN taskQueue'[j], NEW l \in DOMAIN taskQueue'[h],
             taskQueue'[j][k] = taskQueue'[h][l]
      PROVE  j = h /\ k = l
  <2>1. \A g \in Items : \A m \in DOMAIN taskQueue[g] : taskQueue[g][m] # t
    BY DEF Pending, Queued
  <2>2. \A g \in Items : \A m \in DOMAIN taskQueue'[g] :
           \/ g = i /\ m = Len(taskQueue[i]) + 1 /\ taskQueue'[g][m] = t
           \/ m \in DOMAIN taskQueue[g] /\ taskQueue'[g][m] = taskQueue[g][m]
    BY <1>2, <1>3
  <2> QED BY <1>7, <2>1, <2>2 DEF QueuedOnce
<1> QED BY <1>2, <1>3, <1>4, <1>5, <1>6, <1>7 DEF QueuedOnce

\* The front of a queue is taken and gets a sender.
LEMMA TaskDequeued ==
    ASSUME TypeOK, QueuedOnce, NEW i \in Items, taskQueue[i] # <<>>,
           taskQueue' = [taskQueue EXCEPT ![i] = Tail(@)],
           \A u \in Tasks : u # Head(taskQueue[i]) => sender'[u] = sender[u]
    PROVE  /\ taskQueue' \in [Items -> Seq(Tasks)]
           /\ \A j \in Items : j # i => taskQueue'[j] = taskQueue[j]
           /\ Head(taskQueue[i]) \in Tasks /\ Queued(Head(taskQueue[i]))
           /\ \A u \in Tasks : Queued(u)' <=> Queued(u) /\ u # Head(taskQueue[i])
           /\ QueuedOnce'
<1> DEFINE q == taskQueue[i]
           t == Head(q)
<1>1. taskQueue \in [Items -> Seq(Tasks)] /\ q \in Seq(Tasks) /\ q # <<>>
  BY DEF TypeOK
<1>2. /\ taskQueue'[i] = Tail(q)
      /\ \A j \in Items : j # i => taskQueue'[j] = taskQueue[j]
  BY <1>1
<1>3. /\ Tail(q) \in Seq(Tasks) /\ t \in Tasks /\ t = q[1]
      /\ Len(q) \in Nat \ {0}
      /\ DOMAIN q = 1 .. Len(q) /\ DOMAIN Tail(q) = 1 .. Len(q) - 1
      /\ \A k \in 1 .. Len(q) - 1 : Tail(q)[k] = q[k + 1]
  BY <1>1
<1> HIDE DEF t
<1>4. taskQueue' \in [Items -> Seq(Tasks)]
  BY <1>1, <1>3
<1>5. 1 \in DOMAIN q /\ Queued(t)
  BY <1>3 DEF Queued
<1>6. ASSUME NEW g \in Items, NEW m \in DOMAIN taskQueue'[g]
      PROVE  \/ g = i /\ m + 1 \in DOMAIN q /\ m \in Nat \ {0} /\ taskQueue'[g][m] = q[m + 1]
             \/ g # i /\ m \in DOMAIN taskQueue[g] /\ taskQueue'[g][m] = taskQueue[g][m]
  <2>1. CASE g = i
    <3>1. taskQueue'[g] = Tail(q) /\ m \in 1 .. Len(q) - 1
      BY <1>2, <1>3, <2>1
    <3>2. Tail(q)[m] = q[m + 1]
      BY <1>3, <3>1
    <3>3. m + 1 \in DOMAIN q /\ m \in Nat \ {0}
      BY <1>3, <3>1
    <3> HIDE DEF q
    <3> QED BY <2>1, <3>1, <3>2, <3>3
  <2>2. CASE g # i
    BY <1>2, <2>2
  <2> QED BY <2>1, <2>2
<1>7. ASSUME NEW u \in Tasks PROVE Queued(u)' <=> Queued(u) /\ u # t
  <2>1. ASSUME Queued(u)' PROVE Queued(u) /\ u # t
    <3>0. PICK j \in Items : \E k \in DOMAIN taskQueue'[j] : taskQueue'[j][k] = u
      BY <2>1 DEF Queued
    <3>1. PICK k \in DOMAIN taskQueue'[j] : taskQueue'[j][k] = u
      BY <3>0
    <3>2. CASE j = i
      <4>1. k + 1 \in DOMAIN q /\ k \in Nat \ {0} /\ q[k + 1] = u
        BY <1>6, <3>1, <3>2
      <4>2. u # t
        BY <1>3, <1>5, <4>1 DEF QueuedOnce
      <4> QED BY <4>1, <4>2 DEF Queued
    <3>3. CASE j # i
      <4>1. k \in DOMAIN taskQueue[j] /\ taskQueue[j][k] = u
        BY <1>6, <3>1, <3>3
      <4>2. u # t
        BY <1>3, <1>5, <3>3, <4>1 DEF QueuedOnce
      <4> QED BY <4>1, <4>2 DEF Queued
    <3> QED BY <3>2, <3>3
  <2>2. ASSUME Queued(u), u # t PROVE Queued(u)'
    <3>0. PICK j \in Items : \E k \in DOMAIN taskQueue[j] : taskQueue[j][k] = u
      BY <2>2 DEF Queued
    <3>1. PICK k \in DOMAIN taskQueue[j] : taskQueue[j][k] = u
      BY <3>0
    <3>2. CASE j = i
      <4>1. k \in 2 .. Len(q)
        BY <1>3, <2>2, <3>1, <3>2
      <4>2. k - 1 \in 1 .. Len(q) - 1 /\ (k - 1) + 1 = k
        BY <1>3, <4>1
      <4>3. Tail(q)[k - 1] = q[(k - 1) + 1]
        BY <1>3, <4>2
      <4>4. q[k] = u
        BY <3>1, <3>2
      <4>5. k - 1 \in DOMAIN taskQueue'[i] /\ taskQueue'[i][k - 1] = u
        <5> HIDE DEF q
        <5> QED BY <1>2, <1>3, <4>2, <4>3, <4>4
      <4> QED BY <4>5 DEF Queued
    <3>3. CASE j # i
      BY <1>2, <3>1, <3>3 DEF Queued
    <3> QED BY <3>2, <3>3
  <2> QED BY <2>1, <2>2
<1>8. \A u \in Tasks : Queued(u)' => sender'[u] = {}
  BY <1>7 DEF QueuedOnce, t
<1>9. ASSUME NEW j \in Items, NEW h \in Items,
             NEW k \in DOMAIN taskQueue'[j], NEW l \in DOMAIN taskQueue'[h],
             taskQueue'[j][k] = taskQueue'[h][l]
      PROVE  j = h /\ k = l
  <2>1. CASE j = i /\ h = i
    <3>1. /\ k + 1 \in DOMAIN q /\ l + 1 \in DOMAIN q /\ k \in Nat /\ l \in Nat
          /\ q[k + 1] = q[l + 1]
      BY <1>6, <1>9, <2>1
    <3>2. k + 1 = l + 1
      BY <3>1 DEF QueuedOnce
    <3> QED BY <2>1, <3>1, <3>2
  <2>2. CASE j = i /\ h # i
    BY <1>6, <1>9, <2>2 DEF QueuedOnce
  <2>3. CASE j # i /\ h = i
    BY <1>6, <1>9, <2>3 DEF QueuedOnce
  <2>4. CASE j # i /\ h # i
    BY <1>6, <1>9, <2>4 DEF QueuedOnce
  <2> QED BY <2>1, <2>2, <2>3, <2>4
<1> QED BY <1>2, <1>3, <1>4, <1>5, <1>7, <1>8, <1>9 DEF QueuedOnce, t

-----------------------------------------------------------------------------
(* The steps                                                                 *)

\* send() with all connections of the item in use: the task waits.
LEMMA StepSendQueues ==
    ASSUME IInv, NEW t \in Tasks, NEW i \in Items, Send(t, i), Saturated(i)
    PROVE  IInv'
<1>1. /\ finishing.stage \in {"none", "callback"} /\ ~Pending(t)
      /\ taskQueue' = [taskQueue EXCEPT ![i] = Append(@, t)]
      /\ UNCHANGED <<connCnt, idle, active, sender, inFlight, finishing>>
  BY DEF Send
<1>2. TypeOK /\ QueuedOnce /\ PlainItems /\ WorkConserving
  BY DEF IInv, PoolInv, QueueInv
<1>3. /\ taskQueue' \in [Items -> Seq(Tasks)]
      /\ \A j \in Items : j # i => taskQueue'[j] = taskQueue[j]
      /\ QueuedOnce'
  BY <1>1, <1>2, TaskQueued
<1>4. TypeOK'
  BY <1>1, <1>2, <1>3 DEF TypeOK
<1>5. PoolAccounting' /\ PoolsDisjoint' /\ Counted'
  BY <1>1 DEF IInv, PoolInv, PoolAccounting, PoolsDisjoint, Counted
<1>6. PlainItems'
  <2>1. KeepAlive[i]
    BY <1>2 DEF PlainItems, Saturated
  <2> QED BY <1>1, <1>2, <1>3, <2>1 DEF PlainItems
<1>7. SenderInv'
  BY <1>1 DEF IInv, SenderInv, SenderKinds, ConnectionExclusive, ActiveUsed
<1>8. WorkConserving'
  BY <1>1, <1>2, <1>3 DEF WorkConserving, Saturated
<1>9. OneFreed'
  BY <1>1 DEF OneFreed
<1> QED BY <1>3, <1>4, <1>5, <1>6, <1>7, <1>8, <1>9 DEF IInv, PoolInv, QueueInv

\* send() with room: the task gets a sender at once.
LEMMA StepSendCreates ==
    ASSUME IInv, NEW t \in Tasks, NEW i \in Items, Send(t, i), ~Saturated(i)
    PROVE  IInv'
<1>1. /\ finishing.stage \in {"none", "callback"} /\ ~Pending(t)
      /\ CreateUpstreamSender(i, t)
      /\ UNCHANGED <<taskQueue, finishing>>
  BY DEF Send
<1>2. TypeOK /\ QueuedOnce /\ PlainItems /\ WorkConserving
  BY DEF IInv, PoolInv, QueueInv
<1>3. sender[t] = {} /\ (MaxConnections[i] # 0 /\ idle[i] = {} => connCnt[i] # MaxConnections[i])
  BY <1>1 DEF Pending, Saturated
<1>4. finishing' = finishing
  BY <1>1
<1>5. /\ connCnt' \in [Items -> Nat]
      /\ idle' \in [Items -> SUBSET Conns] /\ active' \in [Items -> SUBSET Conns]
      /\ sender' \in [Tasks -> SUBSET Sender] /\ inFlight' \in Nat
      /\ \A u \in Tasks : u # t => sender'[u] = sender[u]
      /\ \A j \in Items : j # i => active'[j] = active[j] /\ idle'[j] = idle[j]
                                   /\ connCnt'[j] = connCnt[j]
      /\ ~KeepAlive[i] => UNCHANGED <<connCnt, idle, active>>
      /\ PoolAccounting' /\ PoolsDisjoint' /\ SenderInv' /\ Counted'
  BY <1>1, <1>3, <1>4, SenderCreated
<1>6. TypeOK'
  BY <1>1, <1>2, <1>5 DEF TypeOK
<1>7. PlainItems'
  BY <1>1, <1>2, <1>5 DEF PlainItems
<1>8. taskQueue[i] = <<>>
  BY <1>1, <1>2 DEF WorkConserving
<1>9. WorkConserving'
  BY <1>1, <1>2, <1>5, <1>8 DEF WorkConserving, Saturated
<1>10. OneFreed'
  BY <1>1 DEF OneFreed
<1>11. QueuedOnce'
  <2>1. \A u \in Tasks : Queued(u)' => Queued(u) /\ u # t
    BY <1>1 DEF Queued, Pending
  <2>2. \A u \in Tasks : Queued(u)' => sender'[u] = {}
    BY <1>2, <1>5, <2>1 DEF QueuedOnce
  <2> QED BY <1>1, <1>2, <2>2 DEF QueuedOnce
<1> QED BY <1>5, <1>6, <1>7, <1>9, <1>10, <1>11 DEF IInv, PoolInv, QueueInv

\* An event ends a sender: from now on onDone() holds its connection.
LEMMA StepEvent ==
    ASSUME IInv, NEW t \in Tasks, NEW ok \in BOOLEAN, Event(t, ok)
    PROVE  IInv'
<1>1. PICK s \in sender[t] : finishing' = [stage |-> "callback", task |-> t, item |-> s.item,
                                           conn |-> s.conn, ok |-> ok]
  BY DEF Event
<1>2. /\ finishing.stage = "none"
      /\ sender' = [sender EXCEPT ![t] = {}]
      /\ inFlight' = inFlight - 1
      /\ UNCHANGED <<connCnt, idle, active, taskQueue>>
  BY DEF Event
<1>3. /\ TypeOK /\ SenderKinds /\ ConnectionExclusive /\ ActiveUsed /\ WorkConserving
      /\ QueuedOnce /\ Counted /\ PlainItems
  BY DEF IInv, PoolInv, SenderInv, QueueInv
<1>4. /\ sender \in [Tasks -> SUBSET Sender] /\ inFlight \in Nat
      /\ s \in Sender /\ s.item \in Items /\ s.conn \in Conns \cup {NoConn}
      /\ NoConn \notin Conns
  BY <1>3, ConstantsAssumption DEF TypeOK, Sender
<1>5. /\ sender' \in [Tasks -> SUBSET Sender] /\ sender'[t] = {}
      /\ \A u \in Tasks : u # t => sender'[u] = sender[u]
  BY <1>2, <1>4
<1>6. Counted' /\ inFlight' \in Nat
  <2>1. {} \in SUBSET Sender /\ sender[t] # {}
    OBVIOUS
  <2>2. /\ Cardinality({u \in Tasks : [sender EXCEPT ![t] = {}][u] # {}})
           = Cardinality({u \in Tasks : sender[u] # {}}) - 1
        /\ Cardinality({u \in Tasks : [sender EXCEPT ![t] = {}][u] # {}}) \in Nat
    BY <1>4, <2>1, SenderCount
  <2> QED BY <1>2, <1>3, <2>2 DEF Counted
<1>7. finishing' \in Finishing /\ finishing'.stage = "callback"
      /\ finishing'.item = s.item /\ finishing'.conn = s.conn
  BY <1>1, <1>4 DEF Finishing, Stages
<1>8. TypeOK'
  BY <1>2, <1>3, <1>5, <1>6, <1>7 DEF TypeOK
<1>9. PoolAccounting' /\ PoolsDisjoint' /\ PlainItems'
  BY <1>2 DEF IInv, PoolInv, PoolAccounting, PoolsDisjoint, PlainItems
<1>10. SenderKinds'
  BY <1>3, <1>5, <1>7 DEF SenderKinds
<1>11. ConnectionExclusive'
  <2>1. \A t1, t2 \in Tasks : \A s1 \in sender'[t1], s2 \in sender'[t2] :
           t1 # t2 /\ s1.conn # NoConn => s1.conn # s2.conn
    BY <1>3, <1>5 DEF ConnectionExclusive
  <2>2. \A u \in Tasks : \A r \in sender'[u] : r.conn # NoConn => r.conn \in active'[r.item]
    BY <1>2, <1>3, <1>5 DEF ConnectionExclusive
  <2>3. ASSUME KeepAlive[s.item]
        PROVE  s.conn \in active[s.item] /\ \A u \in Tasks : \A r \in sender'[u] : r.conn # s.conn
    BY <1>3, <1>5, <2>3 DEF ConnectionExclusive, SenderKinds
  <2> QED BY <1>2, <1>7, <2>1, <2>2, <2>3 DEF ConnectionExclusive
<1>12. ActiveUsed'
  <2> SUFFICES ASSUME NEW j \in Items, NEW c \in active'[j]
               PROVE  \/ \E u \in Tasks : [item |-> j, conn |-> c] \in sender'[u]
                      \/ finishing'.stage = "callback" /\ finishing'.item = j /\ finishing'.conn = c
    BY DEF ActiveUsed
  <2>1. PICK u \in Tasks : [item |-> j, conn |-> c] \in sender[u]
    BY <1>2, <1>3 DEF ActiveUsed
  <2>2. CASE u = t
    <3>1. s = [item |-> j, conn |-> c]
      BY <1>3, <2>1, <2>2 DEF SenderKinds
    <3> QED BY <1>7, <3>1
  <2>3. CASE u # t
    BY <1>5, <2>1, <2>3
  <2> QED BY <2>2, <2>3
<1>13. WorkConserving' /\ OneFreed'
  BY <1>2, <1>3, <1>7 DEF WorkConserving, OneFreed, Saturated
<1>14. QueuedOnce'
  BY <1>2, <1>3, <1>5 DEF QueuedOnce, Queued
<1> QED BY <1>6, <1>8, <1>9, <1>10, <1>11, <1>12, <1>13, <1>14
        DEF IInv, PoolInv, SenderInv, QueueInv

\* releaseActive() moves a connection from the active to the idle ones or drops
\* it, and the pools stay accounted for.
LEMMA ConnectionReleased ==
    ASSUME IInv, finishing.stage = "callback", KeepAlive[finishing.item], ReleaseActive
    PROVE  LET i == finishing.item IN
           /\ connCnt' \in [Items -> Nat]
           /\ idle' \in [Items -> SUBSET Conns] /\ active' \in [Items -> SUBSET Conns]
           /\ active'[i] = active[i] \ {finishing.conn}
           /\ \/ idle'[i] = idle[i] \cup {finishing.conn} /\ connCnt'[i] = connCnt[i]
              \/ idle'[i] = idle[i] /\ connCnt'[i] = connCnt[i] - 1
           /\ \A j \in Items : j # i => active'[j] = active[j] /\ idle'[j] = idle[j]
                                        /\ connCnt'[j] = connCnt[j]
           /\ PoolAccounting' /\ PoolsDisjoint'
<1> DEFINE i == finishing.item
           c == finishing.conn
<1>1. /\ connCnt \in [Items -> Nat] /\ idle \in [Items -> SUBSET Conns]
      /\ active \in [Items -> SUBSET Conns] /\ MaxConnections \in [Items -> Nat]
      /\ i \in Items /\ c \in active[i] /\ c \in Conns /\ finishing.ok \in BOOLEAN
  <2>1. TypeOK /\ ConnectionExclusive
    BY DEF IInv, PoolInv, SenderInv
  <2>2. i \in Items /\ finishing.ok \in BOOLEAN
    BY <2>1, FinishingFacts
  <2> QED BY <2>1, <2>2, ConstantsAssumption DEF TypeOK, ConnectionExclusive
<1>2. /\ idle[i] \cap active[i] = {}
      /\ connCnt[i] = Cardinality(idle[i]) + Cardinality(active[i])
      /\ MaxConnections[i] # 0 => connCnt[i] <= MaxConnections[i]
      /\ IsFiniteSet(idle[i]) /\ IsFiniteSet(active[i])
  BY <1>1 DEF IInv, PoolInv, PoolAccounting, PoolsDisjoint
<1>3. \/ /\ finishing.ok
         /\ idle' = [idle EXCEPT ![i] = @ \cup {c}]
         /\ active' = [active EXCEPT ![i] = @ \ {c}]
         /\ connCnt' = connCnt
      \/ /\ ~finishing.ok
         /\ connCnt' = [connCnt EXCEPT ![i] = @ - 1]
         /\ active' = [active EXCEPT ![i] = @ \ {c}]
         /\ idle' = idle
  BY DEF ReleaseActive
<1> HIDE DEF i, c
<1>4. /\ Cardinality(idle[i]) \in Nat /\ Cardinality(active[i]) \in Nat
      /\ Cardinality(active[i]) # 0
  <2>1. Cardinality(idle[i]) \in Nat
    BY <1>2, FS_CardinalityType
  <2>2. Cardinality(active[i]) \in Nat
    BY <1>2, FS_CardinalityType
  <2>3. Cardinality(active[i]) # 0
    BY <1>1, <1>2, FS_EmptySet
  <2> QED BY <2>1, <2>2, <2>3
<1>5. connCnt[i] - 1 \in Nat
  BY <1>2, <1>4
<1>6. /\ connCnt' \in [Items -> Nat]
      /\ idle' \in [Items -> SUBSET Conns] /\ active' \in [Items -> SUBSET Conns]
      /\ active'[i] = active[i] \ {c}
      /\ \/ idle'[i] = idle[i] \cup {c} /\ connCnt'[i] = connCnt[i]
         \/ idle'[i] = idle[i] /\ connCnt'[i] = connCnt[i] - 1
      /\ \A j \in Items : j # i => active'[j] = active[j] /\ idle'[j] = idle[j]
                                   /\ connCnt'[j] = connCnt[j]
  BY <1>1, <1>3, <1>5
<1>7. /\ IsFiniteSet(active[i] \ {c})
      /\ Cardinality(active[i] \ {c})
           = IF c \in active[i] THEN Cardinality(active[i]) - 1 ELSE Cardinality(active[i])
  BY <1>2, FS_RemoveElement
<1>8. /\ IsFiniteSet(idle[i] \cup {c})
      /\ Cardinality(idle[i] \cup {c})
           = IF c \in idle[i] THEN Cardinality(idle[i]) ELSE Cardinality(idle[i]) + 1
  BY <1>2, FS_AddElement
<1>9. c \notin idle[i]
  BY <1>1, <1>2
<1>10. PoolAccounting'
  <2>1. /\ idle'[i] \cap active'[i] = {}
        /\ MaxConnections[i] # 0 => connCnt'[i] <= MaxConnections[i]
    BY <1>1, <1>2, <1>6
  <2>2. CASE idle'[i] = idle[i] \cup {c} /\ connCnt'[i] = connCnt[i]
    <3>1. connCnt'[i] = Cardinality(idle'[i]) + Cardinality(active'[i])
      BY <1>1, <1>2, <1>4, <1>6, <1>7, <1>8, <1>9, <2>2
    <3> QED BY <1>6, <2>1, <3>1 DEF IInv, PoolInv, PoolAccounting
  <2>3. CASE idle'[i] = idle[i] /\ connCnt'[i] = connCnt[i] - 1
    <3>1. connCnt'[i] = Cardinality(idle'[i]) + Cardinality(active'[i])
      BY <1>1, <1>2, <1>4, <1>6, <1>7, <2>3
    <3> QED BY <1>6, <2>1, <3>1 DEF IInv, PoolInv, PoolAccounting
  <2> QED BY <1>6, <2>2, <2>3
<1>11. PoolsDisjoint'
  <2>1. \A j \in Items : IsFiniteSet(idle'[j]) /\ IsFiniteSet(active'[j])
    BY <1>2, <1>6, <1>7, <1>8 DEF IInv, PoolInv, PoolsDisjoint
  <2>2. \A j \in Items : idle'[j] \cup active'[j] \subseteq idle[j] \cup active[j]
    BY <1>1, <1>6
  <2> QED BY <2>1, <2>2 DEF IInv, PoolInv, PoolsDisjoint
<1> QED BY <1>6, <1>10, <1>11 DEF i, c

\* releaseActive() and the look at the queue.
LEMMA StepReleaseActive ==
    ASSUME IInv, ReleaseActive
    PROVE  IInv'
<1> DEFINE i == finishing.item
           c == finishing.conn
<1>1. /\ finishing.stage = "callback"
      /\ finishing' = IF taskQueue[i] = <<>> THEN NotFinishing
                      ELSE [finishing EXCEPT !.stage = "dequeue"]
      /\ UNCHANGED <<taskQueue, sender, inFlight>>
      /\ ~KeepAlive[i] => UNCHANGED <<connCnt, idle, active>>
  BY DEF ReleaseActive
<1>2. /\ TypeOK /\ SenderKinds /\ ConnectionExclusive /\ ActiveUsed /\ WorkConserving
      /\ QueuedOnce /\ Counted /\ PlainItems /\ PoolAccounting /\ PoolsDisjoint
  BY DEF IInv, PoolInv, SenderInv, QueueInv
<1>3. finishing \in Finishing /\ i \in Items /\ c \in Conns \cup {NoConn}
  BY <1>1, <1>2, FinishingFacts
<1>4. /\ connCnt' \in [Items -> Nat]
      /\ idle' \in [Items -> SUBSET Conns] /\ active' \in [Items -> SUBSET Conns]
      /\ active'[i] = active[i] \ {c}
      /\ KeepAlive[i] => \/ idle'[i] = idle[i] \cup {c} /\ connCnt'[i] = connCnt[i]
                         \/ idle'[i] = idle[i] /\ connCnt'[i] = connCnt[i] - 1
      /\ \A j \in Items : j # i => active'[j] = active[j] /\ idle'[j] = idle[j]
                                   /\ connCnt'[j] = connCnt[j]
      /\ PoolAccounting' /\ PoolsDisjoint'
  <2>1. CASE KeepAlive[i]
    BY <1>1, <2>1, ConnectionReleased
  <2>2. CASE ~KeepAlive[i]
    <3>1. UNCHANGED <<connCnt, idle, active>> /\ active[i] = {}
      BY <1>1, <1>2, <1>3, <2>2 DEF PlainItems
    <3>2. PoolAccounting' /\ PoolsDisjoint'
      BY <1>2, <3>1 DEF PoolAccounting, PoolsDisjoint
    <3> QED BY <1>2, <2>2, <3>1, <3>2 DEF TypeOK
  <2> QED BY <2>1, <2>2
<1>5. /\ finishing' \in Finishing \cup {NotFinishing}
      /\ finishing'.stage # "callback"
      /\ finishing'.stage = "dequeue" <=> taskQueue[i] # <<>>
      /\ finishing'.stage # "none" => finishing'.item = i /\ finishing'.conn = c
  BY <1>1, <1>3 DEF Finishing, NotFinishing, Stages
<1> HIDE DEF i, c
<1>6. TypeOK'
  BY <1>1, <1>2, <1>4, <1>5 DEF TypeOK, Stages
<1>7. PlainItems'
  BY <1>1, <1>2, <1>4 DEF PlainItems
<1>8. SenderKinds'
  <2>1. KeepAlive[i] <=> c # NoConn
    BY <1>1, <1>2 DEF SenderKinds, i, c
  <2> QED BY <1>1, <1>2, <1>5, <2>1 DEF SenderKinds
<1>9. ConnectionExclusive'
  <2>1. ASSUME NEW u \in Tasks, NEW r \in sender[u], r.conn # NoConn
        PROVE  r.conn \in active'[r.item]
    <3>1. r.item \in Items /\ r.conn \in active[r.item]
      BY <1>2, <2>1 DEF TypeOK, Sender, ConnectionExclusive
    <3>2. KeepAlive[i] => r.conn # c
      BY <1>1, <1>2 DEF ConnectionExclusive, i, c
    <3>3. ~KeepAlive[i] => active' = active
      BY <1>1
    <3> QED BY <1>4, <3>1, <3>2, <3>3
  <2> QED BY <1>1, <1>2, <1>5, <2>1 DEF ConnectionExclusive
<1>10. ActiveUsed'
  <2> SUFFICES ASSUME NEW j \in Items, NEW d \in active'[j]
               PROVE  \E u \in Tasks : [item |-> j, conn |-> d] \in sender'[u]
    BY DEF ActiveUsed
  <2>1. d \in active[j] /\ ~(j = i /\ d = c)
    BY <1>3, <1>4
  <2> QED BY <1>1, <1>2, <2>1 DEF ActiveUsed, i, c
<1>11. ASSUME NEW j \in Items, taskQueue[j] # <<>> PROVE Saturated(j)
  BY <1>1, <1>2, <1>11 DEF WorkConserving
<1>12. WorkConserving'
  BY <1>1, <1>4, <1>5, <1>11 DEF WorkConserving, Saturated
<1>13. OneFreed'
  <2> SUFFICES ASSUME finishing'.stage = "dequeue"
               PROVE  /\ MaxConnections[i] # 0
                      /\ \/ idle'[i] = {} /\ connCnt'[i] = MaxConnections[i] - 1
                         \/ idle'[i] = {c} /\ connCnt'[i] = MaxConnections[i]
    BY <1>5 DEF OneFreed
  <2>1. taskQueue[i] # <<>> /\ Saturated(i)
    BY <1>3, <1>5, <1>11 DEF i
  <2>2. KeepAlive[i]
    BY <1>2, <1>3, <2>1 DEF PlainItems, i
  <2> QED BY <1>4, <2>1, <2>2 DEF Saturated
<1>14. QueuedOnce' /\ Counted'
  BY <1>1, <1>2 DEF QueuedOnce, Queued, Counted
<1> QED BY <1>4, <1>6, <1>7, <1>8, <1>9, <1>10, <1>12, <1>13, <1>14
        DEF IInv, PoolInv, SenderInv, QueueInv

\* The tail of onDone(): the connection that was released is taken again.
LEMMA StepDequeue ==
    ASSUME IInv, Dequeue
    PROVE  IInv'
<1>0. PICK i \in Items : i = finishing.item
  BY FinishingFacts DEF IInv, PoolInv, Dequeue
<1> DEFINE t == Head(taskQueue[i])
<1>1. /\ finishing.stage = "dequeue"
      /\ CreateUpstreamSender(i, t)
      /\ taskQueue' = [taskQueue EXCEPT ![i] = Tail(@)]
      /\ finishing' = NotFinishing
  BY <1>0 DEF Dequeue
<1>2. /\ TypeOK /\ SenderKinds /\ WorkConserving /\ OneFreed /\ QueuedOnce /\ PlainItems
  BY DEF IInv, PoolInv, SenderInv, QueueInv
<1>3. i \in Items /\ taskQueue[i] # <<>> /\ KeepAlive[i]
      /\ MaxConnections[i] \in Nat /\ connCnt[i] \in Nat
  BY <1>0, <1>1, <1>2, ConstantsAssumption DEF TypeOK, PlainItems
<1>4. /\ MaxConnections[i] # 0
      /\ \/ idle[i] = {} /\ connCnt[i] = MaxConnections[i] - 1
         \/ idle[i] = {finishing.conn} /\ connCnt[i] = MaxConnections[i]
  BY <1>0, <1>1, <1>2 DEF OneFreed
<1>5. t \in Tasks /\ Queued(t) /\ sender[t] = {}
  <2>1. /\ taskQueue[i] \in Seq(Tasks)
    BY <1>2, <1>3 DEF TypeOK
  <2>2. t \in Tasks /\ 1 \in DOMAIN taskQueue[i] /\ taskQueue[i][1] = t
    BY <1>3, <2>1
  <2>3. Queued(t)
    BY <1>3, <2>2 DEF Queued
  <2> QED BY <1>2, <2>2, <2>3 DEF QueuedOnce
<1> HIDE DEF t
<1>6. ASSUME idle[i] = {} PROVE connCnt[i] # MaxConnections[i]
  <2>1. connCnt[i] = MaxConnections[i] - 1
    BY <1>4, <1>6
  <2> QED BY <1>3, <2>1
<1>7. /\ connCnt' \in [Items -> Nat]
      /\ idle' \in [Items -> SUBSET Conns] /\ active' \in [Items -> SUBSET Conns]
      /\ sender' \in [Tasks -> SUBSET Sender] /\ inFlight' \in Nat
      /\ sender'[t] # {} /\ \A u \in Tasks : u # t => sender'[u] = sender[u]
      /\ \A j \in Items : j # i => active'[j] = active[j] /\ idle'[j] = idle[j]
                                   /\ connCnt'[j] = connCnt[j]
      /\ \E c \in Conns : GetConnection(i, c)
      /\ PoolAccounting' /\ PoolsDisjoint' /\ SenderInv' /\ Counted'
  BY <1>1, <1>3, <1>5, <1>6, SenderCreated
<1>8. /\ taskQueue' \in [Items -> Seq(Tasks)]
      /\ \A j \in Items : j # i => taskQueue'[j] = taskQueue[j]
      /\ QueuedOnce'
  BY <1>1, <1>2, <1>3, <1>7, TaskDequeued DEF t
<1>9. TypeOK'
  BY <1>1, <1>7, <1>8 DEF TypeOK, NotFinishing
<1>10. PlainItems'
  BY <1>2, <1>3, <1>7, <1>8 DEF PlainItems
<1>11. WorkConserving'
  <2>1. Saturated(i)'
    <3>1. PICK c \in Conns : GetConnection(i, c)
      BY <1>7
    <3>2. /\ idle \in [Items -> SUBSET Conns] /\ connCnt \in [Items -> Nat]
      BY <1>2 DEF TypeOK
    <3>3. CASE idle[i] = {} /\ connCnt[i] = MaxConnections[i] - 1
      <4>1. idle' = idle /\ connCnt' = [connCnt EXCEPT ![i] = @ + 1]
        BY <3>1, <3>3 DEF GetConnection
      <4>2. idle'[i] = {} /\ connCnt'[i] = connCnt[i] + 1
        BY <3>2, <3>3, <4>1
      <4> QED BY <1>3, <1>4, <3>3, <4>2 DEF Saturated
    <3>4. CASE idle[i] = {finishing.conn} /\ connCnt[i] = MaxConnections[i]
      <4>1. c \in idle[i] /\ idle' = [idle EXCEPT ![i] = @ \ {c}] /\ connCnt' = connCnt
        BY <3>1, <3>4 DEF GetConnection
      <4>2. idle'[i] = {}
        BY <3>2, <3>4, <4>1
      <4> QED BY <1>3, <1>4, <3>4, <4>1, <4>2 DEF Saturated
    <3> QED BY <1>4, <3>3, <3>4
  <2>2. ASSUME NEW j \in Items, j # i, taskQueue[j] # <<>> PROVE Saturated(j)'
    BY <1>0, <1>1, <1>2, <1>7, <2>2 DEF WorkConserving, Saturated
  <2> QED BY <1>8, <2>1, <2>2 DEF WorkConserving
<1>12. OneFreed'
  BY <1>1 DEF OneFreed, NotFinishing
<1> QED BY <1>7, <1>8, <1>9, <1>10, <1>11, <1>12 DEF IInv, PoolInv, QueueInv

\* onCloseIdle(): an idle connection goes, and no task was waiting for it.
LEMMA StepOnCloseIdle ==
    ASSUME IInv, NEW i \in Items, NEW c \in Conns, OnCloseIdle(i, c)
    PROVE  IInv'
<1>1. /\ finishing.stage = "none" /\ c \in idle[i]
      /\ idle' = [idle EXCEPT ![i] = @ \ {c}]
      /\ connCnt' = [connCnt EXCEPT ![i] = @ - 1]
      /\ UNCHANGED <<active, taskQueue, sender, inFlight, finishing>>
  BY DEF OnCloseIdle
<1>2. /\ TypeOK /\ PoolAccounting /\ PoolsDisjoint /\ PlainItems /\ WorkConserving /\ QueuedOnce
  BY DEF IInv, PoolInv, QueueInv
<1>3. /\ connCnt \in [Items -> Nat] /\ idle \in [Items -> SUBSET Conns]
      /\ MaxConnections[i] \in Nat
  BY <1>2, ConstantsAssumption DEF TypeOK
<1>4. /\ idle[i] \cap active[i] = {}
      /\ connCnt[i] = Cardinality(idle[i]) + Cardinality(active[i])
      /\ MaxConnections[i] # 0 => connCnt[i] <= MaxConnections[i]
      /\ IsFiniteSet(idle[i]) /\ IsFiniteSet(active[i])
  BY <1>2 DEF PoolAccounting, PoolsDisjoint
<1>5. /\ IsFiniteSet(idle[i] \ {c})
      /\ Cardinality(idle[i] \ {c})
           = IF c \in idle[i] THEN Cardinality(idle[i]) - 1 ELSE Cardinality(idle[i])
  BY <1>4, FS_RemoveElement
<1>6. Cardinality(idle[i]) \in Nat
  BY <1>4, FS_CardinalityType
<1>7. Cardinality(active[i]) \in Nat
  BY <1>4, FS_CardinalityType
<1>8. Cardinality(idle[i]) # 0
  BY <1>1, <1>4, FS_EmptySet
<1>9. connCnt[i] - 1 \in Nat
  BY <1>4, <1>6, <1>7, <1>8
<1>10. /\ connCnt' \in [Items -> Nat] /\ idle' \in [Items -> SUBSET Conns]
       /\ idle'[i] = idle[i] \ {c} /\ connCnt'[i] = connCnt[i] - 1
       /\ \A j \in Items : j # i => idle'[j] = idle[j] /\ connCnt'[j] = connCnt[j]
  BY <1>1, <1>3, <1>9
<1>11. TypeOK'
  BY <1>1, <1>2, <1>10 DEF TypeOK
<1>12. PoolAccounting'
  <2>1. connCnt'[i] = Cardinality(idle'[i]) + Cardinality(active'[i])
    BY <1>1, <1>4, <1>5, <1>6, <1>7, <1>10
  <2>2. /\ idle'[i] \cap active'[i] = {}
        /\ MaxConnections[i] # 0 => connCnt'[i] <= MaxConnections[i]
    BY <1>1, <1>3, <1>4, <1>10
  <2> QED BY <1>1, <1>2, <1>10, <2>1, <2>2 DEF PoolAccounting
<1>13. PoolsDisjoint'
  <2>1. \A j \in Items : IsFiniteSet(idle'[j]) /\ IsFiniteSet(active'[j])
    BY <1>1, <1>2, <1>5, <1>10 DEF PoolsDisjoint
  <2>2. \A j \in Items : idle'[j] \cup active'[j] \subseteq idle[j] \cup active[j]
    BY <1>1, <1>10
  <2> QED BY <2>1, <2>2, <1>2 DEF PoolsDisjoint
<1>14. PlainItems'
  <2>1. KeepAlive[i]
    BY <1>1, <1>2 DEF PlainItems
  <2> QED BY <1>1, <1>2, <1>10, <2>1 DEF PlainItems
<1>15. SenderInv' /\ Counted'
  BY <1>1 DEF IInv, SenderInv, SenderKinds, ConnectionExclusive, ActiveUsed, Counted
<1>16. taskQueue[i] = <<>>
  BY <1>1, <1>2 DEF WorkConserving, Saturated
<1>17. WorkConserving'
  BY <1>1, <1>2, <1>10, <1>16 DEF WorkConserving, Saturated
<1>18. OneFreed' /\ QueuedOnce'
  BY <1>1, <1>2 DEF OneFreed, QueuedOnce, Queued
<1> QED BY <1>11, <1>12, <1>13, <1>14, <1>15, <1>17, <1>18 DEF IInv, PoolInv, QueueInv

-----------------------------------------------------------------------------
(* The theorems                                                              *)

\* The invariant holds when the manager is constructed.
LEMMA InitIInv == Init => IInv
<1> SUFFICES ASSUME Init PROVE IInv
  OBVIOUS
<1>1. TypeOK
  BY DEF Init, TypeOK, NotFinishing
<1>2. IsFiniteSet({}) /\ Cardinality({}) = 0
  BY FS_EmptySet
<1>3. PoolAccounting /\ PoolsDisjoint /\ PlainItems
  BY <1>2, ConstantsAssumption DEF Init, PoolAccounting, PoolsDisjoint, PlainItems
<1>4. SenderInv
  BY DEF Init, SenderInv, SenderKinds, ConnectionExclusive, ActiveUsed, NotFinishing
<1>5. WorkConserving /\ OneFreed
  BY DEF Init, WorkConserving, OneFreed, NotFinishing
<1>6. QueuedOnce
  BY DEF Init, QueuedOnce, Queued
<1>7. Counted
  <2>1. {t \in Tasks : sender[t] # {}} = {}
    BY DEF Init
  <2> QED BY <1>2, <2>1 DEF Init, Counted
<1> QED BY <1>1, <1>3, <1>4, <1>5, <1>6, <1>7 DEF IInv, PoolInv, QueueInv

\* Every send, event, release, dequeue and closed connection preserves it.
LEMMA NextIInv == IInv /\ [Next]_vars => IInv'
<1> SUFFICES ASSUME IInv, [Next]_vars PROVE IInv'
  OBVIOUS
<1>1. ASSUME NEW t \in Tasks, NEW i \in Items, Send(t, i) PROVE IInv'
  BY <1>1, StepSendQueues, StepSendCreates
<1>2. ASSUME NEW t \in Tasks, NEW ok \in BOOLEAN, Event(t, ok) PROVE IInv'
  BY <1>2, StepEvent
<1>3. CASE ReleaseActive
  BY <1>3, StepReleaseActive
<1>4. CASE Dequeue
  BY <1>4, StepDequeue
<1>5. ASSUME NEW i \in Items, NEW c \in Conns, OnCloseIdle(i, c) PROVE IInv'
  BY <1>5, StepOnCloseIdle
<1>6. CASE UNCHANGED vars
  BY <1>6 DEF vars, IInv, PoolInv, SenderInv, QueueInv, TypeOK, PoolAccounting, PoolsDisjoint,
     PlainItems, SenderKinds, ConnectionExclusive, ActiveUsed, WorkConserving, Saturated,
     OneFreed, QueuedOnce, Queued, Counted
<1> QED BY <1>1, <1>2, <1>3, <1>4, <1>5, <1>6 DEF Next

\* The inductive invariant holds in every reachable state.
THEOREM Invariance == Spec => []IInv
BY InitIInv, NextIInv, PTL DEF Spec

\* Every variable of the manager keeps its type.
THEOREM TypeCorrect == Spec => []TypeOK
<1>1. IInv => TypeOK
  BY DEF IInv, PoolInv
<1> QED BY <1>1, Invariance, PTL

\* getConnection()'s assertions hold: m_connCnt is the number of idle and active
\* connections and stays within the cap of the item.
THEOREM PoolsAccounted == Spec => []PoolAccounting
<1>1. IInv => PoolAccounting
  BY DEF IInv, PoolInv
<1> QED BY <1>1, Invariance, PTL

\* No keep-alive connection carries two requests, also when the callback of
\* onDone() sends again before its connection is released.
THEOREM ConnectionsExclusive == Spec => []ConnectionExclusive
<1>1. IInv => ConnectionExclusive
  BY DEF IInv, SenderInv
<1> QED BY <1>1, Invariance, PTL

\* No task waits in m_taskQueue while its item has an idle connection or may open
\* one.
THEOREM NoNeedlessWait == Spec => []WorkConserving
<1>1. IInv => WorkConserving
  BY DEF IInv, QueueInv
<1> QED BY <1>1, Invariance, PTL

\* canStop() may rely on busy(): between two events it is false exactly if no
\* task is queued or in flight.
THEOREM BusyExact == Spec => []BusyIsExact
<1>1. IInv => BusyIsExact
  <2> SUFFICES ASSUME IInv, finishing.stage = "none"
               PROVE  inFlight # 0 <=> \E t \in Tasks : Pending(t)
    BY DEF BusyIsExact, Busy
  <2> DEFINE F == {t \in Tasks : sender[t] # {}}
  <2>1. F \in SUBSET Tasks /\ inFlight = Cardinality(F)
    BY DEF IInv, Counted
  <2> HIDE DEF F
  <2>2. IsFiniteSet(F)
    BY <2>1, ConstantsAssumption, FS_Subset
  <2>3. Cardinality(F) = 0 <=> F = {}
    BY <2>2, FS_EmptySet
  <2>4. inFlight # 0 <=> \E t \in Tasks : sender[t] # {}
    BY <2>1, <2>3 DEF F
  <2>5. ASSUME NEW t \in Tasks, Queued(t) PROVE \E u \in Tasks : sender[u] # {}
    <3>1. PICK i \in Items : \E k \in DOMAIN taskQueue[i] : taskQueue[i][k] = t
      BY <2>5 DEF Queued
    <3>2. taskQueue[i] # <<>>
      BY <3>1
    <3>3. Saturated(i)
      BY <3>2 DEF IInv, QueueInv, WorkConserving
    <3>4. /\ connCnt[i] = Cardinality(idle[i]) + Cardinality(active[i])
          /\ IsFiniteSet(active[i])
      BY DEF IInv, PoolInv, PoolAccounting, PoolsDisjoint
    <3>5. connCnt[i] # 0 /\ Cardinality(idle[i]) = 0
      BY <3>3, FS_EmptySet DEF Saturated
    <3>6. active[i] # {}
      <4>1. ASSUME active[i] = {} PROVE Cardinality(active[i]) = 0
        BY <4>1, FS_EmptySet
      <4> QED BY <3>4, <3>5, <4>1
    <3> QED BY <3>6 DEF IInv, SenderInv, ActiveUsed
  <2> QED BY <2>4, <2>5 DEF Pending
<1> QED BY <1>1, Invariance, PTL

\* Each step of the manager is a step of UpstreamService or changes nothing of
\* it: a task becomes pending by send() alone, and ceases to be by the one report.
LEMMA ServiceStep ==
    IInv /\ [Next]_vars => [Service!Next]_{t \in Tasks : Pending(t)}
<1> DEFINE P == {t \in Tasks : Pending(t)}
<1> SUFFICES ASSUME IInv, [Next]_vars
             PROVE  (\E t \in Tasks : Service!Send(t) \/ Service!Report(t)) \/ P' = P
  BY DEF Service!Next
<1>1. /\ TypeOK /\ QueuedOnce
  BY DEF IInv, PoolInv, QueueInv
<1>2. ASSUME NEW t \in Tasks, NEW i \in Items, Send(t, i) PROVE Service!Send(t)
  <2>1. ~Pending(t)
    BY <1>2 DEF Send
  <2>2. CASE Saturated(i)
    <3>1. taskQueue' = [taskQueue EXCEPT ![i] = Append(@, t)] /\ sender' = sender
      BY <1>2, <2>2 DEF Send
    <3>2. \A u \in Tasks : Queued(u)' <=> Queued(u) \/ u = t
      BY <1>1, <2>1, <3>1, TaskQueued
    <3>3. P' = P \cup {t}
      BY <3>1, <3>2 DEF Pending
    <3> QED BY <2>1, <3>3 DEF Service!Send
  <2>3. CASE ~Saturated(i)
    <3>1. CreateUpstreamSender(i, t) /\ taskQueue' = taskQueue
      BY <1>2, <2>3 DEF Send
    <3>2. sender'[t] # {} /\ \A u \in Tasks : u # t => sender'[u] = sender[u]
      BY <1>1, <3>1 DEF CreateUpstreamSender, TypeOK
    <3>3. P' = P \cup {t}
      BY <3>1, <3>2 DEF Pending, Queued
    <3> QED BY <2>1, <3>3 DEF Service!Send
  <2> QED BY <2>2, <2>3
<1>3. ASSUME NEW t \in Tasks, NEW ok \in BOOLEAN, Event(t, ok) PROVE Service!Report(t)
  <2>1. sender[t] # {} /\ sender' = [sender EXCEPT ![t] = {}] /\ taskQueue' = taskQueue
    BY <1>3 DEF Event
  <2>2. sender'[t] = {} /\ \A u \in Tasks : u # t => sender'[u] = sender[u]
    BY <1>1, <2>1 DEF TypeOK
  <2>3. ~Queued(t)
    BY <1>1, <2>1 DEF QueuedOnce
  <2>4. P' = P \ {t} /\ t \in P
    BY <2>1, <2>2, <2>3 DEF Pending, Queued
  <2> QED BY <2>4 DEF Service!Report
<1>4. CASE ReleaseActive
  <2>1. UNCHANGED <<taskQueue, sender>>
    BY <1>4 DEF ReleaseActive
  <2> QED BY <2>1 DEF Pending, Queued
<1>5. CASE Dequeue
  <2>1. PICK i \in Items : i = finishing.item
    BY <1>1, <1>5, FinishingFacts DEF Dequeue
  <2> DEFINE t == Head(taskQueue[i])
  <2>2. /\ taskQueue[i] # <<>>
        /\ taskQueue' = [taskQueue EXCEPT ![i] = Tail(@)]
        /\ CreateUpstreamSender(i, t)
    BY <1>1, <1>5, <2>1 DEF Dequeue, TypeOK
  <2>3. t \in Tasks
    BY <1>1, <2>2 DEF TypeOK
  <2> HIDE DEF t
  <2>4. sender'[t] # {} /\ \A u \in Tasks : u # t => sender'[u] = sender[u]
    BY <1>1, <2>2, <2>3 DEF CreateUpstreamSender, TypeOK
  <2>5. Queued(t) /\ \A u \in Tasks : Queued(u)' <=> Queued(u) /\ u # t
    BY <1>1, <2>2, <2>4, TaskDequeued DEF t
  <2> QED BY <2>4, <2>5 DEF Pending
<1>6. ASSUME NEW i \in Items, NEW c \in Conns, OnCloseIdle(i, c) PROVE P' = P
  <2>1. UNCHANGED <<taskQueue, sender>>
    BY <1>6 DEF OnCloseIdle
  <2> QED BY <2>1 DEF Pending, Queued
<1>7. CASE UNCHANGED vars
  BY <1>7 DEF vars, Pending, Queued
<1> QED BY <1>2, <1>3, <1>4, <1>5, <1>6, <1>7 DEF Next

\* UpstreamManager implements the safety part of UpstreamService: every task
\* handed over is reported at most once, and nothing else is reported.
THEOREM RefinesService ==
    Spec => Service!Init /\ [][Service!Next]_{t \in Tasks : Pending(t)}
<1>1. Init => Service!Init
  BY DEF Init, Service!Init, Pending, Queued
<1> QED BY <1>1, ServiceStep, Invariance, PTL DEF Spec
=============================================================================
