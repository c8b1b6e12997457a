--------------------------- MODULE MPMCBoundedQueue ---------------------------
(***************************************************************************)
(* class MPMCBoundedQueue (lib/graft/thread_pool/mpmc_bounded_queue.hpp),  *)
(* the lock-free queue behind the thread pool, m_resQueue, m_promiseQueue, *)
(* m_periodicTaskQueue and the strands of the wallets: one step for every  *)
(* access to shared memory.                                                *)
(*                                                                         *)
(* The cell for a position is the one with its remainder by the buffer     *)
(* size.  A cell whose sequence is the position of a producer is free for  *)
(* it, one whose sequence is one more than the position of a consumer      *)
(* holds its value.  Loads are taken to be up to date: an outdated one of  *)
(* m_enqueue_pos or m_dequeue_pos is one whose thread was slow to go on.   *)
(* Positions do not reach 2^64.                                            *)
(***************************************************************************)
EXTENDS Integers, Sequences

CONSTANTS
    Producers,        \* threads that call push
    Consumers,        \* threads that call pop
    Values,           \* what is pushed
    NoValue,          \* the content of a cell before the first push
    Size,             \* number of cells
    MaxPushes         \* bound: the number of successful pushes

\* The constructor throws if the size is not a power of two.
ASSUME ConstantsAssumption ==
    /\ Size \in Nat /\ Size >= 2
    /\ \E n \in 1 .. Size : Size = 2^n
    /\ MaxPushes \in Nat
    /\ NoValue \notin Values
    /\ Producers \cap Consumers = {}

VARIABLES
    sequence,         \* sequence of each cell
    data,             \* data of each cell
    enqueuePos,       \* m_enqueue_pos
    dequeuePos,       \* m_dequeue_pos
    pc,               \* where each thread is in push or pop
    pos,              \* its local variable pos
    value             \* its argument data: what it pushes, what it popped last

vars == <<sequence, data, enqueuePos, dequeuePos, pc, pos, value>>

Threads == Producers \cup Consumers
Steps == {"idle", "load", "check", "claim", "access", "release"}
Cells == 0 .. Size - 1
Cell(k) == k % Size

Init ==
    /\ sequence = [i \in Cells |-> i]
    /\ data = [i \in Cells |-> NoValue]
    /\ enqueuePos = 0
    /\ dequeuePos = 0
    /\ pc = [t \in Threads |-> "idle"]
    /\ pos = [t \in Threads |-> 0]
    /\ value = [t \in Threads |-> NoValue]

Goto(t, s) == pc' = [pc EXCEPT ![t] = s]

\* The call ends, and with it its local variable.
Return(t) ==
    /\ Goto(t, "idle")
    /\ pos' = [pos EXCEPT ![t] = 0]

-----------------------------------------------------------------------------
(* push                                                                      *)

Push(p, v) ==
    /\ pc[p] = "idle"
    /\ value' = [value EXCEPT ![p] = v]
    /\ Goto(p, "load")
    /\ UNCHANGED <<sequence, data, enqueuePos, dequeuePos, pos>>

PushLoad(p) ==
    /\ pc[p] = "load"
    /\ pos' = [pos EXCEPT ![p] = enqueuePos]
    /\ Goto(p, "check")
    /\ UNCHANGED <<sequence, data, enqueuePos, dequeuePos, value>>

\* Faulty: a cell some other producer has filled meanwhile is taken for a full queue.
PushCheckGivesUp(p) ==
    /\ pc[p] = "check"
    /\ LET dif == sequence[Cell(pos[p])] - pos[p] IN
          \/ dif = 0 /\ Goto(p, "claim") /\ UNCHANGED pos
          \/ dif # 0 /\ Return(p)
    /\ UNCHANGED <<sequence, data, enqueuePos, dequeuePos, value>>

\* The cell is free for this position, or still in use: push returns false, or the
\* position is outdated.
PushCheck(p) ==
    /\ pc[p] = "check"
    /\ LET dif == sequence[Cell(pos[p])] - pos[p] IN
          \/ dif = 0 /\ Goto(p, "claim") /\ UNCHANGED pos
          \/ dif < 0 /\ Return(p)
          \/ dif > 0 /\ Goto(p, "load") /\ UNCHANGED pos
    /\ UNCHANGED <<sequence, data, enqueuePos, dequeuePos, value>>

\* Faulty: the position is advanced by a store.
PushClaimByStore(p) ==
    /\ pc[p] = "claim"
    /\ enqueuePos < MaxPushes
    /\ enqueuePos' = pos[p] + 1
    /\ Goto(p, "access")
    /\ UNCHANGED <<sequence, data, dequeuePos, pos, value>>

\* Faulty: the cell is published before it is filled.
PushClaimPublishes(p) ==
    /\ pc[p] = "claim"
    /\ \/ /\ enqueuePos = pos[p]
          /\ enqueuePos < MaxPushes
          /\ enqueuePos' = pos[p] + 1
          /\ sequence' = [sequence EXCEPT ![Cell(pos[p])] = pos[p] + 1]
          /\ Goto(p, "access")
          /\ UNCHANGED pos
       \/ /\ enqueuePos # pos[p]
          /\ pos' = [pos EXCEPT ![p] = enqueuePos]
          /\ Goto(p, "check")
          /\ UNCHANGED <<sequence, enqueuePos>>
    /\ UNCHANGED <<data, dequeuePos, value>>

\* compare_exchange_weak, which may fail for no reason; a failure loads the position.
PushClaim(p) ==
    /\ pc[p] = "claim"
    /\ \/ /\ enqueuePos = pos[p]
          /\ enqueuePos < MaxPushes
          /\ enqueuePos' = pos[p] + 1
          /\ Goto(p, "access")
          /\ UNCHANGED pos
       \/ /\ pos' = [pos EXCEPT ![p] = enqueuePos]
          /\ Goto(p, "check")
          /\ UNCHANGED enqueuePos
    /\ UNCHANGED <<sequence, data, dequeuePos, value>>

PushStore(p) ==
    /\ pc[p] = "access"
    /\ data' = [data EXCEPT ![Cell(pos[p])] = value[p]]
    /\ Goto(p, "release")
    /\ UNCHANGED <<sequence, enqueuePos, dequeuePos, pos, value>>

\* push returns true.
PushPublish(p) ==
    /\ pc[p] = "release"
    /\ sequence' = [sequence EXCEPT ![Cell(pos[p])] = pos[p] + 1]
    /\ Return(p)
    /\ UNCHANGED <<data, enqueuePos, dequeuePos, value>>

-----------------------------------------------------------------------------
(* pop                                                                       *)

Pop(c) ==
    /\ pc[c] = "idle"
    /\ Goto(c, "load")
    /\ UNCHANGED <<sequence, data, enqueuePos, dequeuePos, pos, value>>

PopLoad(c) ==
    /\ pc[c] = "load"
    /\ pos' = [pos EXCEPT ![c] = dequeuePos]
    /\ Goto(c, "check")
    /\ UNCHANGED <<sequence, data, enqueuePos, dequeuePos, value>>

\* The cell holds the value of this position, or not yet: pop returns false, or the
\* position is outdated.
PopCheck(c) ==
    /\ pc[c] = "check"
    /\ LET dif == sequence[Cell(pos[c])] - (pos[c] + 1) IN
          \/ dif = 0 /\ Goto(c, "claim") /\ UNCHANGED pos
          \/ dif < 0 /\ Return(c)
          \/ dif > 0 /\ Goto(c, "load") /\ UNCHANGED pos
    /\ UNCHANGED <<sequence, data, enqueuePos, dequeuePos, value>>

PopClaim(c) ==
    /\ pc[c] = "claim"
    /\ \/ /\ dequeuePos = pos[c]
          /\ dequeuePos' = pos[c] + 1
          /\ Goto(c, "access")
          /\ UNCHANGED pos
       \/ /\ pos' = [pos EXCEPT ![c] = dequeuePos]
          /\ Goto(c, "check")
          /\ UNCHANGED dequeuePos
    /\ UNCHANGED <<sequence, data, enqueuePos, value>>

PopTake(c) ==
    /\ pc[c] = "access"
    /\ value' = [value EXCEPT ![c] = data[Cell(pos[c])]]
    /\ Goto(c, "release")
    /\ UNCHANGED <<sequence, data, enqueuePos, dequeuePos, pos>>

\* The cell is free for the next lap; pop returns true.
PopRelease(c) ==
    /\ pc[c] = "release"
    /\ sequence' = [sequence EXCEPT ![Cell(pos[c])] = pos[c] + Size]
    /\ Return(c)
    /\ UNCHANGED <<data, enqueuePos, dequeuePos, value>>

-----------------------------------------------------------------------------

ProducerStep(p) ==
    \/ \E v \in Values : Push(p, v)
    \/ PushLoad(p) \/ PushCheck(p) \/ PushClaim(p) \/ PushStore(p) \/ PushPublish(p)

ConsumerStep(c) ==
    Pop(c) \/ PopLoad(c) \/ PopCheck(c) \/ PopClaim(c) \/ PopTake(c) \/ PopRelease(c)

Next ==
    \/ \E p \in Producers : ProducerStep(p)
    \/ \E c \in Consumers : ConsumerStep(c)

Spec == Init /\ [][Next]_vars

-----------------------------------------------------------------------------

\* Every variable keeps its type.
TypeOK ==
    /\ sequence \in [Cells -> Nat]
    /\ data \in [Cells -> Values \cup {NoValue}]
    /\ enqueuePos \in Nat
    /\ dequeuePos \in Nat
    /\ pc \in [Threads -> Steps]
    /\ pos \in [Threads -> Nat]
    /\ value \in [Threads -> Values \cup {NoValue}]

Inside(t) == pc[t] \in {"access", "release"}

\* The data of a cell is not atomic: no two threads are ever between the claim of a
\* cell and its release, whatever laps their positions belong to.
CellExclusive ==
    \A t, u \in Threads :
        Inside(t) /\ Inside(u) /\ Cell(pos[t]) = Cell(pos[u]) => t = u

\* push returns false only if the queue is full, or if the cell it needs has been claimed
\* by a consumer that has not released it yet; pop only if the queue is empty, or if the
\* producer that claimed its front has not published it yet: never because another producer
\* or consumer was faster.
FailsForAReason ==
    [][/\ \A p \in Producers : pc[p] = "check" /\ pc'[p] = "idle" =>
             \/ enqueuePos - dequeuePos = Size
             \/ \E c \in Consumers : Inside(c) /\ pos[c] = enqueuePos - Size
       /\ \A c \in Consumers : pc[c] = "check" /\ pc'[c] = "idle" =>
             \/ enqueuePos = dequeuePos
             \/ \E p \in Producers : Inside(p) /\ pos[p] = dequeuePos]_vars

\* The value at a position that is claimed by a producer and by no consumer: in its
\* cell once the producer has stored it, with the producer before.
ValueAt(k) ==
    IF \E p \in Producers : pc[p] = "access" /\ pos[p] = k
    THEN value[CHOOSE p \in Producers : pc[p] = "access" /\ pos[p] = k]
    ELSE data[Cell(k)]

\* What is in the queue, and what each consumer has popped last.
Contents == [k \in 1 .. enqueuePos - dequeuePos |-> ValueAt(dequeuePos + k - 1)]
Popped == [c \in Consumers |-> IF pc[c] = "access" THEN data[Cell(pos[c])] ELSE value[c]]

\* Linearizability: a push takes effect when it claims its position and a pop when it
\* claims its own, and so taken the operations are those of a FIFO queue of this
\* capacity: nothing is lost, doubled, overwritten or handed out in another order.
Fifo == INSTANCE FifoQueue WITH queue <- Contents, got <- Popped
ImplementsFifo == Fifo!Spec
=============================================================================
