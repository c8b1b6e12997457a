------------------------ MODULE MPMCBoundedQueueProofs ------------------------
(***************************************************************************)
(* MPMCBoundedQueue keeps its cells to one thread at a time, gives up only *)
(* for a reason and implements a FIFO queue, for any number of producers   *)
(* and consumers, any values, any size and any number of pushes.           *)
(***************************************************************************)
EXTENDS MPMCBoundedQueue, SequenceTheorems, TLAPS

\* The producers are at most one lap ahead of the consumers.
OneLap == dequeuePos <= enqueuePos /\ enqueuePos <= dequeuePos + Size

\* What the cell of each of the next Size positions says.  A position that is claimed by a
\* producer is published or its producer is still inside; one that is not yet claimed is free
\* or the consumer of the lap before is still inside.
Window ==
    \A k \in dequeuePos .. dequeuePos + Size - 1 :
        IF k < enqueuePos
        THEN \/ sequence[Cell(k)] = k + 1
             \/ /\ sequence[Cell(k)] = k
                /\ \E p \in Producers : Inside(p) /\ pos[p] = k
        ELSE \/ sequence[Cell(k)] = k
             \/ /\ sequence[Cell(k)] = k - Size + 1
                /\ \E c \in Consumers : Inside(c) /\ pos[c] = k - Size

\* A cell never goes back behind a position that was claimed.
Past ==
    /\ \A k \in 0 .. enqueuePos - 1 : sequence[Cell(k)] >= k
    /\ \A k \in 0 .. dequeuePos - 1 : sequence[Cell(k)] >= k + 1

\* Where a producer is: it never has a position from the future, a cell it found free for
\* the next position stays free until it or another producer claims it, and the cell it has
\* claimed waits for it.
ProducerOK(p) ==
    /\ pc[p] \in {"check", "claim"} => pos[p] <= enqueuePos
    /\ pc[p] = "claim" /\ pos[p] = enqueuePos => sequence[Cell(pos[p])] = pos[p]
    /\ Inside(p) => /\ dequeuePos <= pos[p] /\ pos[p] < enqueuePos
                    /\ sequence[Cell(pos[p])] = pos[p]
    /\ pc[p] # "idle" => value[p] \in Values

\* The same for a consumer: what it found published stays so until it is claimed.
ConsumerOK(c) ==
    /\ pc[c] \in {"check", "claim"} => pos[c] <= dequeuePos
    /\ pc[c] = "claim" /\ pos[c] = dequeuePos => sequence[Cell(pos[c])] = pos[c] + 1
    /\ Inside(c) => /\ pos[c] < dequeuePos /\ enqueuePos <= pos[c] + Size
                    /\ sequence[Cell(pos[c])] = pos[c] + 1

ThreadsOK == (\A p \in Producers : ProducerOK(p)) /\ (\A c \in Consumers : ConsumerOK(c))

\* The inductive invariant.
IInv == TypeOK /\ OneLap /\ Window /\ Past /\ ThreadsOK /\ CellExclusive

-----------------------------------------------------------------------------
(* The cells                                                                 *)

\* The constants, without the power of two, on which nothing depends.
LEMMA Constants == /\ Size \in Nat /\ Size >= 2
                   /\ NoValue \notin Values
                   /\ Producers \cap Consumers = {}
  BY Zenon, ConstantsAssumption DEF ConstantsAssumption

\* Every position has a cell, the same one a lap later and no other within the lap.
LEMMA CellType == ASSUME NEW k \in Nat PROVE Cell(k) \in Cells
  BY Constants DEF Cell, Cells

\* A cell number is a remainder.
LEMMA Division ==
    ASSUME NEW k \in Nat
    PROVE  /\ k \div Size \in Nat
           /\ Size * (k \div Size) \in Nat
           /\ k = Size * (k \div Size) + Cell(k)
<1>1. k \div Size \in Nat
  <2>1. k \div Size \in Int
    BY Constants
  <2>2. k \div Size >= 0
    BY Constants
  <2> QED BY <2>1, <2>2
<1>2. Cell(k) = k - Size * (k \div Size)
  BY Constants DEF Cell
<1>3. Size * (k \div Size) \in Nat /\ Cell(k) \in Int
  BY <1>1, CellType, Constants DEF Cells
<1> QED BY <1>1, <1>2, <1>3

LEMMA Multiples ==
    ASSUME NEW a \in Nat, NEW b \in Nat, a < b
    PROVE  Size * a + Size <= Size * b
<1>1. b - a - 1 \in Nat /\ b = a + 1 + (b - a - 1)
  OBVIOUS
<1>2. PICK c \in Nat : b = a + 1 + c
  BY <1>1
<1>3. Size * b = Size * a + Size + Size * c
  BY <1>2, Constants
<1>4. Size * a \in Nat /\ Size * c \in Nat
  BY Constants
<1> QED BY <1>3, <1>4, Constants

LEMMA RemainderUnique ==
    ASSUME NEW a \in Nat, NEW b \in Nat, NEW r \in Cells, NEW s \in Cells,
           Size * a + r = Size * b + s
    PROVE  r = s
<1>1. Size * a \in Nat /\ Size * b \in Nat /\ r \in 0 .. Size - 1 /\ s \in 0 .. Size - 1
  BY Constants DEF Cells
<1>2. CASE a < b
  BY <1>1, <1>2, Multiples, Constants
<1>3. CASE b < a
  BY <1>1, <1>3, Multiples, Constants
<1>4. CASE a = b
  BY <1>1, <1>4, Constants
<1> QED BY <1>2, <1>3, <1>4

LEMMA CellLap == ASSUME NEW k \in Nat PROVE Cell(k + Size) = Cell(k)
<1>1. k + Size \in Nat
  BY Constants
<1>2. PICK a \in Nat : k + Size = Size * a + Cell(k + Size)
  BY <1>1, Division
<1>3. PICK b \in Nat : k = Size * b + Cell(k)
  BY Division
<1>4. Size * (b + 1) = Size * b + Size /\ b + 1 \in Nat
  BY Constants
<1>5. Size * b \in Nat /\ Cell(k) \in Cells /\ Cell(k + Size) \in Cells
  BY <1>1, CellType, Constants
<1>6. Size * a + Cell(k + Size) = Size * (b + 1) + Cell(k)
  BY <1>2, <1>3, <1>4, <1>5, Constants DEF Cells
<1> QED BY <1>4, <1>5, <1>6, RemainderUnique

LEMMA CellInjective ==
    ASSUME NEW j \in Nat, NEW k \in Nat, j < k, k < j + Size
    PROVE  Cell(j) # Cell(k)
<1> SUFFICES ASSUME Cell(j) = Cell(k) PROVE FALSE
  OBVIOUS
<1>1. PICK a \in Nat : Size * a \in Nat /\ j = Size * a + Cell(j)
  BY Division
<1>2. PICK b \in Nat : Size * b \in Nat /\ k = Size * b + Cell(k)
  BY Division
<1>3. Cell(j) \in 0 .. Size - 1 /\ Cell(k) \in 0 .. Size - 1
  BY CellType DEF Cells
<1>4. CASE a < b
  BY <1>1, <1>2, <1>3, <1>4, Multiples, Constants
<1>5. CASE b <= a
  <2>1. Size * b <= Size * a
    BY <1>1, <1>2, <1>5, Multiples, Constants
  <2> QED BY <1>1, <1>2, <1>3, <2>1, Constants
<1> QED BY <1>4, <1>5

\* The cell of the next position is another one.
LEMMA NextCell == ASSUME NEW k \in Nat PROVE Cell(k) # Cell(k + 1)
  BY CellInjective, Constants

-----------------------------------------------------------------------------
(* The steps                                                                 *)

LEMMA InitIInv == Init => IInv
<1> SUFFICES ASSUME Init PROVE IInv
  OBVIOUS
<1>1. TypeOK
  BY Constants DEF Init, TypeOK, Cells, Steps
<1>2. OneLap /\ Past
  BY Constants DEF Init, OneLap, Past
<1>3. Window
  <2>1. ASSUME NEW k \in 0 .. Size - 1 PROVE Cell(k) = k
    BY Constants DEF Cell
  <2> QED BY <2>1, Constants DEF Init, Window, Cells
<1>4. ThreadsOK /\ CellExclusive
  BY DEF Init, ThreadsOK, ProducerOK, ConsumerOK, CellExclusive, Inside, Threads
<1> QED BY <1>1, <1>2, <1>3, <1>4 DEF IInv

\* A step of a thread outside the cells that changes nothing but the thread itself.
LEMMA OutsideStep ==
    ASSUME IInv, TypeOK', NEW t \in Threads, ~Inside(t), ~Inside(t)',
           \A u \in Threads : u # t => pc'[u] = pc[u] /\ pos'[u] = pos[u] /\ value'[u] = value[u],
           UNCHANGED <<sequence, enqueuePos, dequeuePos>>,
           t \in Producers => ProducerOK(t)',
           t \in Consumers => ConsumerOK(t)'
    PROVE  IInv'
<1>1. TypeOK /\ OneLap /\ Window /\ Past /\ ThreadsOK /\ CellExclusive
  BY DEF IInv
<1>2. \A u \in Threads : u # t => (Inside(u)' <=> Inside(u))
  BY DEF Inside
<1>3. OneLap' /\ Past'
  BY <1>1 DEF OneLap, Past
<1>4. Window'
  <2> SUFFICES ASSUME NEW k \in dequeuePos .. dequeuePos + Size - 1
               PROVE  IF k < enqueuePos
                      THEN \/ sequence[Cell(k)] = k + 1
                           \/ /\ sequence[Cell(k)] = k
                              /\ \E p \in Producers : Inside(p)' /\ pos'[p] = k
                      ELSE \/ sequence[Cell(k)] = k
                           \/ /\ sequence[Cell(k)] = k - Size + 1
                              /\ \E c \in Consumers : Inside(c)' /\ pos'[c] = k - Size
    BY DEF Window
  <2>1. \A p \in Producers : Inside(p) => Inside(p)' /\ pos'[p] = pos[p]
    BY <1>2 DEF Threads
  <2>2. \A c \in Consumers : Inside(c) => Inside(c)' /\ pos'[c] = pos[c]
    BY <1>2 DEF Threads
  <2> QED BY <1>1, <2>1, <2>2 DEF Window
<1>5. ThreadsOK'
  <2>1. ASSUME NEW p \in Producers PROVE ProducerOK(p)'
    <3>1. CASE p = t
      BY <3>1
    <3>2. CASE p # t
      BY <1>1, <1>2, <3>2 DEF ThreadsOK, ProducerOK, Threads
    <3> QED BY <3>1, <3>2
  <2>2. ASSUME NEW c \in Consumers PROVE ConsumerOK(c)'
    <3>1. CASE c = t
      BY <3>1
    <3>2. CASE c # t
      BY <1>1, <1>2, <3>2 DEF ThreadsOK, ConsumerOK, Threads
    <3> QED BY <3>1, <3>2
  <2> QED BY <2>1, <2>2 DEF ThreadsOK
<1>6. CellExclusive'
  <2> SUFFICES ASSUME NEW u \in Threads, NEW w \in Threads, Inside(u)', Inside(w)',
                      Cell(pos'[u]) = Cell(pos'[w])
               PROVE  u = w
    BY DEF CellExclusive, Cell
  <2> QED BY <1>1, <1>2 DEF CellExclusive
<1> QED BY <1>1, <1>3, <1>4, <1>5, <1>6 DEF IInv

LEMMA StepPush ==
    ASSUME IInv, NEW p \in Producers, NEW v \in Values, Push(p, v)
    PROVE  IInv'
<1>1. TypeOK /\ p \in Threads
  BY DEF IInv, Threads
<1>2. TypeOK'
  BY <1>1 DEF TypeOK, Push, Goto, Steps
<1>3. ~Inside(p) /\ ~Inside(p)' /\ ProducerOK(p)' /\ p \notin Consumers
  BY <1>1, Constants DEF TypeOK, Push, Goto, Inside, ProducerOK
<1> QED BY <1>1, <1>2, <1>3, OutsideStep DEF TypeOK, Push, Goto

LEMMA StepPushLoad ==
    ASSUME IInv, NEW p \in Producers, PushLoad(p)
    PROVE  IInv'
<1>1. TypeOK /\ p \in Threads /\ ProducerOK(p)
  BY DEF IInv, Threads, ThreadsOK
<1>2. TypeOK'
  BY <1>1 DEF TypeOK, PushLoad, Goto, Steps
<1>3. ~Inside(p) /\ ~Inside(p)' /\ ProducerOK(p)' /\ p \notin Consumers
  BY <1>1, Constants DEF TypeOK, PushLoad, Goto, Inside, ProducerOK
<1> QED BY <1>1, <1>2, <1>3, OutsideStep DEF TypeOK, PushLoad, Goto

LEMMA StepPushCheck ==
    ASSUME IInv, NEW p \in Producers, PushCheck(p)
    PROVE  IInv'
<1>1. TypeOK /\ p \in Threads /\ ProducerOK(p)
  BY DEF IInv, Threads, ThreadsOK
<1>2. TypeOK'
  BY <1>1 DEF TypeOK, PushCheck, Goto, Return, Steps
<1>3. ~Inside(p) /\ ~Inside(p)' /\ ProducerOK(p)' /\ p \notin Consumers
  <2>1. Cell(pos[p]) \in Cells /\ sequence[Cell(pos[p])] \in Nat /\ pos[p] \in Nat
    BY <1>1, CellType DEF TypeOK
  <2> QED BY <1>1, <2>1, Constants DEF TypeOK, PushCheck, Goto, Return, Inside, ProducerOK
<1> QED BY <1>1, <1>2, <1>3, OutsideStep DEF TypeOK, PushCheck, Goto, Return

LEMMA StepPop ==
    ASSUME IInv, NEW c \in Consumers, Pop(c)
    PROVE  IInv'
<1>1. TypeOK /\ c \in Threads
  BY DEF IInv, Threads
<1>2. TypeOK'
  BY <1>1 DEF TypeOK, Pop, Goto, Steps
<1>3. ~Inside(c) /\ ~Inside(c)' /\ ConsumerOK(c)' /\ c \notin Producers
  BY <1>1, Constants DEF TypeOK, Pop, Goto, Inside, ConsumerOK
<1> QED BY <1>1, <1>2, <1>3, OutsideStep DEF TypeOK, Pop, Goto

LEMMA StepPopLoad ==
    ASSUME IInv, NEW c \in Consumers, PopLoad(c)
    PROVE  IInv'
<1>1. TypeOK /\ c \in Threads /\ ConsumerOK(c)
  BY DEF IInv, Threads, ThreadsOK
<1>2. TypeOK'
  BY <1>1 DEF TypeOK, PopLoad, Goto, Steps
<1>3. ~Inside(c) /\ ~Inside(c)' /\ ConsumerOK(c)' /\ c \notin Producers
  BY <1>1, Constants DEF TypeOK, PopLoad, Goto, Inside, ConsumerOK
<1> QED BY <1>1, <1>2, <1>3, OutsideStep DEF TypeOK, PopLoad, Goto

LEMMA StepPopCheck ==
    ASSUME IInv, NEW c \in Consumers, PopCheck(c)
    PROVE  IInv'
<1>1. TypeOK /\ c \in Threads /\ ConsumerOK(c)
  BY DEF IInv, Threads, ThreadsOK
<1>2. TypeOK'
  BY <1>1 DEF TypeOK, PopCheck, Goto, Return, Steps
<1>3. ~Inside(c) /\ ~Inside(c)' /\ ConsumerOK(c)' /\ c \notin Producers
  <2>1. Cell(pos[c]) \in Cells /\ sequence[Cell(pos[c])] \in Nat /\ pos[c] \in Nat
    BY <1>1, CellType DEF TypeOK
  <2> QED BY <1>1, <2>1, Constants DEF TypeOK, PopCheck, Goto, Return, Inside, ConsumerOK
<1> QED BY <1>1, <1>2, <1>3, OutsideStep DEF TypeOK, PopCheck, Goto, Return

-----------------------------------------------------------------------------
(* The steps on the cells                                                    *)

\* A thread inside has a position whose cell shows it.
LEMMA InsideCells ==
    ASSUME IInv, NEW t \in Threads, Inside(t)
    PROVE  /\ pos[t] \in Nat /\ Cell(pos[t]) \in Cells
           /\ t \in Producers => /\ dequeuePos <= pos[t] /\ pos[t] < enqueuePos
                                 /\ sequence[Cell(pos[t])] = pos[t]
           /\ t \in Consumers => /\ pos[t] < dequeuePos /\ enqueuePos <= pos[t] + Size
                                 /\ sequence[Cell(pos[t])] = pos[t] + 1
  BY CellType DEF IInv, TypeOK, ThreadsOK, ProducerOK, ConsumerOK, Threads

\* The cell that is free for the next position has no thread inside, nor has the published
\* cell of the next value.
LEMMA FreeCells ==
    ASSUME IInv, NEW t \in Threads, Inside(t)
    PROVE  /\ sequence[Cell(enqueuePos)] = enqueuePos => Cell(pos[t]) # Cell(enqueuePos)
           /\ sequence[Cell(dequeuePos)] = dequeuePos + 1 => Cell(pos[t]) # Cell(dequeuePos)
<1>1. /\ enqueuePos \in Nat /\ dequeuePos \in Nat /\ pos[t] \in Nat
      /\ dequeuePos <= enqueuePos /\ enqueuePos <= dequeuePos + Size
  BY DEF IInv, TypeOK, OneLap
<1>2. CASE t \in Producers
  <2>1. dequeuePos <= pos[t] /\ pos[t] < enqueuePos /\ sequence[Cell(pos[t])] = pos[t]
    BY <1>2, InsideCells
  <2>2. ASSUME sequence[Cell(dequeuePos)] = dequeuePos + 1, Cell(pos[t]) = Cell(dequeuePos)
        PROVE  FALSE
    <3>1. pos[t] = dequeuePos + 1
      BY <2>1, <2>2
    <3> QED BY <1>1, <2>2, <3>1, NextCell
  <2>3. ASSUME sequence[Cell(enqueuePos)] = enqueuePos, Cell(pos[t]) = Cell(enqueuePos)
        PROVE  FALSE
    BY <1>1, <2>1, <2>3
  <2> QED BY <2>2, <2>3
<1>3. CASE t \in Consumers
  <2>1. pos[t] < dequeuePos /\ sequence[Cell(pos[t])] = pos[t] + 1
    BY <1>3, InsideCells
  <2>2. ASSUME sequence[Cell(enqueuePos)] = enqueuePos, Cell(pos[t]) = Cell(enqueuePos)
        PROVE  FALSE
    <3>1. enqueuePos = pos[t] + 1
      BY <2>1, <2>2
    <3> QED BY <1>1, <2>2, <3>1, NextCell
  <2>3. ASSUME sequence[Cell(dequeuePos)] = dequeuePos + 1, Cell(pos[t]) = Cell(dequeuePos)
        PROVE  FALSE
    BY <1>1, <2>1, <2>3
  <2> QED BY <2>2, <2>3
<1> QED BY <1>2, <1>3 DEF Threads

\* A free cell for the next position means a queue that is not full, a published cell one
\* that is not empty.
LEMMA RoomLeft ==
    ASSUME IInv
    PROVE  /\ sequence[Cell(enqueuePos)] = enqueuePos => enqueuePos < dequeuePos + Size
           /\ sequence[Cell(dequeuePos)] = dequeuePos + 1 => dequeuePos < enqueuePos
<1>1. /\ enqueuePos \in Nat /\ dequeuePos \in Nat /\ Size \in Nat /\ Size >= 2
      /\ dequeuePos <= enqueuePos /\ enqueuePos <= dequeuePos + Size /\ Window
  BY Constants DEF IInv, TypeOK, OneLap
<1>2. dequeuePos \in dequeuePos .. dequeuePos + Size - 1
  BY <1>1
<1>3. ASSUME sequence[Cell(enqueuePos)] = enqueuePos, enqueuePos = dequeuePos + Size
      PROVE  FALSE
  <2>1. sequence[Cell(dequeuePos)] = dequeuePos + Size
    BY <1>1, <1>3, CellLap
  <2> QED BY <1>1, <1>2, <1>3, <2>1 DEF Window
<1>4. ASSUME sequence[Cell(dequeuePos)] = dequeuePos + 1, enqueuePos = dequeuePos
      PROVE  FALSE
  BY <1>1, <1>2, <1>4 DEF Window
<1> QED BY <1>1, <1>3, <1>4

LEMMA StepPushClaim ==
    ASSUME IInv, NEW p \in Producers, PushClaim(p)
    PROVE  IInv'
<1>1. /\ TypeOK /\ OneLap /\ Window /\ Past /\ ThreadsOK /\ CellExclusive
      /\ p \in Threads /\ p \notin Consumers /\ ProducerOK(p) /\ pc[p] = "claim"
  BY Constants DEF IInv, Threads, ThreadsOK, PushClaim
<1>2. TypeOK'
  BY <1>1 DEF TypeOK, PushClaim, Goto, Steps
<1>3. CASE /\ pos' = [pos EXCEPT ![p] = enqueuePos]
           /\ Goto(p, "check")
           /\ UNCHANGED enqueuePos
  <2>1. ~Inside(p) /\ ~Inside(p)' /\ ProducerOK(p)'
    BY <1>1, <1>3 DEF TypeOK, PushClaim, Goto, Inside, ProducerOK
  <2> QED BY <1>1, <1>2, <1>3, <2>1, OutsideStep DEF TypeOK, PushClaim, Goto
<1>4. CASE /\ enqueuePos = pos[p]
           /\ enqueuePos' = pos[p] + 1
           /\ Goto(p, "access")
           /\ UNCHANGED pos
  <2>1. /\ sequence' = sequence /\ dequeuePos' = dequeuePos /\ pos' = pos /\ value' = value
        /\ enqueuePos' = enqueuePos + 1 /\ pos[p] = enqueuePos
        /\ pc' = [pc EXCEPT ![p] = "access"]
    BY <1>4 DEF PushClaim, Goto
  <2>2. /\ enqueuePos \in Nat /\ dequeuePos \in Nat /\ Size \in Nat /\ Size >= 2
        /\ dequeuePos <= enqueuePos /\ enqueuePos < dequeuePos + Size
        /\ sequence[Cell(enqueuePos)] = enqueuePos
    BY <1>1, <2>1, RoomLeft, Constants DEF TypeOK, OneLap, ProducerOK
  <2>3. OneLap'
    BY <2>1, <2>2 DEF OneLap
  <2>4. /\ Inside(p)'
        /\ \A u \in Threads : u # p => pc'[u] = pc[u] /\ (Inside(u)' <=> Inside(u))
        /\ \A u \in Threads : Inside(u) => Inside(u)'
    BY <1>1, <2>1 DEF TypeOK, Inside
  <2>5. Window'
    <3> SUFFICES ASSUME NEW k \in dequeuePos .. dequeuePos + Size - 1
                 PROVE  IF k < enqueuePos + 1
                        THEN \/ sequence[Cell(k)] = k + 1
                             \/ /\ sequence[Cell(k)] = k
                                /\ \E q \in Producers : Inside(q)' /\ pos[q] = k
                        ELSE \/ sequence[Cell(k)] = k
                             \/ /\ sequence[Cell(k)] = k - Size + 1
                                /\ \E c \in Consumers : Inside(c)' /\ pos[c] = k - Size
      BY <2>1 DEF Window
    <3>1. CASE k = enqueuePos
      BY <2>1, <2>2, <2>4, <3>1
    <3>2. CASE k < enqueuePos
      BY <1>1, <2>2, <2>4, <3>2 DEF Window, Threads
    <3>3. CASE k > enqueuePos
      BY <1>1, <2>2, <2>4, <3>3 DEF Window, Threads
    <3> QED BY <2>2, <3>1, <3>2, <3>3
  <2>6. Past'
    BY <1>1, <2>1, <2>2 DEF Past
  <2>7. ThreadsOK'
    <3>1. ASSUME NEW q \in Producers PROVE ProducerOK(q)'
      <4>1. CASE q = p
        BY <1>1, <2>1, <2>2, <2>4, <4>1 DEF ProducerOK, TypeOK
      <4>2. CASE q # p
        <5>1. ProducerOK(q) /\ q \in Threads /\ pos[q] \in Nat
          BY <1>1 DEF ThreadsOK, Threads, TypeOK
        <5> QED BY <2>1, <2>2, <2>4, <4>2, <5>1 DEF ProducerOK
      <4> QED BY <4>1, <4>2
    <3>2. ASSUME NEW c \in Consumers PROVE ConsumerOK(c)'
      <4>1. ConsumerOK(c) /\ c \in Threads /\ c # p /\ pos[c] \in Nat
        BY <1>1 DEF ThreadsOK, Threads, TypeOK
      <4>2. Inside(c) => enqueuePos + 1 <= pos[c] + Size
        <5>1. SUFFICES ASSUME Inside(c), enqueuePos = pos[c] + Size PROVE FALSE
          BY <2>2, <4>1, InsideCells
        <5>2. Cell(pos[c]) = Cell(enqueuePos)
          BY <4>1, <5>1, CellLap
        <5> QED BY <2>2, <4>1, <5>1, <5>2, FreeCells
      <4> QED BY <2>1, <2>4, <4>1, <4>2 DEF ConsumerOK
    <3> QED BY <3>1, <3>2 DEF ThreadsOK
  <2>8. CellExclusive'
    <3> SUFFICES ASSUME NEW u \in Threads, NEW w \in Threads, Inside(u)', Inside(w)',
                        Cell(pos[u]) = Cell(pos[w])
                 PROVE  u = w
      BY <2>1 DEF CellExclusive, Cell
    <3>1. \A t \in Threads : t # p /\ Inside(t)' => Cell(pos[t]) # Cell(pos[p])
      BY <2>1, <2>2, <2>4, FreeCells
    <3>2. CASE u # p /\ w # p
      BY <1>1, <2>4, <3>2 DEF CellExclusive
    <3> QED BY <3>1, <3>2
  <2> QED BY <1>2, <2>3, <2>5, <2>6, <2>7, <2>8 DEF IInv
<1> QED BY <1>3, <1>4 DEF PushClaim

LEMMA StepPopClaim ==
    ASSUME IInv, NEW c \in Consumers, PopClaim(c)
    PROVE  IInv'
<1>1. /\ TypeOK /\ OneLap /\ Window /\ Past /\ ThreadsOK /\ CellExclusive
      /\ c \in Threads /\ c \notin Producers /\ ConsumerOK(c) /\ pc[c] = "claim"
  BY Constants DEF IInv, Threads, ThreadsOK, PopClaim
<1>2. TypeOK'
  BY <1>1 DEF TypeOK, PopClaim, Goto, Steps
<1>3. CASE /\ pos' = [pos EXCEPT ![c] = dequeuePos]
           /\ Goto(c, "check")
           /\ UNCHANGED dequeuePos
  <2>1. ~Inside(c) /\ ~Inside(c)' /\ ConsumerOK(c)'
    BY <1>1, <1>3 DEF TypeOK, PopClaim, Goto, Inside, ConsumerOK
  <2> QED BY <1>1, <1>2, <1>3, <2>1, OutsideStep DEF TypeOK, PopClaim, Goto
<1>4. CASE /\ dequeuePos = pos[c]
           /\ dequeuePos' = pos[c] + 1
           /\ Goto(c, "access")
           /\ UNCHANGED pos
  <2>1. /\ sequence' = sequence /\ enqueuePos' = enqueuePos /\ pos' = pos /\ value' = value
        /\ dequeuePos' = dequeuePos + 1 /\ pos[c] = dequeuePos
        /\ pc' = [pc EXCEPT ![c] = "access"]
    BY <1>4 DEF PopClaim, Goto
  <2>2. /\ enqueuePos \in Nat /\ dequeuePos \in Nat /\ Size \in Nat /\ Size >= 2
        /\ dequeuePos < enqueuePos /\ enqueuePos <= dequeuePos + Size
        /\ sequence[Cell(dequeuePos)] = dequeuePos + 1
    BY <1>1, <2>1, RoomLeft, Constants DEF TypeOK, OneLap, ConsumerOK
  <2>3. OneLap'
    BY <2>1, <2>2 DEF OneLap
  <2>4. /\ Inside(c)'
        /\ \A u \in Threads : u # c => pc'[u] = pc[u] /\ (Inside(u)' <=> Inside(u))
        /\ \A u \in Threads : Inside(u) => Inside(u)'
    BY <1>1, <2>1 DEF TypeOK, Inside
  <2>5. Window'
    <3> SUFFICES ASSUME NEW k \in dequeuePos + 1 .. dequeuePos + 1 + Size - 1
                 PROVE  IF k < enqueuePos
                        THEN \/ sequence[Cell(k)] = k + 1
                             \/ /\ sequence[Cell(k)] = k
                                /\ \E q \in Producers : Inside(q)' /\ pos[q] = k
                        ELSE \/ sequence[Cell(k)] = k
                             \/ /\ sequence[Cell(k)] = k - Size + 1
                                /\ \E d \in Consumers : Inside(d)' /\ pos[d] = k - Size
      BY <2>1 DEF Window
    <3>1. CASE k = dequeuePos + Size
      <4>1. sequence[Cell(k)] = k - Size + 1 /\ ~(k < enqueuePos) /\ pos[c] = k - Size
        BY <2>1, <2>2, <3>1, CellLap
      <4> QED BY <2>4, <4>1
    <3>2. CASE k < dequeuePos + Size
      <4>1. k \in dequeuePos .. dequeuePos + Size - 1
        BY <2>2, <3>2
      <4> QED BY <1>1, <2>4, <4>1 DEF Window, Threads
    <3> QED BY <2>2, <3>1, <3>2
  <2>6. Past'
    BY <1>1, <2>1, <2>2 DEF Past
  <2>7. ThreadsOK'
    <3>1. ASSUME NEW q \in Producers PROVE ProducerOK(q)'
      <4>1. ProducerOK(q) /\ q \in Threads /\ q # c /\ pos[q] \in Nat
        BY <1>1 DEF ThreadsOK, Threads, TypeOK
      <4>2. Inside(q) => dequeuePos + 1 <= pos[q]
        <5>1. SUFFICES ASSUME Inside(q), dequeuePos = pos[q] PROVE FALSE
          BY <2>2, <4>1, InsideCells
        <5> QED BY <2>2, <4>1, <5>1, FreeCells
      <4> QED BY <2>1, <2>4, <4>1, <4>2 DEF ProducerOK
    <3>2. ASSUME NEW d \in Consumers PROVE ConsumerOK(d)'
      <4>1. CASE d = c
        BY <1>1, <2>1, <2>2, <2>4, <4>1 DEF ConsumerOK, TypeOK
      <4>2. CASE d # c
        <5>1. ConsumerOK(d) /\ d \in Threads /\ pos[d] \in Nat
          BY <1>1 DEF ThreadsOK, Threads, TypeOK
        <5> QED BY <2>1, <2>2, <2>4, <4>2, <5>1 DEF ConsumerOK
      <4> QED BY <4>1, <4>2
    <3> QED BY <3>1, <3>2 DEF ThreadsOK
  <2>8. CellExclusive'
    <3> SUFFICES ASSUME NEW u \in Threads, NEW w \in Threads, Inside(u)', Inside(w)',
                        Cell(pos[u]) = Cell(pos[w])
                 PROVE  u = w
      BY <2>1 DEF CellExclusive, Cell
    <3>1. \A t \in Threads : t # c /\ Inside(t)' => Cell(pos[t]) # Cell(pos[c])
      BY <2>1, <2>2, <2>4, FreeCells
    <3>2. CASE u # c /\ w # c
      BY <1>1, <2>4, <3>2 DEF CellExclusive
    <3> QED BY <3>1, <3>2
  <2> QED BY <1>2, <2>3, <2>5, <2>6, <2>7, <2>8 DEF IInv
<1> QED BY <1>3, <1>4 DEF PopClaim

\* A thread that copies the value and stays inside.
LEMMA CopyStep ==
    ASSUME IInv, TypeOK', NEW t \in Threads, Inside(t),
           pc' = [pc EXCEPT ![t] = "release"],
           \A p \in Producers : value'[p] = value[p],
           UNCHANGED <<sequence, enqueuePos, dequeuePos, pos>>
    PROVE  IInv'
<1>1. TypeOK /\ OneLap /\ Window /\ Past /\ ThreadsOK /\ CellExclusive
  BY DEF IInv
<1>2. \A u \in Threads : (Inside(u)' <=> Inside(u)) /\ (u # t => pc'[u] = pc[u])
  BY <1>1 DEF Inside, TypeOK
<1>3. pc[t] # "idle" /\ pc'[t] \notin {"check", "claim", "idle"}
  BY <1>1 DEF Inside, TypeOK
<1>4. OneLap' /\ Past'
  BY <1>1 DEF OneLap, Past
<1>5. Window'
  BY <1>1, <1>2 DEF Window, Threads
<1>6. ThreadsOK'
  <2>1. ASSUME NEW p \in Producers PROVE ProducerOK(p)'
    BY <1>1, <1>2, <1>3 DEF ThreadsOK, ProducerOK, Threads
  <2>2. ASSUME NEW c \in Consumers PROVE ConsumerOK(c)'
    BY <1>1, <1>2, <1>3 DEF ThreadsOK, ConsumerOK, Threads
  <2> QED BY <2>1, <2>2 DEF ThreadsOK
<1>7. CellExclusive'
  BY <1>1, <1>2 DEF CellExclusive
<1> QED BY <1>4, <1>5, <1>6, <1>7 DEF IInv

LEMMA StepPushStore ==
    ASSUME IInv, NEW p \in Producers, PushStore(p)
    PROVE  IInv'
<1>1. TypeOK /\ p \in Threads /\ Inside(p) /\ pos[p] \in Nat
  BY DEF IInv, Threads, PushStore, Inside, TypeOK
<1>2. TypeOK'
  BY <1>1, CellType DEF TypeOK, PushStore, Goto, Steps
<1> QED BY <1>1, <1>2, CopyStep DEF PushStore, Goto

LEMMA StepPopTake ==
    ASSUME IInv, NEW c \in Consumers, PopTake(c)
    PROVE  IInv'
<1>1. TypeOK /\ c \in Threads /\ c \notin Producers /\ Inside(c) /\ pos[c] \in Nat
  BY Constants DEF IInv, Threads, PopTake, Inside, TypeOK
<1>2. TypeOK'
  BY <1>1, CellType DEF TypeOK, PopTake, Goto, Steps
<1>3. \A p \in Producers : value'[p] = value[p]
  BY <1>1 DEF PopTake, TypeOK, Threads
<1> QED BY <1>1, <1>2, <1>3, CopyStep DEF PopTake, Goto

\* A thread that leaves its cell: a producer to the consumer of its position, a consumer to
\* the producer of the next lap.
LEMMA LeaveStep ==
    ASSUME IInv, TypeOK', NEW t \in Threads, Inside(t),
           pc' = [pc EXCEPT ![t] = "idle"], pos' = [pos EXCEPT ![t] = 0],
           NEW n \in Nat, sequence' = [sequence EXCEPT ![Cell(pos[t])] = n],
           \/ t \in Producers /\ n = pos[t] + 1
           \/ t \in Consumers /\ n = pos[t] + Size,
           UNCHANGED <<enqueuePos, dequeuePos, value>>
    PROVE  IInv'
<1>1. TypeOK /\ OneLap /\ Window /\ Past /\ ThreadsOK /\ CellExclusive
  BY DEF IInv
<1>2. /\ enqueuePos \in Nat /\ dequeuePos \in Nat /\ Size \in Nat /\ Size >= 2
      /\ dequeuePos <= enqueuePos /\ enqueuePos <= dequeuePos + Size
      /\ pos[t] \in Nat /\ Cell(pos[t]) \in Cells
  BY <1>1, InsideCells, Constants DEF TypeOK, OneLap
<1>3. /\ pc'[t] = "idle" /\ ~Inside(t)'
      /\ \A u \in Threads : u # t => /\ pc'[u] = pc[u] /\ pos'[u] = pos[u]
                                     /\ Inside(u)' <=> Inside(u)
  BY <1>1 DEF TypeOK, Inside
<1>4. /\ sequence'[Cell(pos[t])] = n /\ n >= sequence[Cell(pos[t])]
      /\ \A i \in Cells : i # Cell(pos[t]) => sequence'[i] = sequence[i]
      /\ \A i \in Cells : sequence'[i] >= sequence[i] /\ sequence'[i] \in Nat
                          /\ sequence[i] \in Nat
  BY <1>1, <1>2, InsideCells DEF TypeOK
<1>5. OneLap' /\ Past'
  BY <1>1, <1>2, <1>4, CellType DEF OneLap, Past
<1>6. \A u \in Threads : u # t /\ Inside(u) => sequence'[Cell(pos[u])] = sequence[Cell(pos[u])]
  BY <1>1, <1>4, InsideCells DEF CellExclusive
<1>7. /\ sequence[Cell(enqueuePos)] = enqueuePos => sequence'[Cell(enqueuePos)] = enqueuePos
      /\ sequence[Cell(dequeuePos)] = dequeuePos + 1 =>
            sequence'[Cell(dequeuePos)] = dequeuePos + 1
  BY <1>2, <1>4, CellType, FreeCells
<1>8. Window'
  <2>1. PICK j \in dequeuePos .. dequeuePos + Size - 1 :
           /\ Cell(j) = Cell(pos[t])
           /\ \/ j < enqueuePos /\ n = j + 1
              \/ j >= enqueuePos /\ n = j
    <3>1. CASE t \in Producers /\ n = pos[t] + 1
      BY <1>2, <3>1, InsideCells
    <3>2. CASE t \in Consumers /\ n = pos[t] + Size
      <4>1. /\ pos[t] + Size \in dequeuePos .. dequeuePos + Size - 1
            /\ pos[t] + Size >= enqueuePos
        BY <1>2, <3>2, InsideCells
      <4> QED BY <1>2, <3>2, <4>1, CellLap
    <3> QED BY <3>1, <3>2
  <2> SUFFICES ASSUME NEW k \in dequeuePos .. dequeuePos + Size - 1
               PROVE  IF k < enqueuePos
                      THEN \/ sequence'[Cell(k)] = k + 1
                           \/ /\ sequence'[Cell(k)] = k
                              /\ \E q \in Producers : Inside(q)' /\ pos'[q] = k
                      ELSE \/ sequence'[Cell(k)] = k
                           \/ /\ sequence'[Cell(k)] = k - Size + 1
                              /\ \E c \in Consumers : Inside(c)' /\ pos'[c] = k - Size
    BY DEF Window
  <2>2. CASE k = j
    BY <1>2, <1>4, <2>1, <2>2
  <2>3. CASE k # j
    <3>1. k \in Nat /\ j \in Nat
      BY <1>2
    <3>2. Cell(k) # Cell(pos[t]) /\ Cell(k) \in Cells
      BY <1>2, <2>1, <2>3, <3>1, CellInjective, CellType
    <3>3. sequence'[Cell(k)] = sequence[Cell(k)]
      BY <1>4, <3>2
    <3>4. \A u \in Threads : Inside(u) /\ pos[u] = k => Inside(u)' /\ pos'[u] = k
      BY <1>3, <3>2
    <3>5. \A u \in Threads : Inside(u) /\ pos[u] = k - Size => Inside(u)' /\ pos'[u] = k - Size
      <4>1. ASSUME NEW u \in Threads, Inside(u), pos[u] = k - Size PROVE u # t
        <5>1. k = pos[u] + Size /\ pos[u] \in Nat
          BY <1>2, <3>1, <4>1, InsideCells
        <5> QED BY <3>2, <5>1, CellLap
      <4> QED BY <1>3, <4>1
    <3> QED BY <1>1, <3>3, <3>4, <3>5 DEF Window, Threads
  <2> QED BY <2>2, <2>3
<1>9. ThreadsOK'
  <2>1. ASSUME NEW p \in Producers PROVE ProducerOK(p)'
    <3>1. CASE p = t
      BY <1>3, <3>1 DEF ProducerOK, Inside
    <3>2. CASE p # t
      <4>1. ProducerOK(p) /\ p \in Threads
        BY <1>1 DEF ThreadsOK, Threads
      <4> QED BY <1>3, <1>6, <1>7, <3>2, <4>1 DEF ProducerOK
    <3> QED BY <3>1, <3>2
  <2>2. ASSUME NEW c \in Consumers PROVE ConsumerOK(c)'
    <3>1. CASE c = t
      BY <1>3, <3>1 DEF ConsumerOK, Inside
    <3>2. CASE c # t
      <4>1. ConsumerOK(c) /\ c \in Threads
        BY <1>1 DEF ThreadsOK, Threads
      <4> QED BY <1>3, <1>6, <1>7, <3>2, <4>1 DEF ConsumerOK
    <3> QED BY <3>1, <3>2
  <2> QED BY <2>1, <2>2 DEF ThreadsOK
<1>10. CellExclusive'
  <2> SUFFICES ASSUME NEW u \in Threads, NEW w \in Threads, Inside(u)', Inside(w)',
                      Cell(pos'[u]) = Cell(pos'[w])
               PROVE  u = w
    BY DEF CellExclusive, Cell
  <2> QED BY <1>1, <1>3 DEF CellExclusive
<1> QED BY <1>5, <1>8, <1>9, <1>10 DEF IInv

LEMMA StepPushPublish ==
    ASSUME IInv, NEW p \in Producers, PushPublish(p)
    PROVE  IInv'
<1>1. TypeOK /\ p \in Threads /\ Inside(p) /\ pos[p] \in Nat /\ pos[p] + 1 \in Nat
  BY DEF IInv, Threads, PushPublish, Inside, TypeOK
<1>2. TypeOK'
  BY <1>1, CellType DEF TypeOK, PushPublish, Return, Goto, Steps
<1> QED BY <1>1, <1>2, LeaveStep DEF PushPublish, Return, Goto

LEMMA StepPopRelease ==
    ASSUME IInv, NEW c \in Consumers, PopRelease(c)
    PROVE  IInv'
<1>1. TypeOK /\ c \in Threads /\ Inside(c) /\ pos[c] \in Nat /\ pos[c] + Size \in Nat
  BY Constants DEF IInv, Threads, PopRelease, Inside, TypeOK
<1>2. TypeOK'
  BY <1>1, CellType DEF TypeOK, PopRelease, Return, Goto, Steps
<1> QED BY <1>1, <1>2, LeaveStep DEF PopRelease, Return, Goto

LEMMA StepIInv == IInv /\ [Next]_vars => IInv'
<1> SUFFICES ASSUME IInv, [Next]_vars PROVE IInv'
  OBVIOUS
<1>1. ASSUME NEW p \in Producers, ProducerStep(p) PROVE IInv'
  BY <1>1, StepPush, StepPushLoad, StepPushCheck, StepPushClaim, StepPushStore, StepPushPublish
     DEF ProducerStep
<1>2. ASSUME NEW c \in Consumers, ConsumerStep(c) PROVE IInv'
  BY <1>2, StepPop, StepPopLoad, StepPopCheck, StepPopClaim, StepPopTake, StepPopRelease
     DEF ConsumerStep
<1>3. CASE UNCHANGED vars
  <2>1. TypeOK /\ OneLap /\ Window /\ Past /\ ThreadsOK /\ CellExclusive
    BY DEF IInv
  <2>2. \A t \in Threads : Inside(t)' <=> Inside(t)
    BY <1>3 DEF vars, Inside
  <2>3. TypeOK' /\ OneLap' /\ Past' /\ CellExclusive'
    BY <1>3, <2>1, <2>2 DEF vars, TypeOK, OneLap, Past, CellExclusive
  <2>4. Window'
    BY <1>3, <2>1, <2>2 DEF vars, Window, Threads
  <2>5. ThreadsOK'
    BY <1>3, <2>1, <2>2 DEF vars, ThreadsOK, ProducerOK, ConsumerOK, Threads
  <2> QED BY <2>3, <2>4, <2>5 DEF IInv
<1> QED BY <1>1, <1>2, <1>3 DEF Next

\* The inductive invariant holds of every reachable state.
THEOREM Invariance == Spec => []IInv
  BY InitIInv, StepIInv, PTL DEF Spec

\* Every variable keeps its type, for any producers, consumers, values and size.
THEOREM TypeCorrect == Spec => []TypeOK
<1>1. IInv => TypeOK
  BY DEF IInv
<1> QED BY <1>1, Invariance, PTL

\* The data of a cell is never accessed by two threads at the same time, however many
\* producers and consumers there are and however many laps apart their positions are.
THEOREM CellsExclusive == Spec => []CellExclusive
<1>1. IInv => CellExclusive
  BY DEF IInv
<1> QED BY <1>1, Invariance, PTL

-----------------------------------------------------------------------------
(* Failures                                                                  *)

\* A push that gives up has the newest position, and its cell is not free for it.
LEMMA PushFails ==
    ASSUME IInv, NEW p \in Producers, PushCheck(p), pc'[p] = "idle"
    PROVE  \/ enqueuePos - dequeuePos = Size
           \/ \E c \in Consumers : Inside(c) /\ pos[c] = enqueuePos - Size
<1>1. /\ enqueuePos \in Nat /\ dequeuePos \in Nat /\ Size \in Nat /\ Size >= 2
      /\ dequeuePos <= enqueuePos /\ enqueuePos <= dequeuePos + Size
      /\ pos[p] \in Nat /\ sequence[Cell(pos[p])] \in Nat /\ pc[p] = "check"
      /\ Window /\ Past /\ pos[p] <= enqueuePos
  BY CellType, Constants
     DEF IInv, TypeOK, OneLap, Threads, ThreadsOK, ProducerOK, PushCheck
<1>2. sequence[Cell(pos[p])] < pos[p]
  BY <1>1 DEF PushCheck, Goto, Return, IInv, TypeOK, Threads
<1>3. pos[p] = enqueuePos
  BY <1>1, <1>2 DEF Past
<1>4. CASE enqueuePos < dequeuePos + Size
  <2>1. enqueuePos \in dequeuePos .. dequeuePos + Size - 1
    BY <1>1, <1>4
  <2> QED BY <1>1, <1>2, <1>3, <2>1 DEF Window
<1> QED BY <1>1, <1>4

\* A pop that gives up has the newest position, and its cell is not published.
LEMMA PopFails ==
    ASSUME IInv, NEW c \in Consumers, PopCheck(c), pc'[c] = "idle"
    PROVE  \/ enqueuePos = dequeuePos
           \/ \E p \in Producers : Inside(p) /\ pos[p] = dequeuePos
<1>1. /\ enqueuePos \in Nat /\ dequeuePos \in Nat /\ Size \in Nat /\ Size >= 2
      /\ dequeuePos <= enqueuePos
      /\ pos[c] \in Nat /\ sequence[Cell(pos[c])] \in Nat /\ pc[c] = "check"
      /\ Window /\ Past /\ pos[c] <= dequeuePos
  BY CellType, Constants
     DEF IInv, TypeOK, OneLap, Threads, ThreadsOK, ConsumerOK, PopCheck
<1>2. sequence[Cell(pos[c])] < pos[c] + 1
  BY <1>1 DEF PopCheck, Goto, Return, IInv, TypeOK, Threads
<1>3. pos[c] = dequeuePos
  BY <1>1, <1>2 DEF Past
<1>4. CASE dequeuePos < enqueuePos
  <2>1. dequeuePos \in dequeuePos .. dequeuePos + Size - 1
    BY <1>1
  <2> QED BY <1>1, <1>2, <1>3, <1>4, <2>1 DEF Window
<1> QED BY <1>1, <1>4

\* push gives up only when the queue is full or a consumer is still in its cell, pop only
\* when it is empty or a producer is still in its cell: never because another thread was
\* faster, for any number of threads.
THEOREM FailuresHaveReasons == Spec => FailsForAReason
<1> DEFINE PushReason == \/ enqueuePos - dequeuePos = Size
                         \/ \E c \in Consumers : Inside(c) /\ pos[c] = enqueuePos - Size
           PopReason == \/ enqueuePos = dequeuePos
                        \/ \E p \in Producers : Inside(p) /\ pos[p] = dequeuePos
<1>1. ASSUME IInv, [Next]_vars, NEW p \in Producers, pc[p] = "check", pc'[p] = "idle"
      PROVE  PushReason
  <2>1. pc[p] # pc'[p] /\ pc \in [Threads -> Steps] /\ p \in Threads /\ p \notin Consumers
    BY <1>1, Constants DEF IInv, TypeOK, Threads
  <2>2. ASSUME NEW q \in Producers, ProducerStep(q) PROVE PushCheck(p)
    BY <1>1, <2>1, <2>2 DEF ProducerStep, Push, PushLoad, PushCheck, PushClaim, PushStore,
                            PushPublish, Return, Goto
  <2>3. ASSUME NEW c \in Consumers, ConsumerStep(c) PROVE FALSE
    BY <1>1, <2>1, <2>3 DEF ConsumerStep, Pop, PopLoad, PopCheck, PopClaim, PopTake,
                            PopRelease, Return, Goto
  <2> QED BY <1>1, <2>1, <2>2, <2>3, PushFails DEF Next, vars
<1>2. ASSUME IInv, [Next]_vars, NEW c \in Consumers, pc[c] = "check", pc'[c] = "idle"
      PROVE  PopReason
  <2>1. pc[c] # pc'[c] /\ pc \in [Threads -> Steps] /\ c \in Threads /\ c \notin Producers
    BY <1>2, Constants DEF IInv, TypeOK, Threads
  <2>2. ASSUME NEW d \in Consumers, ConsumerStep(d) PROVE PopCheck(c)
    BY <1>2, <2>1, <2>2 DEF ConsumerStep, Pop, PopLoad, PopCheck, PopClaim, PopTake,
                            PopRelease, Return, Goto
  <2>3. ASSUME NEW p \in Producers, ProducerStep(p) PROVE FALSE
    BY <1>2, <2>1, <2>3 DEF ProducerStep, Push, PushLoad, PushCheck, PushClaim, PushStore,
                            PushPublish, Return, Goto
  <2> QED BY <1>2, <2>1, <2>2, <2>3, PopFails DEF Next, vars
<1>3. IInv /\ [Next]_vars =>
         [/\ \A p \in Producers : pc[p] = "check" /\ pc'[p] = "idle" => PushReason
          /\ \A c \in Consumers : pc[c] = "check" /\ pc'[c] = "idle" => PopReason]_vars
  BY <1>1, <1>2
<1> QED BY <1>3, Invariance, PTL DEF Spec, FailsForAReason

-----------------------------------------------------------------------------
(* The FIFO queue                                                            *)

\* Until its producer has stored it, the value at a position is the producer's.
UnstoredValues == \A p \in Producers : pc[p] = "access" => ValueAt(pos[p]) = value[p]

LEMMA ValueWithProducer == IInv => UnstoredValues
<1> SUFFICES ASSUME IInv, NEW p \in Producers, pc[p] = "access"
             PROVE  ValueAt(pos[p]) = value[p]
  BY DEF UnstoredValues
<1>1. ASSUME NEW q \in Producers, pc[q] = "access", pos[q] = pos[p] PROVE q = p
  BY <1>1 DEF IInv, CellExclusive, Inside, Threads
<1> DEFINE chosen == CHOOSE q \in Producers : pc[q] = "access" /\ pos[q] = pos[p]
<1>2. chosen \in Producers /\ pc[chosen] = "access" /\ pos[chosen] = pos[p]
  OBVIOUS
<1>3. chosen = p
  BY <1>1, <1>2
<1> QED BY <1>3 DEF ValueAt

\* A step that leaves alone the producer or the cell which has a value keeps the value.
LEMMA ValueKept ==
    ASSUME IInv, IInv', NEW k \in Nat,
           \A p \in Producers : pc[p] = "access" /\ pos[p] = k <=> pc'[p] = "access" /\ pos'[p] = k,
           \A p \in Producers : pc[p] = "access" => value'[p] = value[p],
           data'[Cell(k)] = data[Cell(k)]
    PROVE  ValueAt(k)' = ValueAt(k)
<1>1. (IInv => UnstoredValues)'
  BY ValueWithProducer, PTL
<1>2. CASE \E p \in Producers : pc[p] = "access" /\ pos[p] = k
  <2>1. PICK p \in Producers : pc[p] = "access" /\ pos[p] = k
    BY <1>2
  <2>2. ValueAt(pos[p]) = value[p]
    BY <2>1, ValueWithProducer DEF UnstoredValues
  <2>3. pc'[p] = "access" /\ pos'[p] = k
    BY <2>1
  <2>4. ValueAt(pos[p])' = value'[p]
    BY <1>1, <2>3 DEF UnstoredValues
  <2>5. ValueAt(k) = value[p]
    BY <2>1, <2>2
  <2>6. ValueAt(k)' = value'[p]
    BY <2>3, <2>4 DEF ValueAt
  <2> QED BY <2>1, <2>5, <2>6
<1>3. CASE ~ \E p \in Producers : pc[p] = "access" /\ pos[p] = k
  <2>1. ~ \E p \in Producers : pc'[p] = "access" /\ pos'[p] = k
    BY <1>3
  <2> QED BY <1>3, <2>1 DEF ValueAt, Cell
<1> QED BY <1>2, <1>3

\* A step that claims nothing and copies nothing leaves the queue alone.
LEMMA QuietStep ==
    ASSUME IInv, IInv', UNCHANGED <<enqueuePos, dequeuePos, data>>,
           \A t \in Threads : pc[t] = "access" <=> pc'[t] = "access",
           \A t \in Threads : pc[t] = "access" => pos'[t] = pos[t] /\ value'[t] = value[t],
           \A c \in Consumers : value'[c] = value[c]
    PROVE  UNCHANGED <<Contents, Popped>>
<1>1. enqueuePos \in Nat /\ dequeuePos \in Nat
  BY DEF IInv, TypeOK
<1>2. ASSUME NEW k \in Nat PROVE ValueAt(k)' = ValueAt(k)
  BY ValueKept DEF Threads
<1>3. Contents' = Contents
  BY <1>1, <1>2 DEF Contents
<1>4. Popped' = Popped
  BY DEF Popped, Threads, Cell
<1> QED BY <1>3, <1>4

\* Storing the value moves it from the producer to the cell, which holds no other value.
LEMMA StoreStep ==
    ASSUME IInv, IInv', NEW p \in Producers, PushStore(p)
    PROVE  UNCHANGED <<Contents, Popped>>
<1>1. /\ enqueuePos \in Nat /\ dequeuePos \in Nat /\ enqueuePos <= dequeuePos + Size
      /\ p \in Threads /\ p \notin Consumers /\ Inside(p) /\ Size \in Nat
      /\ data \in [Cells -> Values \cup {NoValue}] /\ pc \in [Threads -> Steps]
  BY Constants DEF IInv, TypeOK, OneLap, PushStore, Inside, Threads
<1>2. /\ pc[p] = "access" /\ pc' = [pc EXCEPT ![p] = "release"] /\ pos' = pos /\ value' = value
      /\ data' = [data EXCEPT ![Cell(pos[p])] = value[p]]
      /\ UNCHANGED <<enqueuePos, dequeuePos>>
  BY DEF PushStore, Goto
<1>3. /\ pos[p] \in Nat /\ Cell(pos[p]) \in Cells
      /\ dequeuePos <= pos[p] /\ pos[p] < enqueuePos
  BY <1>1, InsideCells
<1>4. ASSUME NEW k \in Nat, dequeuePos <= k, k < enqueuePos PROVE ValueAt(k)' = ValueAt(k)
  <2>1. CASE k = pos[p]
    <3>1. ValueAt(k) = value[p]
      BY <1>2, <2>1, ValueWithProducer DEF UnstoredValues
    <3>2. ~ \E q \in Producers : pc'[q] = "access" /\ pos'[q] = k
      <4>1. ASSUME NEW q \in Producers, pc'[q] = "access", pos'[q] = k PROVE FALSE
        <5>1. q \in Threads /\ q # p /\ pc[q] = "access" /\ pos[q] = pos[p]
          BY <1>1, <1>2, <2>1, <4>1 DEF Threads
        <5> QED BY <1>1, <5>1 DEF IInv, CellExclusive, Inside
      <4> QED BY <4>1
    <3>3. ValueAt(k)' = data'[Cell(k)]
      BY <3>2 DEF ValueAt, Cell
    <3> QED BY <1>1, <1>2, <1>3, <2>1, <3>1, <3>3
  <2>2. CASE k # pos[p]
    <3>1. Cell(k) # Cell(pos[p]) /\ Cell(k) \in Cells
      BY <1>1, <1>3, <1>4, <2>2, CellInjective, CellType
    <3>2. data'[Cell(k)] = data[Cell(k)]
      BY <1>1, <1>2, <3>1
    <3>3. \A q \in Producers : pc[q] = "access" /\ pos[q] = k <=> pc'[q] = "access" /\ pos'[q] = k
      BY <1>1, <1>2, <2>2 DEF Threads
    <3> QED BY <1>2, <3>2, <3>3, ValueKept
  <2> QED BY <2>1, <2>2
<1>5. Contents' = Contents
  BY <1>1, <1>2, <1>4 DEF Contents
<1>6. ASSUME NEW c \in Consumers, pc[c] = "access"
      PROVE  data'[Cell(pos[c])] = data[Cell(pos[c])]
  <2>1. c \in Threads /\ c # p /\ Inside(c)
    BY <1>1, <1>6 DEF Threads, Inside
  <2>2. Cell(pos[c]) # Cell(pos[p]) /\ Cell(pos[c]) \in Cells
    BY <1>1, <2>1, InsideCells DEF IInv, CellExclusive
  <2> QED BY <1>1, <1>2, <2>2
<1>7. \A c \in Consumers : pc'[c] = pc[c]
  BY <1>1, <1>2 DEF Threads
<1>8. Popped' = Popped
  BY <1>2, <1>6, <1>7 DEF Popped, Cell
<1> QED BY <1>5, <1>8

\* Taking the value out of the cell changes nothing: it was the consumer's when it claimed.
LEMMA TakeStep ==
    ASSUME IInv, IInv', NEW c \in Consumers, PopTake(c)
    PROVE  UNCHANGED <<Contents, Popped>>
<1>1. /\ enqueuePos \in Nat /\ dequeuePos \in Nat
      /\ c \in Threads /\ c \notin Producers
      /\ value \in [Threads -> Values \cup {NoValue}] /\ pc \in [Threads -> Steps]
  BY Constants DEF IInv, TypeOK, Threads
<1>2. /\ pc[c] = "access" /\ pc' = [pc EXCEPT ![c] = "release"] /\ pos' = pos /\ data' = data
      /\ value' = [value EXCEPT ![c] = data[Cell(pos[c])]]
      /\ UNCHANGED <<enqueuePos, dequeuePos>>
  BY DEF PopTake, Goto
<1>3. \A p \in Producers : pc'[p] = pc[p] /\ value'[p] = value[p]
  BY <1>1, <1>2 DEF Threads
<1>4. ASSUME NEW k \in Nat PROVE ValueAt(k)' = ValueAt(k)
  BY <1>2, <1>3, ValueKept
<1>5. Contents' = Contents
  BY <1>1, <1>2, <1>4 DEF Contents
<1>6. Popped' = Popped
  BY <1>1, <1>2 DEF Popped, Cell, Threads
<1> QED BY <1>5, <1>6

\* What is in the queue is a sequence of as many values as there are claimed positions.
LEMMA ContentsType ==
    IInv => /\ Contents \in Seq(Values \cup {NoValue})
            /\ Len(Contents) = enqueuePos - dequeuePos
            /\ \A k \in 1 .. enqueuePos - dequeuePos, m \in Nat :
                  m = dequeuePos + k - 1 => Contents[k] = ValueAt(m)
<1> SUFFICES ASSUME IInv
             PROVE  /\ Contents \in Seq(Values \cup {NoValue})
                    /\ Len(Contents) = enqueuePos - dequeuePos
                    /\ \A k \in 1 .. enqueuePos - dequeuePos, m \in Nat :
                          m = dequeuePos + k - 1 => Contents[k] = ValueAt(m)
  OBVIOUS
<1>1. /\ enqueuePos \in Nat /\ dequeuePos \in Nat /\ enqueuePos - dequeuePos \in Nat
      /\ data \in [Cells -> Values \cup {NoValue}]
      /\ value \in [Threads -> Values \cup {NoValue}]
  BY DEF IInv, TypeOK, OneLap
<1>2. ASSUME NEW k \in Nat PROVE ValueAt(k) \in Values \cup {NoValue}
  <2>1. ASSUME NEW p \in Producers, pc[p] = "access", pos[p] = k
        PROVE  ValueAt(k) \in Values \cup {NoValue}
    BY <1>1, <2>1, ValueWithProducer DEF Threads, UnstoredValues
  <2>2. CASE ~ \E p \in Producers : pc[p] = "access" /\ pos[p] = k
    BY <1>1, <2>2, CellType DEF ValueAt
  <2> QED BY <2>1, <2>2
<1>3. \A k \in 1 .. enqueuePos - dequeuePos : ValueAt(dequeuePos + k - 1) \in Values \cup {NoValue}
  BY <1>1, <1>2
<1>4. Contents \in [1 .. enqueuePos - dequeuePos -> Values \cup {NoValue}]
  BY <1>3 DEF Contents
<1>5. Contents \in Seq(Values \cup {NoValue}) /\ Len(Contents) = enqueuePos - dequeuePos
  BY <1>1, <1>4
<1> QED BY <1>5 DEF Contents

\* The push that claims a position appends its value.
LEMMA ClaimPushes ==
    ASSUME IInv, IInv', NEW p \in Producers, PushClaim(p), enqueuePos' # enqueuePos
    PROVE  Fifo!Push(value[p]) /\ value[p] \in Values
<1>1. /\ pc[p] = "claim" /\ enqueuePos = pos[p] /\ enqueuePos' = enqueuePos + 1
      /\ pc' = [pc EXCEPT ![p] = "access"]
      /\ UNCHANGED <<pos, data, value, dequeuePos>>
  BY DEF PushClaim, Goto
<1>2. /\ enqueuePos \in Nat /\ dequeuePos \in Nat /\ Size \in Nat
      /\ dequeuePos <= enqueuePos /\ enqueuePos < dequeuePos + Size
      /\ p \in Threads /\ p \notin Consumers /\ pc \in [Threads -> Steps]
      /\ value[p] \in Values /\ sequence[Cell(enqueuePos)] = enqueuePos
  BY <1>1, RoomLeft, Constants DEF IInv, TypeOK, OneLap, ThreadsOK, ProducerOK, Threads
<1>3. /\ Contents \in Seq(Values \cup {NoValue})
      /\ Len(Contents) = enqueuePos - dequeuePos
      /\ \A k \in 1 .. enqueuePos - dequeuePos, m \in Nat :
            m = dequeuePos + k - 1 => Contents[k] = ValueAt(m)
  BY ContentsType
<1>4. (IInv => /\ Contents \in Seq(Values \cup {NoValue})
               /\ Len(Contents) = enqueuePos - dequeuePos
               /\ \A k \in 1 .. enqueuePos - dequeuePos, m \in Nat :
                     m = dequeuePos + k - 1 => Contents[k] = ValueAt(m))'
  BY ContentsType, PTL
<1>5. /\ Contents' \in Seq(Values \cup {NoValue})
      /\ Len(Contents') = enqueuePos - dequeuePos + 1
      /\ \A k \in 1 .. enqueuePos - dequeuePos + 1, m \in Nat :
            m = dequeuePos + k - 1 => Contents'[k] = ValueAt(m)'
  BY <1>1, <1>2, <1>4
<1>6. ASSUME NEW k \in Nat, k < enqueuePos PROVE ValueAt(k)' = ValueAt(k)
  <2>1. \A q \in Producers : pc[q] = "access" /\ pos[q] = k <=> pc'[q] = "access" /\ pos'[q] = k
    BY <1>1, <1>2, <1>6 DEF Threads
  <2> QED BY <1>1, <2>1, ValueKept
<1>7. (IInv => UnstoredValues)'
  BY ValueWithProducer, PTL
<1>8. ASSUME NEW k \in Nat, k = enqueuePos PROVE ValueAt(k)' = value[p]
  <2>1. pc'[p] = "access" /\ pos'[p] = k
    BY <1>1, <1>2, <1>8
  <2>2. ValueAt(pos[p])' = value'[p]
    BY <1>7, <2>1 DEF UnstoredValues
  <2> QED BY <1>1, <2>1, <2>2 DEF ValueAt
<1>9. Contents' = Append(Contents, value[p])
  <2> DEFINE A == Append(Contents, value[p])
  <2>1. /\ A \in Seq(Values \cup {NoValue}) /\ Len(A) = enqueuePos - dequeuePos + 1
        /\ \A k \in 1 .. enqueuePos - dequeuePos : A[k] = Contents[k]
        /\ A[enqueuePos - dequeuePos + 1] = value[p]
    BY <1>2, <1>3
  <2> HIDE DEF A
  <2>2. ASSUME NEW k \in 1 .. enqueuePos - dequeuePos + 1 PROVE Contents'[k] = A[k]
    <3>1. CASE k = enqueuePos - dequeuePos + 1
      <4>1. PICK m \in Nat : m = enqueuePos
        BY <1>2
      <4>2. m = dequeuePos + k - 1
        BY <1>2, <3>1, <4>1
      <4> QED BY <1>5, <1>8, <2>1, <3>1, <4>1, <4>2
    <3>2. CASE k # enqueuePos - dequeuePos + 1
      <4>1. /\ k \in 1 .. enqueuePos - dequeuePos
            /\ dequeuePos + k - 1 \in Nat /\ dequeuePos + k - 1 < enqueuePos
        BY <1>2, <3>2
      <4>2. PICK m \in Nat : m = dequeuePos + k - 1
        BY <4>1
      <4> QED BY <1>3, <1>5, <1>6, <2>1, <4>1, <4>2
    <3> QED BY <3>1, <3>2
  <2>3. Contents' = A
    BY <1>5, <2>1, <2>2, SeqEqual
  <2> QED BY <2>3 DEF A
<1>10. Popped' = Popped
  BY <1>1, <1>2 DEF Popped, Cell, Threads
<1> QED BY <1>2, <1>3, <1>9, <1>10 DEF Fifo!Push

\* The pop that claims a position takes the front.
LEMMA ClaimPops ==
    ASSUME IInv, IInv', NEW c \in Consumers, PopClaim(c), dequeuePos' # dequeuePos
    PROVE  Fifo!Pop(c)
<1>1. /\ pc[c] = "claim" /\ dequeuePos = pos[c] /\ dequeuePos' = dequeuePos + 1
      /\ pc' = [pc EXCEPT ![c] = "access"]
      /\ UNCHANGED <<pos, data, value, enqueuePos>>
  BY DEF PopClaim, Goto
<1>2. /\ enqueuePos \in Nat /\ dequeuePos \in Nat /\ dequeuePos < enqueuePos
      /\ c \in Threads /\ c \notin Producers /\ pc \in [Threads -> Steps]
      /\ sequence[Cell(dequeuePos)] = dequeuePos + 1
  BY <1>1, RoomLeft, Constants DEF IInv, TypeOK, ThreadsOK, ConsumerOK, Threads
<1>3. /\ Contents \in Seq(Values \cup {NoValue})
      /\ Len(Contents) = enqueuePos - dequeuePos
      /\ \A k \in 1 .. enqueuePos - dequeuePos, m \in Nat :
            m = dequeuePos + k - 1 => Contents[k] = ValueAt(m)
  BY ContentsType
<1>4. (IInv => /\ Contents \in Seq(Values \cup {NoValue})
               /\ Len(Contents) = enqueuePos - dequeuePos
               /\ \A k \in 1 .. enqueuePos - dequeuePos, m \in Nat :
                     m = dequeuePos + k - 1 => Contents[k] = ValueAt(m))'
  BY ContentsType, PTL
<1>5. \A p \in Producers : pc'[p] = pc[p]
  BY <1>1, <1>2 DEF Threads
<1>6. ASSUME NEW k \in Nat PROVE ValueAt(k)' = ValueAt(k)
  BY <1>1, <1>5, ValueKept
<1>7. /\ Contents' \in Seq(Values \cup {NoValue})
      /\ Len(Contents') = enqueuePos - dequeuePos - 1
      /\ \A k \in 1 .. enqueuePos - dequeuePos - 1, m \in Nat :
            m = dequeuePos + k => Contents'[k] = ValueAt(m)'
  <2>1. /\ Contents' \in Seq(Values \cup {NoValue})
        /\ Len(Contents') = enqueuePos - (dequeuePos + 1)
        /\ \A k \in 1 .. enqueuePos - (dequeuePos + 1), m \in Nat :
              m = (dequeuePos + 1) + k - 1 => Contents'[k] = ValueAt(m)'
    BY <1>1, <1>4
  <2>2. /\ enqueuePos - (dequeuePos + 1) = enqueuePos - dequeuePos - 1
        /\ \A k \in 1 .. enqueuePos - dequeuePos - 1 : (dequeuePos + 1) + k - 1 = dequeuePos + k
    BY <1>2
  <2> QED BY <2>1, <2>2
<1>8. Contents # <<>> /\ Head(Contents) = ValueAt(dequeuePos)
  <2>1. Contents # <<>> /\ Head(Contents) = Contents[1] /\ 1 \in 1 .. enqueuePos - dequeuePos
    BY <1>2, <1>3
  <2>2. dequeuePos \in Nat /\ dequeuePos = dequeuePos + 1 - 1
    BY <1>2
  <2> QED BY <1>3, <2>1, <2>2
<1>9. ValueAt(dequeuePos) = data[Cell(dequeuePos)]
  <2>1. ~ \E p \in Producers : pc[p] = "access" /\ pos[p] = dequeuePos
    BY <1>2, FreeCells DEF Threads, Inside
  <2> QED BY <2>1 DEF ValueAt
<1>10. Contents' = Tail(Contents)
  <2> DEFINE T == Tail(Contents)
  <2>1. /\ T \in Seq(Values \cup {NoValue}) /\ Len(T) = enqueuePos - dequeuePos - 1
        /\ \A k \in 1 .. enqueuePos - dequeuePos - 1 : T[k] = Contents[k + 1]
    BY <1>2, <1>3, <1>8, HeadTailProperties
  <2> HIDE DEF T
  <2>2. ASSUME NEW k \in 1 .. enqueuePos - dequeuePos - 1 PROVE Contents'[k] = T[k]
    <3>1. PICK m \in Nat : m = dequeuePos + k
      BY <1>2
    <3>2. k + 1 \in 1 .. enqueuePos - dequeuePos /\ m = dequeuePos + (k + 1) - 1
      BY <1>2, <3>1
    <3> QED BY <1>3, <1>6, <1>7, <2>1, <3>1, <3>2
  <2>3. Contents' = T
    BY <1>7, <2>1, <2>2, SeqEqual
  <2> QED BY <2>3 DEF T
<1>11. Popped' = [Popped EXCEPT ![c] = Head(Contents)]
  BY <1>1, <1>2, <1>8, <1>9 DEF Popped, Cell, Threads
<1> QED BY <1>8, <1>10, <1>11 DEF Fifo!Pop

\* Every step of a thread is an operation of the FIFO queue or leaves it alone.
LEMMA FifoStep == IInv /\ IInv' /\ [Next]_vars => [Fifo!Next]_<<Contents, Popped>>
<1> SUFFICES ASSUME IInv, IInv', [Next]_vars
             PROVE  Fifo!Next \/ UNCHANGED <<Contents, Popped>>
  OBVIOUS
<1>1. /\ pc \in [Threads -> Steps] /\ pos \in [Threads -> Nat]
      /\ value \in [Threads -> Values \cup {NoValue}]
  BY DEF IInv, TypeOK
<1>2. ASSUME NEW p \in Producers, ProducerStep(p)
      PROVE  Fifo!Next \/ UNCHANGED <<Contents, Popped>>
  <2>1. p \in Threads /\ p \notin Consumers
    BY Constants DEF Threads
  <2>2. CASE \E v \in Values : Push(p, v)
    BY <1>1, <2>1, <2>2, QuietStep DEF Push, Goto, Threads
  <2>3. CASE PushLoad(p)
    BY <1>1, <2>1, <2>3, QuietStep DEF PushLoad, Goto, Threads
  <2>4. CASE PushCheck(p)
    BY <1>1, <2>1, <2>4, QuietStep DEF PushCheck, Return, Goto, Threads
  <2>5. CASE PushClaim(p) /\ enqueuePos' # enqueuePos
    BY <2>5, ClaimPushes DEF Fifo!Next
  <2>6. CASE PushClaim(p) /\ enqueuePos' = enqueuePos
    <3>1. enqueuePos \in Nat
      BY DEF IInv, TypeOK
    <3>2. /\ pos' = [pos EXCEPT ![p] = enqueuePos] /\ pc' = [pc EXCEPT ![p] = "check"]
          /\ pc[p] = "claim" /\ UNCHANGED <<data, dequeuePos, value>>
      BY <2>6, <3>1 DEF PushClaim, Goto
    <3> QED BY <1>1, <2>1, <2>6, <3>2, QuietStep DEF Threads
  <2>7. CASE PushStore(p)
    BY <2>7, StoreStep
  <2>8. CASE PushPublish(p)
    BY <1>1, <2>1, <2>8, QuietStep DEF PushPublish, Return, Goto, Threads
  <2> QED BY <1>2, <2>2, <2>3, <2>4, <2>5, <2>6, <2>7, <2>8 DEF ProducerStep
<1>3. ASSUME NEW c \in Consumers, ConsumerStep(c)
      PROVE  Fifo!Next \/ UNCHANGED <<Contents, Popped>>
  <2>1. c \in Threads
    BY DEF Threads
  <2>2. CASE Pop(c)
    BY <1>1, <2>1, <2>2, QuietStep DEF Pop, Goto, Threads
  <2>3. CASE PopLoad(c)
    BY <1>1, <2>1, <2>3, QuietStep DEF PopLoad, Goto, Threads
  <2>4. CASE PopCheck(c)
    BY <1>1, <2>1, <2>4, QuietStep DEF PopCheck, Return, Goto, Threads
  <2>5. CASE PopClaim(c) /\ dequeuePos' # dequeuePos
    BY <2>5, ClaimPops DEF Fifo!Next
  <2>6. CASE PopClaim(c) /\ dequeuePos' = dequeuePos
    <3>1. dequeuePos \in Nat
      BY DEF IInv, TypeOK
    <3>2. /\ pos' = [pos EXCEPT ![c] = dequeuePos] /\ pc' = [pc EXCEPT ![c] = "check"]
          /\ pc[c] = "claim" /\ UNCHANGED <<data, enqueuePos, value>>
      BY <2>6, <3>1 DEF PopClaim, Goto
    <3> QED BY <1>1, <2>1, <2>6, <3>2, QuietStep DEF Threads
  <2>7. CASE PopTake(c)
    BY <2>7, TakeStep
  <2>8. CASE PopRelease(c)
    BY <1>1, <2>1, <2>8, QuietStep DEF PopRelease, Return, Goto, Threads
  <2> QED BY <1>3, <2>2, <2>3, <2>4, <2>5, <2>6, <2>7, <2>8 DEF ConsumerStep
<1>4. CASE UNCHANGED vars
  BY <1>4, QuietStep DEF vars, Threads
<1> QED BY <1>2, <1>3, <1>4 DEF Next

LEMMA FifoInit == Init => Fifo!Init
<1> SUFFICES ASSUME Init PROVE Contents = <<>> /\ Popped = [c \in Consumers |-> NoValue]
  BY DEF Fifo!Init
<1>1. IInv
  BY InitIInv
<1>2. Contents \in Seq(Values \cup {NoValue}) /\ Len(Contents) = 0
  BY <1>1, ContentsType DEF Init
<1>3. Contents = <<>>
  BY <1>2
<1>4. Popped = [c \in Consumers |-> NoValue]
  BY DEF Init, Popped, Threads
<1> QED BY <1>3, <1>4

\* MPMCBoundedQueue is a linearizable bounded FIFO queue, for any number of producers and
\* consumers, any size of the buffer and any number of operations: each push and pop takes
\* effect when it claims its position.
THEOREM RefinesFifo == Spec => ImplementsFifo
  BY FifoInit, FifoStep, Invariance, PTL DEF Spec, ImplementsFifo, Fifo!Spec
=============================================================================
