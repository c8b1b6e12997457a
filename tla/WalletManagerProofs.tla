------------------------- MODULE WalletManagerProofs -------------------------
(***************************************************************************)
(* A strand runs one handler at a time, no call reaches a destroyed        *)
(* holder, and nothing that was posted is left behind, for any number of   *)
(* wallets, requests, holders, threads and expelled threads.               *)
(*                                                                         *)
(* The argument counts: a holder's queue has a handler for every pop that  *)
(* is still to come, wherever the call for it is (PopsOK).                 *)
(***************************************************************************)
EXTENDS WalletManager, FiniteSetTheorems, TLAPS

\* The jobs of the pool.
Jobs == {Call(s) : s \in Strands} \cup {Request(r) : r \in Requests} \cup {Account(r) : r \in Requests}

\* The cells of a strand's queue.
Cells == [handler : Handlers, filled : BOOLEAN]

\* Every variable keeps its type.
TypeOK ==
    /\ input \in [Ids -> Seq(Jobs)]
    /\ current \in [Ids -> Threads]
    /\ thread \in [Threads -> [id : Ids, at : {"none", "idle", "busy"}, running : BOOLEAN,
                               job : Jobs \cup {NoJob}]]
    /\ nextWorker \in Ids
    /\ overdue \in Ids \cup {NoId}
    /\ expelledCount \in Nat
    /\ terminated \in BOOLEAN
    /\ queue \in [Strands -> Seq(Cells)]
    /\ deferred \in [Strands -> Nat]
    /\ worker \in [Threads -> [at : {"idle", "pop", "run", "leave"},
                               strand : Strands \cup {NoStrand}, handler : Handlers \cup {NoHandler}]]
    /\ refused \in [Strands -> SUBSET Handlers]
    /\ missed \in [Strands -> Nat]
    /\ global \in [Wallets -> Strands \cup {NoStrand}]
    /\ req \in [Requests -> [at : {"new", "queued", "create", "push", "fill", "call", "posted"},
                             wallet : Strands \cup {NoStrand}]]
    /\ callbacks \subseteq Requests /\ told \subseteq Requests /\ lost \subseteq Requests

\* A thread without a job has none; the threads that were not started yet are not there; the
\* thread of each worker id runs, and takes from that worker's queue.
PoolOK ==
    /\ \A k \in Threads : thread[k].at # "busy" => thread[k].job = NoJob
    /\ \A k \in Threads : k > Count + expelledCount => thread[k].at = "none"
    /\ \A i \in Ids :
          /\ thread[current[i]].id = i
          /\ thread[current[i]].at # "none" /\ thread[current[i]].running
    /\ overdue # NoId => expelledCount < MaxExpelled

\* A thread in a strand's loop is in the job that called it.
WorkersOK ==
    \A k \in Threads :
        IF worker[k].at = "idle" THEN worker[k] = Idle
        ELSE worker[k].strand \in Strands /\ thread[k].job = Call(worker[k].strand)

\* The count of deferred calls is above zero exactly while a thread is in the loop.
CountsOK == \A s \in Strands : deferred[s] = 0 <=> Inside(s) = {}

\* A request that has its holder is being handled by a thread; one that was refused was pushed.
RequestsOK ==
    \A r \in Requests :
        /\ req[r].at \in {"create", "push", "fill", "call"} => r \in WalletRequests
        /\ req[r].at \in {"push", "fill", "call"} =>
              req[r].wallet \in Strands /\ \E k \in Threads : thread[k].job = Request(r)
        /\ \A s \in Strands : r \in refused[s] => req[r].at \in {"fill", "call", "posted"}

\* Where a job is in the queues of the pool.
Occurs(in, job) ==
    UNION {{<<i, n>> : n \in {m \in DOMAIN in[i] : in[i][m] = job}} : i \in Ids}

\* Calls with a thread that is not in the loop yet; threads that have popped for the call they
\* are at; requests that were pushed and whose call is not posted yet.
Arrived(s) == {k \in Threads : thread[k].job = Call(s) /\ worker[k].at = "idle"}
Served(s) == {k \in Threads : worker[k].strand = s /\ worker[k].at \in {"run", "leave"}}
Pushed(s) == {r \in Requests : req[r].wallet = s /\ req[r].at \in {"fill", "call"}}

\* The pops that are still to come.
Pops(s) ==
    Cardinality(Occurs(input, Call(s))) + Cardinality(Arrived(s)) + deferred[s]
        + Cardinality(Pushed(s)) - Cardinality(Served(s))

\* A strand's queue has a handler for every pop to come, one more for each pop that was missed
\* and one less for each handler that was refused.
PopsOKOf(s) ==
    /\ IsFiniteSet(Occurs(input, Call(s)))
    /\ IsFiniteSet(refused[s])
    /\ Pops(s) + missed[s] = Len(queue[s]) + Cardinality(refused[s])

PopsOK == \A s \in Strands : PopsOKOf(s)

\* A thread that has found no handler at all has left one in the queue.
EmptyHanded ==
    \A k \in Threads :
        LET s == worker[k].strand IN
        worker[k].at \in {"run", "leave"} /\ worker[k].handler = NoHandler /\ refused[s] = {}
            => queue[s] # <<>>

\* What was posted is carried out or refused, or it is on its way.
Done(r) ==
    \/ CarriedOut(r)
    \/ \E s \in Strands : r \in refused[s]
    \/ \E s \in Strands : \E n \in DOMAIN queue[s] : queue[s][n].handler = r
    \/ \E k \in Threads : worker[k].at = "run" /\ worker[k].handler = r /\ r # NoHandler
    \/ \E i \in Ids : \E n \in DOMAIN input[i] : input[i][n] = Account(r)
    \/ \E k \in Threads : thread[k].job = Account(r)

PostedOK == \A r \in Requests : req[r].at \in {"fill", "call", "posted"} => Done(r)

IInv ==
    /\ TypeOK
    /\ PoolOK
    /\ WorkersOK
    /\ StrandExclusive
    /\ CountsOK
    /\ RequestsOK
    /\ PopsOK
    /\ EmptyHanded
    /\ PostedOK

-----------------------------------------------------------------------------
(* Helpers.                                                                  *)

LEMMA Constants ==
    /\ Count \in Nat /\ Count >= 2 /\ MaxExpelled \in Nat
    /\ NoId \notin Ids /\ NoStrand \notin Strands /\ NoHandler \notin Handlers
    /\ NoJob \notin Jobs
    /\ WalletRequests = Handlers /\ WalletRequests \cap AccountRequests = {}
    /\ walletOf \in [Requests -> Wallets]
    /\ IsFiniteSet(Requests) /\ IsFiniteSet(Threads)
  <1>1. IsFiniteSet(Requests)
    BY WalletAssumption, FS_Union DEF Requests
  <1>2. Count \in Nat /\ Count >= 2 /\ MaxExpelled \in Nat
    BY PoolAssumption
  <1>3. IsFiniteSet(Threads)
    BY <1>2, FS_Interval DEF Threads
  <1>4. NoJob \notin Jobs
    BY WalletAssumption DEF Jobs, Call, Request, Account, Requests
  <1> QED BY <1>1, <1>2, <1>3, <1>4, PoolAssumption, StrandAssumption, WalletAssumption DEF Requests

LEMMA JobKinds ==
    /\ \A s \in Strands : Call(s) \in Jobs /\ Call(s) # NoJob
    /\ \A r \in Requests : Request(r) \in Jobs /\ Account(r) \in Jobs
    /\ \A s \in Strands : \A r \in Requests : Call(s) # Request(r) /\ Call(s) # Account(r)
    /\ \A r, q \in Requests : Request(r) # Account(q)
    /\ \A s, t \in Strands : Call(s) = Call(t) => s = t
    /\ \A r, q \in Requests : Account(r) = Account(q) => r = q
    /\ \A r, q \in Requests : Request(r) = Request(q) => r = q
  <1>1. \A s \in Strands : Call(s) \in Jobs
    BY DEF Jobs
  <1>2. \A r \in Requests : Request(r) \in Jobs /\ Account(r) \in Jobs
    BY DEF Jobs
  <1>3. /\ \A s \in Strands : \A r \in Requests : Call(s) # Request(r) /\ Call(s) # Account(r)
        /\ \A r, q \in Requests : Request(r) # Account(q)
        /\ \A s, t \in Strands : Call(s) = Call(t) => s = t
        /\ \A r, q \in Requests : Account(r) = Account(q) => r = q
        /\ \A r, q \in Requests : Request(r) = Request(q) => r = q
    BY DEF Call, Request, Account
  <1> QED BY <1>1, <1>2, <1>3, Constants

LEMMA Turn == ASSUME NEW n \in Nat PROVE n % Count \in Ids
  BY Constants DEF Ids

\* One more and one less.
LEMMA OneMore ==
    ASSUME NEW S, IsFiniteSet(S), NEW x, x \notin S, NEW T, T = S \cup {x}
    PROVE  IsFiniteSet(T) /\ Cardinality(T) = Cardinality(S) + 1
  BY FS_AddElement

LEMMA OneLess ==
    ASSUME NEW S, IsFiniteSet(S), NEW x \in S, NEW T, T = S \ {x}
    PROVE  IsFiniteSet(T) /\ Cardinality(T) = Cardinality(S) - 1
  BY FS_RemoveElement

Place(in, job, x) == \E i \in Ids, n \in Nat : n \in DOMAIN in[i] /\ in[i][n] = job /\ x = <<i, n>>

LEMMA OccursIs ==
    ASSUME NEW in \in [Ids -> Seq(Jobs)], NEW job
    PROVE  \A x : x \in Occurs(in, job) <=> Place(in, job, x)
  <1>1. \A i \in Ids : DOMAIN in[i] \subseteq Nat
    OBVIOUS
  <1> QED BY <1>1 DEF Occurs, Place

Appended(in, i, x) == [in EXCEPT ![i] = Append(@, x)]
Taken(in, i) == [in EXCEPT ![i] = Tail(@)]

\* A job that is appended to a queue is there once more.
LEMMA OccursAppended ==
    ASSUME NEW in \in [Ids -> Seq(Jobs)], NEW i \in Ids, NEW x \in Jobs, NEW job,
           IsFiniteSet(Occurs(in, job))
    PROVE  /\ IsFiniteSet(Occurs(Appended(in, i, x), job))
           /\ Cardinality(Occurs(Appended(in, i, x), job)) =
                 IF x = job THEN Cardinality(Occurs(in, job)) + 1 ELSE Cardinality(Occurs(in, job))
  <1> DEFINE out == [in EXCEPT ![i] = Append(@, x)]
             z == <<i, Len(in[i]) + 1>>
  <1> Appended(in, i, x) = out
    BY DEF Appended
  <1>0. /\ \A y : y \in Occurs(in, job) <=> \E j \in Ids, n \in Nat : n \in DOMAIN in[j] /\ in[j][n] = job /\ y = <<j, n>>
        /\ \A y : y \in Occurs(out, job) <=> \E j \in Ids, n \in Nat : n \in DOMAIN out[j] /\ out[j][n] = job /\ y = <<j, n>>
    <2>1. out \in [Ids -> Seq(Jobs)]
      OBVIOUS
    <2>2. \A y : y \in Occurs(in, job) <=> Place(in, job, y)
      BY OccursIs
    <2>3. \A y : y \in Occurs(out, job) <=> Place(out, job, y)
      BY <2>1, OccursIs
    <2> QED BY <2>2, <2>3 DEF Place
  <1>1. /\ in[i] \in Seq(Jobs) /\ Len(in[i]) \in Nat /\ DOMAIN in[i] = 1 .. Len(in[i])
        /\ out[i] = Append(in[i], x) /\ \A j \in Ids : j # i => out[j] = in[j]
    OBVIOUS
  <1>2. /\ DOMAIN out[i] = 1 .. (Len(in[i]) + 1)
        /\ \A n \in DOMAIN in[i] : out[i][n] = in[i][n]
        /\ out[i][Len(in[i]) + 1] = x
    BY <1>1
  <1>3. z \notin Occurs(in, job)
    BY <1>0, <1>1
  <1>4. \A j \in Ids : \A n \in DOMAIN out[j] : n \in DOMAIN in[j] \/ (j = i /\ n = Len(in[i]) + 1)
    BY <1>1, <1>2
  <1>5. \A j \in Ids : \A n \in DOMAIN in[j] : n \in DOMAIN out[j] /\ out[j][n] = in[j][n]
    BY <1>1, <1>2
  <1>6. CASE x = job
    <2>1. Occurs(out, job) = Occurs(in, job) \cup {z}
      <3>1. ASSUME NEW y \in Occurs(out, job) PROVE y \in Occurs(in, job) \cup {z}
        <4>1. PICK j \in Ids, n \in Nat : n \in DOMAIN out[j] /\ out[j][n] = job /\ y = <<j, n>>
          BY <1>0
        <4> QED BY <1>0, <1>4, <1>5, <4>1
      <3>2. ASSUME NEW y \in Occurs(in, job) PROVE y \in Occurs(out, job)
        <4>1. PICK j \in Ids, n \in Nat : n \in DOMAIN in[j] /\ in[j][n] = job /\ y = <<j, n>>
          BY <1>0
        <4> QED BY <1>0, <1>5, <4>1
      <3>3. z \in Occurs(out, job)
        <4>1. Len(in[i]) + 1 \in DOMAIN out[i] /\ Len(in[i]) + 1 \in Nat
          BY <1>1, <1>2
        <4> QED BY <1>0, <1>2, <1>6, <4>1
      <3> QED BY <3>1, <3>2, <3>3
    <2> QED BY <1>3, <1>6, <2>1, OneMore
  <1>7. CASE x # job
    <2>1. ASSUME NEW y \in Occurs(out, job) PROVE y \in Occurs(in, job)
      <3>1. PICK j \in Ids, n \in Nat : n \in DOMAIN out[j] /\ out[j][n] = job /\ y = <<j, n>>
        BY <1>0
      <3>2. n \in DOMAIN in[j] /\ in[j][n] = job
        BY <1>2, <1>4, <1>5, <1>7, <3>1
      <3> QED BY <1>0, <3>1, <3>2
    <2>2. ASSUME NEW y \in Occurs(in, job) PROVE y \in Occurs(out, job)
      <3>1. PICK j \in Ids, n \in Nat : n \in DOMAIN in[j] /\ in[j][n] = job /\ y = <<j, n>>
        BY <1>0
      <3> QED BY <1>0, <1>5, <3>1
    <2>3. Occurs(out, job) = Occurs(in, job)
      BY <2>1, <2>2
    <2> QED BY <1>7, <2>3
  <1> QED BY <1>6, <1>7

\* A job that is taken from a queue is there once less.
LEMMA OccursTaken ==
    ASSUME NEW in \in [Ids -> Seq(Jobs)], NEW i \in Ids, in[i] # <<>>, NEW job,
           IsFiniteSet(Occurs(in, job))
    PROVE  /\ IsFiniteSet(Occurs(Taken(in, i), job))
           /\ Cardinality(Occurs(Taken(in, i), job)) =
                 IF Head(in[i]) = job THEN Cardinality(Occurs(in, job)) - 1
                 ELSE Cardinality(Occurs(in, job))
  <1> DEFINE out == [in EXCEPT ![i] = Tail(@)]
             z == <<i, 1>>
             S == Occurs(in, job) \ {z}
             f == [y \in S |-> IF y[1] = i THEN <<i, y[2] - 1>> ELSE y]
  <1> Taken(in, i) = out
    BY DEF Taken
  <1>0. /\ \A y : y \in Occurs(in, job) <=> \E j \in Ids, n \in Nat : n \in DOMAIN in[j] /\ in[j][n] = job /\ y = <<j, n>>
        /\ \A y : y \in Occurs(out, job) <=> \E j \in Ids, n \in Nat : n \in DOMAIN out[j] /\ out[j][n] = job /\ y = <<j, n>>
    <2>1. out \in [Ids -> Seq(Jobs)]
      OBVIOUS
    <2>2. \A y : y \in Occurs(in, job) <=> Place(in, job, y)
      BY OccursIs
    <2>3. \A y : y \in Occurs(out, job) <=> Place(out, job, y)
      BY <2>1, OccursIs
    <2> QED BY <2>2, <2>3 DEF Place
  <1>1. /\ in[i] \in Seq(Jobs) /\ Len(in[i]) \in Nat /\ Len(in[i]) > 0 /\ DOMAIN in[i] = 1 .. Len(in[i])
        /\ out[i] = Tail(in[i]) /\ \A j \in Ids : j # i => out[j] = in[j]
        /\ Head(in[i]) = in[i][1]
    OBVIOUS
  <1>2. /\ DOMAIN out[i] = 1 .. (Len(in[i]) - 1)
        /\ \A n \in DOMAIN out[i] : n + 1 \in DOMAIN in[i] /\ out[i][n] = in[i][n + 1]
    BY <1>1
  <1>3. IsFiniteSet(S) /\ Cardinality(S) = IF Head(in[i]) = job THEN Cardinality(Occurs(in, job)) - 1
                                           ELSE Cardinality(Occurs(in, job))
    <2>1. z \in Occurs(in, job) <=> Head(in[i]) = job
      BY <1>1, <1>0
    <2> QED BY <2>1, FS_RemoveElement
  <1>4. ASSUME NEW y \in S
        PROVE  /\ f[y] \in Occurs(out, job)
               /\ \E j \in Ids : \E n \in Nat : y = <<j, n>> /\ f[y] = IF j = i THEN <<i, n - 1>> ELSE <<j, n>>
    <2>2. PICK j \in Ids, n \in Nat : n \in DOMAIN in[j] /\ in[j][n] = job /\ y = <<j, n>>
      BY <1>0
    <2>3. n \in Nat /\ in[j] \in Seq(Jobs)
      OBVIOUS
    <2>4. CASE j = i
      <3>1. n # 1
        BY <2>2, <2>4
      <3>2. n - 1 \in DOMAIN out[i] /\ n - 1 \in Nat /\ out[i][n - 1] = job
        BY <1>1, <1>2, <2>2, <2>4, <3>1
      <3>3. f[y] = <<i, n - 1>>
        BY <2>2, <2>4
      <3> QED BY <2>2, <2>3, <2>4, <3>2, <3>3, <1>0
    <2>5. CASE j # i
      <3>1. f[y] = y
        BY <2>2, <2>5
      <3>2. y \in Occurs(out, job)
        BY <1>1, <2>2, <2>5, <1>0
      <3> QED BY <2>2, <2>3, <2>5, <3>1, <3>2
    <2> QED BY <2>4, <2>5
  <1>5. ASSUME NEW x \in Occurs(out, job) PROVE \E y \in S : f[y] = x
    <2>2. PICK j \in Ids, n \in Nat : n \in DOMAIN out[j] /\ out[j][n] = job /\ x = <<j, n>>
      BY <1>0
    <2>3. CASE j = i
      <3> DEFINE y == <<i, n + 1>>
      <3>1. n + 1 \in DOMAIN in[i] /\ in[i][n + 1] = job /\ n \in Nat /\ n + 1 # 1
        BY <1>2, <2>2, <2>3
      <3>2. y \in Occurs(in, job)
        BY <3>1, <1>0
      <3>3. y # z
        BY <3>1
      <3>4. y \in S /\ y[1] = i /\ y[2] = n + 1
        BY <3>2, <3>3
      <3>5. f[y] = x
        BY <2>2, <2>3, <3>1, <3>4
      <3> QED BY <3>4, <3>5
    <2>4. CASE j # i
      <3>1. x \in S
        BY <1>1, <2>2, <2>4, <1>0
      <3>2. f[x] = x
        BY <2>2, <2>4, <3>1
      <3> QED BY <3>1, <3>2
    <2> QED BY <2>3, <2>4
  <1>6. ASSUME NEW x \in S, NEW y \in S, f[x] = f[y] PROVE x = y
    <2>1. PICK j \in Ids, n \in Nat : x = <<j, n>> /\ f[x] = IF j = i THEN <<i, n - 1>> ELSE <<j, n>>
      BY <1>4
    <2>2. PICK k \in Ids, m \in Nat : y = <<k, m>> /\ f[y] = IF k = i THEN <<i, m - 1>> ELSE <<k, m>>
      BY <1>4
    <2> HIDE DEF f
    <2>3. (j = i) <=> (k = i)
      BY <1>6, <2>1, <2>2
    <2> QED BY <1>6, <2>1, <2>2, <2>3
  <1>7. f \in [S -> Occurs(out, job)]
    BY <1>4
  <1>8. f \in Bijection(S, Occurs(out, job))
    <2> HIDE DEF f, S
    <2> QED BY <1>5, <1>6, <1>7 DEF Bijection, Injection, Surjection, IsInjective
  <1>9. ExistsBijection(S, Occurs(out, job))
    BY <1>8 DEF ExistsBijection
  <1> HIDE DEF S
  <1> QED BY <1>3, <1>9, FS_Bijection

\* The sets that are counted are finite.
LEMMA Counted ==
    ASSUME NEW s
    PROVE  /\ IsFiniteSet(Arrived(s)) /\ IsFiniteSet(Arrived(s)')
           /\ IsFiniteSet(Served(s)) /\ IsFiniteSet(Served(s)')
           /\ IsFiniteSet(Pushed(s)) /\ IsFiniteSet(Pushed(s)')
           /\ Cardinality(Arrived(s)) \in Nat /\ Cardinality(Arrived(s)') \in Nat
           /\ Cardinality(Served(s)) \in Nat /\ Cardinality(Served(s)') \in Nat
           /\ Cardinality(Pushed(s)) \in Nat /\ Cardinality(Pushed(s)') \in Nat
  <1>1. /\ Arrived(s) \in SUBSET Threads /\ Arrived(s)' \in SUBSET Threads
        /\ Served(s) \in SUBSET Threads /\ Served(s)' \in SUBSET Threads
        /\ Pushed(s) \in SUBSET Requests /\ Pushed(s)' \in SUBSET Requests
    BY DEF Arrived, Served, Pushed
  <1>2. /\ IsFiniteSet(Arrived(s)) /\ IsFiniteSet(Arrived(s)')
        /\ IsFiniteSet(Served(s)) /\ IsFiniteSet(Served(s)')
        /\ IsFiniteSet(Pushed(s)) /\ IsFiniteSet(Pushed(s)')
    BY <1>1, Constants, FS_Subset
  <1> QED BY <1>2, FS_CardinalityType

LEMMA InitIInv == Init => IInv
  <1> SUFFICES ASSUME Init PROVE IInv
    OBVIOUS
  <1>1. TypeOK
    <2>1. current \in [Ids -> Threads]
      BY Constants DEF Ids, Threads, Init, PoolInit, StrandInit
    <2>2. \A k \in Threads : k <= Count => k - 1 \in Ids
      BY Constants DEF Ids, Threads
    <2>3. thread \in [Threads -> [id : Ids, at : {"none", "idle", "busy"}, running : BOOLEAN,
                               job : Jobs \cup {NoJob}]]
      <3>1. Ended \in [id : Ids, at : {"none", "idle", "busy"}, running : BOOLEAN, job : Jobs \cup {NoJob}]
        BY Constants DEF Ended, Ids
      <3>2. \A i \in Ids : Started(i) \in [id : Ids, at : {"none", "idle", "busy"}, running : BOOLEAN,
                                           job : Jobs \cup {NoJob}]
        BY DEF Started
      <3> QED BY <2>2, <3>1, <3>2 DEF Init, PoolInit
    <2>4. nextWorker \in Ids /\ input \in [Ids -> Seq(Jobs)]
      BY Constants DEF Ids, Init, PoolInit, StrandInit
    <2>5. worker \in [Threads -> [at : {"idle", "pop", "run", "leave"},
                                  strand : Strands \cup {NoStrand}, handler : Handlers \cup {NoHandler}]]
      BY DEF Idle, Init, PoolInit, StrandInit
    <2>8. queue \in [Strands -> Seq(Cells)]
      BY DEF Init, StrandInit
    <2>6. /\ deferred \in [Strands -> Nat]
          /\ refused \in [Strands -> SUBSET Handlers] /\ missed \in [Strands -> Nat]
          /\ global \in [Wallets -> Strands \cup {NoStrand}]
          /\ callbacks \subseteq Requests /\ told \subseteq Requests /\ lost \subseteq Requests
          /\ overdue \in Ids \cup {NoId} /\ expelledCount \in Nat /\ terminated \in BOOLEAN
      BY DEF Init, PoolInit, StrandInit
    <2>7. req \in [Requests -> [at : {"new", "queued", "create", "push", "fill", "call", "posted"},
                                wallet : Strands \cup {NoStrand}]]
      BY DEF Init, PoolInit, StrandInit
    <2> QED BY <2>1, <2>3, <2>4, <2>5, <2>6, <2>7, <2>8 DEF TypeOK, callbackVars
  <1>2. PoolOK
    <2>1. \A i \in Ids : thread[current[i]] = Started(i)
      BY Constants DEF Ids, Threads, Init, PoolInit, StrandInit
    <2>2. \A k \in Threads : thread[k].at # "busy" /\ thread[k].job = NoJob
      BY DEF Started, Ended, Init, PoolInit, StrandInit
    <2>3. \A k \in Threads : k > Count + expelledCount => thread[k].at = "none"
      BY Constants DEF Started, Ended, Threads, Init, PoolInit, StrandInit
    <2>4. overdue = NoId
      BY DEF Init, PoolInit, StrandInit
    <2>5. \A i \in Ids : /\ thread[current[i]].id = i
                         /\ thread[current[i]].at # "none" /\ thread[current[i]].running
      <3> SUFFICES ASSUME NEW i \in Ids
                   PROVE  /\ thread[current[i]].id = i
                          /\ thread[current[i]].at # "none" /\ thread[current[i]].running
        OBVIOUS
      <3>1. thread[current[i]] = [id |-> i, at |-> "idle", running |-> TRUE, job |-> NoJob]
        BY <2>1 DEF Started
      <3> QED BY <3>1
    <2> QED BY <2>2, <2>3, <2>4, <2>5 DEF PoolOK
  <1>3. WorkersOK
    BY DEF WorkersOK, Idle, Init, PoolInit, StrandInit
  <1>4. StrandExclusive /\ CountsOK
    BY Constants DEF StrandExclusive, CountsOK, Inside, Idle, Init, PoolInit, StrandInit
  <1>5. RequestsOK
    BY DEF RequestsOK, Init, PoolInit, StrandInit
  <1>6. PopsOK
    <2> SUFFICES ASSUME NEW s \in Strands PROVE PopsOKOf(s)
      BY DEF PopsOK
    <2>1. Occurs(input, Call(s)) = {}
      BY DEF Occurs, Init, PoolInit, StrandInit
    <2>2. Arrived(s) = {}
      BY JobKinds DEF Arrived, Started, Ended, Init, PoolInit, StrandInit
    <2>3. Served(s) = {} /\ Pushed(s) = {}
      BY DEF Served, Pushed, Idle, Init, PoolInit, StrandInit
    <2>4. deferred[s] = 0 /\ Len(queue[s]) = 0 /\ refused[s] = {} /\ missed[s] = 0
      BY DEF Init, PoolInit, StrandInit
    <2>5. Pops(s) = 0
      BY <2>1, <2>2, <2>3, <2>4, FS_EmptySet DEF Pops
    <2> QED BY <2>1, <2>4, <2>5, FS_EmptySet DEF PopsOKOf
  <1>7. EmptyHanded
    BY DEF EmptyHanded, Idle, Init, PoolInit, StrandInit
  <1>8. PostedOK
    BY DEF PostedOK, Init, PoolInit, StrandInit
  <1> QED BY <1>1, <1>2, <1>3, <1>4, <1>5, <1>6, <1>7, <1>8 DEF IInv

-----------------------------------------------------------------------------
(* What a step leaves alone.                                                 *)

LEMMA StrandsSame ==
    ASSUME StrandExclusive, CountsOK, worker' = worker, deferred' = deferred
    PROVE  StrandExclusive' /\ CountsOK'
  BY DEF StrandExclusive, CountsOK, Inside

LEMMA PopsSame ==
    ASSUME NEW s \in Strands, PopsOKOf(s), IsFiniteSet(Occurs(input', Call(s))),
           Cardinality(Occurs(input', Call(s))) = Cardinality(Occurs(input, Call(s))),
           Arrived(s)' = Arrived(s), Served(s)' = Served(s), Pushed(s)' = Pushed(s),
           deferred'[s] = deferred[s], Len(queue'[s]) = Len(queue[s]),
           refused'[s] = refused[s], missed'[s] = missed[s]
    PROVE  PopsOKOf(s)'
  BY DEF PopsOKOf, Pops

LEMMA CallsPosted ==
    ASSUME IInv, NEW s \in Strands, NEW i \in Ids, NEW x \in Jobs,
           input' = [input EXCEPT ![i] = Append(@, x)]
    PROVE  /\ IsFiniteSet(Occurs(input', Call(s)))
           /\ Cardinality(Occurs(input', Call(s))) =
                 IF x = Call(s) THEN Cardinality(Occurs(input, Call(s))) + 1
                 ELSE Cardinality(Occurs(input, Call(s)))
  <1>1. input \in [Ids -> Seq(Jobs)] /\ IsFiniteSet(Occurs(input, Call(s)))
    BY DEF IInv, TypeOK, PopsOK, PopsOKOf, callbackVars
  <1>2. input' = Appended(input, i, x)
    BY DEF Appended
  <1>3. /\ IsFiniteSet(Occurs(Appended(input, i, x), Call(s)))
        /\ Cardinality(Occurs(Appended(input, i, x), Call(s))) =
              IF x = Call(s) THEN Cardinality(Occurs(input, Call(s))) + 1
              ELSE Cardinality(Occurs(input, Call(s)))
    BY <1>1, OccursAppended
  <1> QED BY <1>2, <1>3

LEMMA CallsTaken ==
    ASSUME IInv, NEW s \in Strands, NEW i \in Ids, input[i] # <<>>,
           input' = [input EXCEPT ![i] = Tail(@)]
    PROVE  /\ IsFiniteSet(Occurs(input', Call(s)))
           /\ Cardinality(Occurs(input', Call(s))) =
                 IF Head(input[i]) = Call(s) THEN Cardinality(Occurs(input, Call(s))) - 1
                 ELSE Cardinality(Occurs(input, Call(s)))
  <1>1. input \in [Ids -> Seq(Jobs)] /\ IsFiniteSet(Occurs(input, Call(s)))
    BY DEF IInv, TypeOK, PopsOK, PopsOKOf, callbackVars
  <1>2. input' = Taken(input, i)
    BY DEF Taken
  <1>3. /\ IsFiniteSet(Occurs(Taken(input, i), Call(s)))
        /\ Cardinality(Occurs(Taken(input, i), Call(s))) =
              IF Head(input[i]) = Call(s) THEN Cardinality(Occurs(input, Call(s))) - 1
              ELSE Cardinality(Occurs(input, Call(s)))
    BY <1>1, OccursTaken
  <1> QED BY <1>2, <1>3

LEMMA CallsSame ==
    ASSUME IInv, NEW s \in Strands, input' = input
    PROVE  /\ IsFiniteSet(Occurs(input', Call(s)))
           /\ Cardinality(Occurs(input', Call(s))) = Cardinality(Occurs(input, Call(s)))
  BY DEF IInv, PopsOK, PopsOKOf

\* A callback is handed over, or is lost: its request was carried out.
LEMMA TellCarriedOut ==
    ASSUME NEW r, Tell(r)
    PROVE  CarriedOut(r)' /\ \A q : CarriedOut(q) => CarriedOut(q)'
  BY DEF Tell, CarriedOut

LEMMA TellTypes ==
    ASSUME NEW r \in Requests, Tell(r),
           callbacks \subseteq Requests, told \subseteq Requests, lost \subseteq Requests
    PROVE  callbacks' \subseteq Requests /\ told' \subseteq Requests /\ lost' \subseteq Requests
  BY DEF Tell

LEMMA CarriedOutSame ==
    ASSUME callbackVars' = callbackVars
    PROVE  \A q : CarriedOut(q) => CarriedOut(q)'
  BY DEF CarriedOut, callbackVars

\* Requests, handlers and accounts that are on their way stay so when queues, workers and
\* threads do.
LEMMA DoneSame ==
    ASSUME NEW r, Done(r), CarriedOut(r) => CarriedOut(r)', refused' = refused, queue' = queue,
           worker' = worker, input' = input, thread' = thread
    PROVE  Done(r)'
  BY DEF Done, CarriedOut, callbackVars

-----------------------------------------------------------------------------
(* Requests.                                                                 *)

LEMMA ArriveIInv == ASSUME IInv, NEW r \in Requests, Arrive(r) PROVE IInv'
  <1>1. PICK i \in Ids : /\ input' = [input EXCEPT ![i] = Append(@, Request(r))]
                         /\ nextWorker' = (i + 1) % Count
    <2>1. PICK n \in Ids :
            LET i == (nextWorker + n) % Count IN
            /\ input' = [input EXCEPT ![i] = Append(@, Request(r))]
            /\ nextWorker' = (i + 1) % Count
      BY DEF Arrive, PostFromOutside
    <2>2. nextWorker + n \in Nat
      BY DEF IInv, TypeOK, Ids, callbackVars
    <2> QED BY <2>1, <2>2, Turn
  <1>2. /\ req' = [req EXCEPT ![r] = [at |-> "queued", wallet |-> NoStrand]]
        /\ UNCHANGED <<current, thread, overdue, expelledCount, terminated, strandVars, global, callbackVars>>
    BY DEF Arrive, PostFromOutside, Goto
  <1>3. /\ queue' = queue /\ deferred' = deferred /\ worker' = worker
        /\ refused' = refused /\ missed' = missed
    BY <1>2 DEF strandVars
  <1>4. TypeOK'
    <2>1. nextWorker' \in Ids
      BY <1>1, Turn DEF Ids
    <2>2. input' \in [Ids -> Seq(Jobs)]
      BY <1>1, JobKinds DEF IInv, TypeOK, callbackVars
    <2>3. req' \in [Requests -> [at : {"new", "queued", "create", "push", "fill", "call", "posted"},
                                wallet : Strands \cup {NoStrand}]]
      BY <1>2 DEF IInv, TypeOK, callbackVars
    <2> QED BY <1>2, <1>3, <2>1, <2>2, <2>3 DEF IInv, TypeOK, callbackVars
  <1>5. PoolOK'
    BY <1>2 DEF IInv, PoolOK
  <1>6. WorkersOK'
    BY <1>2, <1>3 DEF IInv, WorkersOK
  <1>7. StrandExclusive' /\ CountsOK'
    BY <1>3, StrandsSame DEF IInv
  <1>8. RequestsOK'
    BY <1>2, <1>3 DEF IInv, RequestsOK, TypeOK, Arrive
  <1>9. PopsOK'
    <2> SUFFICES ASSUME NEW s \in Strands PROVE PopsOKOf(s)'
      BY DEF PopsOK
    <2>1. /\ IsFiniteSet(Occurs(input', Call(s)))
          /\ Cardinality(Occurs(input', Call(s))) = Cardinality(Occurs(input, Call(s)))
      <3>1. Request(r) \in Jobs /\ Request(r) # Call(s)
        BY JobKinds
      <3>2. input' = [input EXCEPT ![i] = Append(@, Request(r))]
        BY <1>1
      <3> QED BY <3>1, <3>2, CallsPosted
    <2>2. Arrived(s)' = Arrived(s) /\ Served(s)' = Served(s)
      BY <1>2, <1>3 DEF Arrived, Served
    <2>3. Pushed(s)' = Pushed(s)
      BY <1>2 DEF Pushed, IInv, TypeOK, Arrive, callbackVars
    <2> QED BY <1>3, <2>1, <2>2, <2>3, PopsSame DEF IInv, PopsOK
  <1>10. EmptyHanded'
    BY <1>3 DEF IInv, EmptyHanded
  <1>11. PostedOK'
    <2> SUFFICES ASSUME NEW q \in Requests, req'[q].at \in {"fill", "call", "posted"} PROVE Done(q)'
      BY DEF PostedOK
    <2>1. q # r /\ Done(q)
      BY <1>2 DEF IInv, PostedOK, TypeOK, callbackVars
    <2>2. \A j \in Ids : \A n \in DOMAIN input[j] : n \in DOMAIN input'[j] /\ input'[j][n] = input[j][n]
      BY <1>1 DEF IInv, TypeOK, callbackVars
    <2> QED BY <1>2, <1>3, <2>1, <2>2 DEF Done, CarriedOut, callbackVars
  <1> QED BY <1>4, <1>5, <1>6, <1>7, <1>8, <1>9, <1>10, <1>11 DEF IInv

\* A step that only changes what a request or the global context has.
LEMMA LookIInv ==
    ASSUME IInv, TypeOK', UNCHANGED <<poolVars, strandVars>>,
           \A q : CarriedOut(q) => CarriedOut(q)',
           \A q \in Requests : req'[q] = req[q] \/
              (/\ req[q].at \in {"queued", "create"}
               /\ req'[q].at \in {"create", "push"}
               /\ q \in WalletRequests
               /\ req'[q].at = "push" => /\ req'[q].wallet \in Strands
                                         /\ \E k \in Threads : thread[k].job = Request(q))
    PROVE  IInv'
  <1>1. /\ queue' = queue /\ deferred' = deferred /\ worker' = worker
        /\ refused' = refused /\ missed' = missed
        /\ input' = input /\ current' = current /\ thread' = thread /\ nextWorker' = nextWorker
        /\ overdue' = overdue /\ expelledCount' = expelledCount /\ terminated' = terminated
    BY DEF strandVars, poolVars
  <1>2. PoolOK' /\ WorkersOK'
    BY <1>1 DEF IInv, PoolOK, WorkersOK
  <1>3. StrandExclusive' /\ CountsOK'
    BY <1>1, StrandsSame DEF IInv
  <1>4. RequestsOK'
    BY <1>1 DEF IInv, RequestsOK
  <1>5. PopsOK'
    <2> SUFFICES ASSUME NEW s \in Strands PROVE PopsOKOf(s)'
      BY DEF PopsOK
    <2>2. Arrived(s)' = Arrived(s) /\ Served(s)' = Served(s)
      BY <1>1 DEF Arrived, Served
    <2>3. \A q \in Requests : q \in Pushed(s)' <=> q \in Pushed(s)
      BY DEF Pushed
    <2>4. Pushed(s)' = Pushed(s)
      BY <2>3 DEF Pushed
    <2> QED BY <1>1, <2>2, <2>4, CallsSame, PopsSame DEF IInv, PopsOK
  <1>6. EmptyHanded'
    BY <1>1 DEF IInv, EmptyHanded
  <1>7. PostedOK'
    BY <1>1, DoneSame DEF IInv, PostedOK
  <1> QED BY <1>2, <1>3, <1>4, <1>5, <1>6, <1>7 DEF IInv

LEMMA GetWalletIInv ==
    ASSUME IInv, NEW r \in Requests, NEW k \in Threads, Busy(k, Request(r)), GetWallet(r) PROVE IInv'
  <1>1. /\ req' = [req EXCEPT ![r] = [at |-> IF global[walletOf[r]] = NoStrand THEN "create" ELSE "push",
                                      wallet |-> global[walletOf[r]]]]
        /\ UNCHANGED <<poolVars, strandVars, global, callbackVars>>
    BY DEF GetWallet, Goto
  <1>2. global[walletOf[r]] \in Strands \cup {NoStrand}
    BY Constants DEF IInv, TypeOK, callbackVars
  <1>3. TypeOK'
    BY <1>1, <1>2 DEF IInv, TypeOK, poolVars, strandVars, callbackVars
  <1>4. thread[k].job = Request(r) /\ r \in WalletRequests /\ req[r].at = "queued"
    BY DEF Busy, GetWallet
  <1>5. \A q \in Requests : q # r => req'[q] = req[q]
    BY <1>1 DEF IInv, TypeOK, callbackVars
  <1>6. req'[r] = [at |-> IF global[walletOf[r]] = NoStrand THEN "create" ELSE "push",
                   wallet |-> global[walletOf[r]]]
    BY <1>1 DEF IInv, TypeOK, callbackVars
  <1> QED BY <1>1, <1>2, <1>3, <1>4, <1>5, <1>6, CarriedOutSame, LookIInv

LEMMA CreateWalletIInv ==
    ASSUME IInv, NEW r \in Requests, NEW k \in Threads, Busy(k, Request(r)),
           NEW s \in Strands, CreateWallet(r, s)
    PROVE  IInv'
  <1>1. /\ req' = [req EXCEPT ![r] = [at |-> "push", wallet |-> s]]
        /\ global' = [global EXCEPT ![walletOf[r]] = s]
        /\ UNCHANGED <<poolVars, strandVars, callbackVars>>
    BY DEF CreateWallet, Goto
  <1>2. TypeOK'
    BY <1>1 DEF IInv, TypeOK, poolVars, strandVars, callbackVars
  <1>3. thread[k].job = Request(r) /\ req[r].at = "create"
    BY DEF Busy, CreateWallet
  <1>4. r \in WalletRequests
    BY <1>3 DEF IInv, RequestsOK
  <1>5. \A q \in Requests : q # r => req'[q] = req[q]
    BY <1>1 DEF IInv, TypeOK, callbackVars
  <1>6. req'[r] = [at |-> "push", wallet |-> s]
    BY <1>1 DEF IInv, TypeOK, callbackVars
  <1> QED BY <1>1, <1>2, <1>3, <1>4, <1>5, <1>6, CarriedOutSame, LookIInv

LEMMA ExpireIInv == ASSUME IInv, NEW w \in Wallets, Expire(w) PROVE IInv'
  <1>1. /\ global' = [global EXCEPT ![w] = NoStrand] /\ req' = req
        /\ UNCHANGED <<poolVars, strandVars, callbackVars>>
    BY DEF Expire
  <1>2. TypeOK'
    BY <1>1 DEF IInv, TypeOK, poolVars, strandVars, callbackVars
  <1> QED BY <1>1, <1>2, CarriedOutSame, LookIInv

LEMMA TakeCallbackIInv == ASSUME IInv, NEW r \in Requests, TakeCallback(r) PROVE IInv'
  <1>1. /\ callbacks' = callbacks \ {r} /\ told' = told \cup {r} /\ lost' = lost
        /\ r \in callbacks /\ global' = global /\ req' = req
        /\ UNCHANGED <<poolVars, strandVars>>
    BY DEF TakeCallback
  <1>2. \A q : CarriedOut(q) => CarriedOut(q)'
    BY <1>1 DEF CarriedOut
  <1>3. TypeOK'
    BY <1>1 DEF IInv, TypeOK, poolVars, strandVars
  <1> QED BY <1>1, <1>2, <1>3, LookIInv

\* The process ends.
LEMMA PoolFullIInv == ASSUME IInv, NEW r \in Requests, NEW k \in Threads, PoolFull(k, r) PROVE IInv'
  <1>1. /\ UNCHANGED <<input, current, thread, nextWorker, overdue, expelledCount>> /\ terminated' = TRUE
        /\ UNCHANGED <<strandVars, walletVars>>
    BY DEF PoolFull, PostThrows
  <1>2. /\ queue' = queue /\ deferred' = deferred /\ worker' = worker
        /\ refused' = refused /\ missed' = missed /\ callbackVars' = callbackVars /\ req' = req
        /\ global' = global
    BY <1>1 DEF strandVars, walletVars
  <1>3. TypeOK'
    BY <1>1, <1>2 DEF IInv, TypeOK, callbackVars
  <1>4. PoolOK' /\ WorkersOK' /\ RequestsOK' /\ EmptyHanded'
    BY <1>1, <1>2 DEF IInv, PoolOK, WorkersOK, RequestsOK, EmptyHanded
  <1>5. StrandExclusive' /\ CountsOK'
    BY <1>2, StrandsSame DEF IInv
  <1>6. PopsOK'
    <2> SUFFICES ASSUME NEW s \in Strands PROVE PopsOKOf(s)'
      BY DEF PopsOK
    <2>1. Arrived(s)' = Arrived(s) /\ Served(s)' = Served(s) /\ Pushed(s)' = Pushed(s)
      BY <1>1, <1>2 DEF Arrived, Served, Pushed
    <2> QED BY <1>1, <1>2, <2>1, CallsSame, PopsSame DEF IInv, PopsOK
  <1>7. PostedOK'
    BY <1>1, <1>2, CarriedOutSame, DoneSame DEF IInv, PostedOK
  <1> QED BY <1>3, <1>4, <1>5, <1>6, <1>7 DEF IInv

LEMMA PushRequestIInv ==
    ASSUME IInv, NEW r \in Requests, NEW k \in Threads, Busy(k, Request(r)), PushRequest(r)
    PROVE  IInv'
  <1> DEFINE h == req[r].wallet
             room == Len(queue[h]) < QueueSize
             cell == [handler |-> r, filled |-> FALSE]
  <1>1. /\ req[r].at = "push" /\ h \in Strands /\ r \in WalletRequests /\ r \in Handlers
        /\ thread[k].job = Request(r)
    BY Constants DEF IInv, RequestsOK, PushRequest, Busy
  <1>2. /\ room => queue' = [queue EXCEPT ![h] = Append(@, cell)] /\ refused' = refused
        /\ ~room => queue' = queue /\ refused' = [refused EXCEPT ![h] = @ \cup {r}]
        /\ req' = [req EXCEPT ![r] = [at |-> "fill", wallet |-> h]]
        /\ deferred' = deferred /\ worker' = worker /\ missed' = missed
        /\ UNCHANGED poolVars /\ global' = global /\ callbackVars' = callbackVars
    BY DEF PushRequest, Push, Goto
  <1>3. /\ input' = input /\ current' = current /\ thread' = thread /\ nextWorker' = nextWorker
        /\ overdue' = overdue /\ expelledCount' = expelledCount /\ terminated' = terminated
    BY <1>2 DEF poolVars
  <1>4. /\ \A q \in Requests : q # r => req'[q] = req[q]
        /\ req'[r].at = "fill" /\ req'[r].wallet = h
    BY <1>2 DEF IInv, TypeOK, callbackVars
  <1> HIDE DEF h
  <1>5. /\ \A s \in Strands : s # h => queue'[s] = queue[s] /\ refused'[s] = refused[s]
        /\ room => queue'[h] = Append(queue[h], cell) /\ refused'[h] = refused[h]
        /\ ~room => queue'[h] = queue[h] /\ refused'[h] = refused[h] \cup {r}
    BY <1>1, <1>2 DEF IInv, TypeOK, callbackVars
  <1>6. TypeOK'
    <2>1. queue' \in [Strands -> Seq(Cells)]
      <3>1. cell \in Cells
        BY <1>1 DEF Cells
      <3>2. queue \in [Strands -> Seq(Cells)]
        BY DEF IInv, TypeOK, callbackVars
      <3>3. Append(queue[h], cell) \in Seq(Cells)
        BY <1>1, <3>1, <3>2
      <3> HIDE DEF cell
      <3> QED BY <1>1, <1>2, <3>2, <3>3
    <2>2. refused' \in [Strands -> SUBSET Handlers]
      <3>1. refused \in [Strands -> SUBSET Handlers]
        BY DEF IInv, TypeOK
      <3>2. refused[h] \cup {r} \in SUBSET Handlers
        BY <1>1, <3>1
      <3> QED BY <1>1, <1>2, <3>1, <3>2
    <2>3. req' \in [Requests -> [at : {"new", "queued", "create", "push", "fill", "call", "posted"},
                                wallet : Strands \cup {NoStrand}]]
      BY <1>1, <1>2 DEF IInv, TypeOK, callbackVars
    <2> QED BY <1>2, <1>3, <2>1, <2>2, <2>3 DEF IInv, TypeOK, callbackVars
  <1>7. PoolOK' /\ WorkersOK'
    BY <1>2, <1>3 DEF IInv, PoolOK, WorkersOK
  <1>8. StrandExclusive' /\ CountsOK'
    BY <1>2, StrandsSame DEF IInv
  <1>9. RequestsOK'
    BY <1>1, <1>3, <1>4, <1>5 DEF IInv, RequestsOK
  <1>10. PopsOK'
    <2> SUFFICES ASSUME NEW s \in Strands PROVE PopsOKOf(s)'
      BY DEF PopsOK
    <2>1. Arrived(s)' = Arrived(s) /\ Served(s)' = Served(s)
      BY <1>2, <1>3 DEF Arrived, Served
    <2>2. CASE s # h
      <3>1. Pushed(s)' = Pushed(s)
        <4>1. \A q \in Requests : q \in Pushed(s)' <=> q \in Pushed(s)
          BY <1>1, <1>4, <2>2 DEF Pushed, h
        <4> QED BY <4>1 DEF Pushed
      <3> QED BY <1>2, <1>3, <1>5, <2>1, <2>2, <3>1, CallsSame, PopsSame DEF IInv, PopsOK
    <2>3. CASE s = h
      <3>1. r \notin Pushed(s)
        BY <1>1 DEF Pushed
      <3>2. Pushed(s)' = Pushed(s) \cup {r}
        <4>1. \A q \in Requests : q \in Pushed(s)' <=> q \in Pushed(s) \/ q = r
          BY <1>4, <2>3 DEF Pushed
        <4> QED BY <4>1 DEF Pushed
      <3>3. Cardinality(Pushed(s)') = Cardinality(Pushed(s)) + 1
        BY <3>1, <3>2, Counted, OneMore
      <3>4. room => Len(queue'[s]) = Len(queue[s]) + 1
        BY <1>5, <2>3 DEF IInv, TypeOK, callbackVars
      <3>5. deferred'[s] = deferred[s] /\ deferred[s] \in Nat /\ Len(queue[s]) \in Nat
        BY <1>2 DEF IInv, TypeOK, callbackVars
      <3>6. /\ IsFiniteSet(Occurs(input', Call(s)))
            /\ Cardinality(Occurs(input', Call(s))) = Cardinality(Occurs(input, Call(s)))
            /\ Cardinality(Occurs(input, Call(s))) \in Nat
        BY <1>3, CallsSame, FS_CardinalityType
      <3>7. Pops(s)' = Pops(s) + 1 /\ Pops(s) \in Int
        <4>1. /\ Cardinality(Arrived(s)) \in Nat /\ Cardinality(Served(s)) \in Nat
              /\ Cardinality(Pushed(s)) \in Nat
          BY Counted
        <4>2. Pops(s)' = Cardinality(Occurs(input', Call(s))) + Cardinality(Arrived(s)') + deferred'[s]
                            + Cardinality(Pushed(s)') - Cardinality(Served(s)')
          BY DEF Pops
        <4> QED BY <2>1, <3>3, <3>5, <3>6, <4>1, <4>2 DEF Pops
      <3>8. PopsOKOf(s)
        BY DEF IInv, PopsOK
      <3>9. CASE room
        <4>1. missed[s] \in Nat /\ Cardinality(refused[s]) \in Nat
          BY <3>8, FS_CardinalityType DEF IInv, TypeOK, PopsOKOf
        <4>2. /\ missed'[s] = missed[s] /\ refused'[s] = refused[s]
              /\ Len(queue'[s]) = Len(queue[s]) + 1
          BY <1>2, <1>5, <2>3, <3>4, <3>9
        <4>3. Pops(s) + missed[s] = Len(queue[s]) + Cardinality(refused[s])
          BY <3>8 DEF PopsOKOf
        <4>4. Pops(s)' + missed'[s] = Len(queue'[s]) + Cardinality(refused'[s])
          BY <3>5, <3>7, <4>1, <4>2, <4>3
        <4>5. IsFiniteSet(refused'[s])
          BY <3>8, <4>2 DEF PopsOKOf
        <4> QED BY <3>6, <4>4, <4>5 DEF PopsOKOf
      <3>10. CASE ~room
        <4>1. r \notin refused[s] /\ IsFiniteSet(refused[s]) /\ refused'[s] = refused[s] \cup {r}
          BY <1>1, <1>5, <2>3, <3>8, <3>10 DEF IInv, RequestsOK, PopsOKOf
        <4>2. IsFiniteSet(refused'[s]) /\ Cardinality(refused'[s]) = Cardinality(refused[s]) + 1
          BY <4>1, OneMore
        <4>3. missed[s] \in Nat /\ Cardinality(refused[s]) \in Nat
          BY <4>1, FS_CardinalityType DEF IInv, TypeOK
        <4>4. missed'[s] = missed[s] /\ Len(queue'[s]) = Len(queue[s])
          BY <1>2, <1>5, <2>3, <3>10
        <4>5. Pops(s) + missed[s] = Len(queue[s]) + Cardinality(refused[s])
          BY <3>8 DEF PopsOKOf
        <4>6. Pops(s)' + missed'[s] = Len(queue'[s]) + Cardinality(refused'[s])
          <5>1. Cardinality(refused'[s]) = Cardinality(refused[s]) + 1
            BY <4>2
          <5>2. (Pops(s) + 1) + missed[s] = Len(queue[s]) + (Cardinality(refused[s]) + 1)
            BY <3>5, <3>7, <4>3, <4>5
          <5> QED BY <3>7, <4>4, <5>1, <5>2
        <4> QED BY <3>6, <4>2, <4>6 DEF PopsOKOf
      <3> QED BY <3>9, <3>10
    <2> QED BY <2>2, <2>3
  <1>11. EmptyHanded'
    <2> SUFFICES ASSUME NEW l \in Threads, worker[l].at \in {"run", "leave"}, worker[l].handler = NoHandler,
                        refused'[worker[l].strand] = {}
                 PROVE  queue'[worker[l].strand] # <<>>
      BY <1>2 DEF EmptyHanded
    <2>1. worker[l].strand \in Strands
      BY DEF IInv, WorkersOK
    <2>2. refused[worker[l].strand] = {}
      BY <1>5, <2>1
    <2>3. queue[worker[l].strand] # <<>>
      BY <2>2 DEF IInv, EmptyHanded
    <2>4. queue[h] \in Seq(Cells)
      BY <1>1 DEF IInv, TypeOK, callbackVars
    <2>5. Append(queue[h], cell) # <<>>
      BY <2>4
    <2> QED BY <1>5, <2>1, <2>3, <2>5
  <1>12. PostedOK'
    <2> SUFFICES ASSUME NEW q \in Requests, req'[q].at \in {"fill", "call", "posted"} PROVE Done(q)'
      BY DEF PostedOK
    <2>1. CASE q = r
      <3>1. CASE room
        <4>1. /\ Len(queue[h]) + 1 \in DOMAIN queue'[h]
              /\ queue'[h][Len(queue[h]) + 1].handler = r
          BY <1>1, <1>5, <3>1 DEF IInv, TypeOK, callbackVars
        <4> QED BY <1>1, <2>1, <4>1 DEF Done, CarriedOut, callbackVars
      <3>2. CASE ~room
        BY <1>1, <1>5, <2>1, <3>2 DEF Done, CarriedOut, callbackVars
      <3> QED BY <3>1, <3>2
    <2>2. CASE q # r
      <3>1. Done(q)
        BY <1>4, <2>2 DEF IInv, PostedOK
      <3>2. \A s \in Strands : \A n \in DOMAIN queue[s] :
               n \in DOMAIN queue'[s] /\ queue'[s][n] = queue[s][n]
        <4>1. queue[h] \in Seq(Cells)
          BY <1>1 DEF IInv, TypeOK, callbackVars
        <4>2. \A n \in DOMAIN queue[h] : /\ n \in DOMAIN Append(queue[h], cell)
                                         /\ Append(queue[h], cell)[n] = queue[h][n]
          BY <4>1
        <4> HIDE DEF cell
        <4> QED BY <1>5, <4>2
      <3>3. \A s \in Strands : refused[s] \subseteq refused'[s]
        BY <1>5
      <3> QED BY <1>2, <1>3, <3>1, <3>2, <3>3 DEF Done, CarriedOut, callbackVars
    <2> QED BY <2>1, <2>2
  <1> QED BY <1>6, <1>7, <1>8, <1>9, <1>10, <1>11, <1>12 DEF IInv

LEMMA FillRequestIInv ==
    ASSUME IInv, NEW r \in Requests, NEW k \in Threads, Busy(k, Request(r)), FillRequest(r)
    PROVE  IInv'
  <1> DEFINE h == req[r].wallet
  <1>1. /\ req[r].at = "fill" /\ h \in Strands /\ r \in WalletRequests
        /\ thread[k].job = Request(r)
    BY DEF IInv, RequestsOK, FillRequest, Busy
  <1>2. /\ queue' = [queue EXCEPT ![h] =
                       [i \in DOMAIN @ |-> IF @[i].handler = r THEN [@[i] EXCEPT !.filled = TRUE] ELSE @[i]]]
        /\ req' = [req EXCEPT ![r] = [at |-> "call", wallet |-> h]]
        /\ deferred' = deferred /\ worker' = worker /\ missed' = missed /\ refused' = refused
        /\ UNCHANGED poolVars /\ global' = global /\ callbackVars' = callbackVars
    BY DEF FillRequest, Fill, Goto
  <1>3. /\ input' = input /\ current' = current /\ thread' = thread /\ nextWorker' = nextWorker
        /\ overdue' = overdue /\ expelledCount' = expelledCount /\ terminated' = terminated
    BY <1>2 DEF poolVars
  <1>4. /\ \A q \in Requests : q # r => req'[q] = req[q]
        /\ req'[r].at = "call" /\ req'[r].wallet = h
    BY <1>2 DEF IInv, TypeOK, callbackVars
  <1>5. \A s \in Strands :
           /\ queue'[s] \in Seq(Cells)
           /\ Len(queue'[s]) = Len(queue[s]) /\ DOMAIN queue'[s] = DOMAIN queue[s]
           /\ \A n \in DOMAIN queue[s] : queue'[s][n].handler = queue[s][n].handler
    <2> SUFFICES ASSUME NEW s \in Strands
                 PROVE  /\ queue'[s] \in Seq(Cells)
                        /\ Len(queue'[s]) = Len(queue[s]) /\ DOMAIN queue'[s] = DOMAIN queue[s]
                        /\ \A n \in DOMAIN queue[s] : queue'[s][n].handler = queue[s][n].handler
      OBVIOUS
    <2> DEFINE q == queue[s]
               f == [i \in DOMAIN q |-> IF q[i].handler = r THEN [q[i] EXCEPT !.filled = TRUE] ELSE q[i]]
    <2>1. q \in Seq(Cells)
      BY DEF IInv, TypeOK, callbackVars
    <2>2. CASE s = h
      <3>1. queue'[s] = f
        BY <1>1, <1>2, <2>2 DEF IInv, TypeOK, callbackVars
      <3> HIDE DEF q
      <3>2. \A i \in DOMAIN q : /\ q[i] \in Cells
                                /\ f[i] \in Cells
                                /\ f[i].handler = q[i].handler
        <4> SUFFICES ASSUME NEW i \in DOMAIN q
                     PROVE  /\ q[i] \in Cells
                            /\ f[i] \in Cells
                            /\ f[i].handler = q[i].handler
          OBVIOUS
        <4>1. q[i] \in Cells
          BY <2>1
        <4>2. f[i] = IF q[i].handler = r THEN [q[i] EXCEPT !.filled = TRUE] ELSE q[i]
          OBVIOUS
        <4> HIDE DEF f
        <4> QED BY <4>1, <4>2 DEF Cells
      <3>3. DOMAIN f = 1 .. Len(q) /\ Len(q) \in Nat /\ DOMAIN q = 1 .. Len(q)
        BY <2>1
      <3> HIDE DEF f
      <3>4. f = [i \in 1 .. Len(q) |-> f[i]]
        BY <3>3 DEF f
      <3>5. f \in Seq(Cells) /\ Len(f) = Len(q)
        BY <3>2, <3>3, <3>4
      <3> QED BY <3>1, <3>2, <3>3, <3>5 DEF q
    <2>3. CASE s # h
      <3>1. queue'[s] = queue[s]
        BY <1>2, <2>3 DEF IInv, TypeOK, callbackVars
      <3> QED BY <2>1, <3>1
    <2> QED BY <2>2, <2>3
  <1>6. TypeOK'
    <2>1. queue' \in [Strands -> Seq(Cells)]
      <3>1. queue' = [s \in Strands |-> queue'[s]]
        BY <1>2 DEF IInv, TypeOK, callbackVars
      <3> QED BY <1>5, <3>1
    <2>2. req' \in [Requests -> [at : {"new", "queued", "create", "push", "fill", "call", "posted"},
                                wallet : Strands \cup {NoStrand}]]
      BY <1>1, <1>2 DEF IInv, TypeOK, callbackVars
    <2> QED BY <1>2, <1>3, <2>1, <2>2 DEF IInv, TypeOK, callbackVars
  <1>7. PoolOK' /\ WorkersOK'
    BY <1>2, <1>3 DEF IInv, PoolOK, WorkersOK
  <1>8. StrandExclusive' /\ CountsOK'
    BY <1>2, StrandsSame DEF IInv
  <1> HIDE DEF h
  <1>9. RequestsOK'
    BY <1>1, <1>2, <1>3, <1>4 DEF IInv, RequestsOK
  <1>10. PopsOK'
    <2> SUFFICES ASSUME NEW s \in Strands PROVE PopsOKOf(s)'
      BY DEF PopsOK
    <2>1. Arrived(s)' = Arrived(s) /\ Served(s)' = Served(s)
      BY <1>2, <1>3 DEF Arrived, Served
    <2>2. Pushed(s)' = Pushed(s)
      <3>1. \A q \in Requests : q \in Pushed(s)' <=> q \in Pushed(s)
        BY <1>1, <1>4 DEF Pushed, h
      <3> QED BY <3>1 DEF Pushed
    <2> QED BY <1>2, <1>3, <1>5, <2>1, <2>2, CallsSame, PopsSame DEF IInv, PopsOK
  <1>11. EmptyHanded'
    <2> SUFFICES ASSUME NEW l \in Threads, worker[l].at \in {"run", "leave"}, worker[l].handler = NoHandler,
                        refused[worker[l].strand] = {}
                 PROVE  queue'[worker[l].strand] # <<>>
      BY <1>2 DEF EmptyHanded
    <2>1. worker[l].strand \in Strands
      BY DEF IInv, WorkersOK
    <2>2. queue[worker[l].strand] # <<>>
      BY DEF IInv, EmptyHanded
    <2>3. Len(queue[worker[l].strand]) # 0
      BY <2>1, <2>2 DEF IInv, TypeOK, callbackVars
    <2> QED BY <1>5, <2>1, <2>3
  <1>12. PostedOK'
    <2> SUFFICES ASSUME NEW q \in Requests, req'[q].at \in {"fill", "call", "posted"} PROVE Done(q)'
      BY DEF PostedOK
    <2>1. Done(q)
      BY <1>1, <1>4 DEF IInv, PostedOK
    <2> QED BY <1>2, <1>3, <1>5, <2>1 DEF Done, CarriedOut, callbackVars
  <1> QED BY <1>6, <1>7, <1>8, <1>9, <1>10, <1>11, <1>12 DEF IInv

-----------------------------------------------------------------------------
(* The end of a job.                                                         *)

ThreadType == [id : Ids, at : {"none", "idle", "busy"}, running : BOOLEAN, job : Jobs \cup {NoJob}]

LEMMA JobEnds ==
    ASSUME IInv, NEW k \in Threads, thread[k].at = "busy",
           thread' = [thread EXCEPT ![k].at = "idle", ![k].job = NoJob],
           UNCHANGED <<current, overdue, expelledCount>>
    PROVE  /\ thread' \in [Threads -> ThreadType]
           /\ thread'[k].job = NoJob
           /\ \A l \in Threads : l # k => thread'[l] = thread[l]
           /\ PoolOK'
  <1>1. thread \in [Threads -> ThreadType] /\ current \in [Ids -> Threads]
    BY DEF IInv, TypeOK, ThreadType, callbackVars
  <1>2. /\ thread'[k].id = thread[k].id /\ thread'[k].at = "idle" /\ thread'[k].running = thread[k].running
        /\ thread'[k].job = NoJob
        /\ \A l \in Threads : l # k => thread'[l] = thread[l]
    BY <1>1 DEF ThreadType
  <1>3. thread' \in [Threads -> ThreadType]
    <2>1. thread'[k] \in ThreadType
      BY <1>1 DEF ThreadType
    <2>2. thread' = [l \in Threads |-> thread'[l]]
      BY <1>1
    <2> QED BY <1>1, <1>2, <2>1, <2>2
  <1>4. PoolOK'
    BY <1>1, <1>2 DEF IInv, PoolOK
  <1> QED BY <1>2, <1>3, <1>4

\* Ending a job that is not a call changes nothing for the strands.
LEMMA OtherJobEnds ==
    ASSUME IInv, NEW k \in Threads, \A s \in Strands : thread[k].job # Call(s), thread[k].job # NoJob,
           thread'[k].job = NoJob, \A l \in Threads : l # k => thread'[l] = thread[l], worker' = worker
    PROVE  /\ WorkersOK'
           /\ \A s \in Strands : Arrived(s)' = Arrived(s) /\ Served(s)' = Served(s)
  <1>1. worker[k].at = "idle"
    BY DEF IInv, WorkersOK
  <1>2. WorkersOK'
    BY <1>1 DEF IInv, WorkersOK
  <1>3. ASSUME NEW s \in Strands PROVE Arrived(s)' = Arrived(s) /\ Served(s)' = Served(s)
    <2>1. \A l \in Threads : l \in Arrived(s)' <=> l \in Arrived(s)
      BY JobKinds DEF Arrived
    <2> QED BY <2>1 DEF Arrived, Served
  <1> QED BY <1>2, <1>3

\* What is on its way stays so when jobs are only added and another job ends.
LEMMA DoneKept ==
    ASSUME NEW q, Done(q), callbackVars' = callbackVars, refused' = refused, queue' = queue, worker' = worker,
           \A j \in Ids : \A n \in DOMAIN input[j] : n \in DOMAIN input'[j] /\ input'[j][n] = input[j][n],
           \A l \in Threads : thread[l].job = Account(q) => thread'[l].job = Account(q)
    PROVE  Done(q)'
  <1>1. CASE \E j \in Ids : \E n \in DOMAIN input[j] : input[j][n] = Account(q)
    <2>1. PICK j \in Ids : \E n \in DOMAIN input[j] : input[j][n] = Account(q)
      BY <1>1
    <2>2. PICK n \in DOMAIN input[j] : input[j][n] = Account(q)
      BY <2>1
    <2>3. n \in DOMAIN input'[j] /\ input'[j][n] = Account(q)
      BY <2>2
    <2> QED BY <2>3 DEF Done, CarriedOut, callbackVars
  <1>2. CASE \E l \in Threads : thread[l].job = Account(q)
    BY <1>2 DEF Done, CarriedOut, callbackVars
  <1>3. CASE \/ CarriedOut(q) \/ \E s \in Strands : q \in refused[s]
             \/ \E s \in Strands : \E n \in DOMAIN queue[s] : queue[s][n].handler = q
             \/ \E k \in Threads : worker[k].at = "run" /\ worker[k].handler = q /\ q # NoHandler
    BY <1>3 DEF Done, CarriedOut, callbackVars
  <1> QED BY <1>1, <1>2, <1>3 DEF Done, CarriedOut, callbackVars

LEMMA PostRequestIInv ==
    ASSUME IInv, NEW r \in Requests, NEW k \in Threads, Busy(k, Request(r)), PostRequest(k, r)
    PROVE  IInv'
  <1> DEFINE h == req[r].wallet
             i == thread[k].id
  <1>1. /\ req[r].at = "call" /\ h \in Strands /\ r \in WalletRequests
        /\ thread[k].job = Request(r) /\ thread[k].at = "busy" /\ i \in Ids
    BY DEF IInv, TypeOK, RequestsOK, PostRequest, Busy, callbackVars
  <1>2. /\ input' = [input EXCEPT ![i] = Append(@, Call(h))]
        /\ thread' = [thread EXCEPT ![k].at = "idle", ![k].job = NoJob]
        /\ req' = [req EXCEPT ![r] = [at |-> "posted", wallet |-> NoStrand]]
        /\ UNCHANGED <<current, nextWorker, overdue, expelledCount, terminated>>
        /\ UNCHANGED strandVars /\ global' = global /\ callbackVars' = callbackVars
    BY DEF PostRequest, PostCall, PostAndFinish, Goto
  <1>3. /\ queue' = queue /\ deferred' = deferred /\ worker' = worker
        /\ refused' = refused /\ missed' = missed
    BY <1>2 DEF strandVars
  <1>4. /\ \A q \in Requests : q # r => req'[q] = req[q]
        /\ req'[r].at = "posted" /\ req'[r].wallet = NoStrand
    BY <1>2 DEF IInv, TypeOK, callbackVars
  <1>5. /\ thread' \in [Threads -> ThreadType] /\ thread'[k].job = NoJob
        /\ \A l \in Threads : l # k => thread'[l] = thread[l]
        /\ PoolOK'
    BY <1>1, <1>2, JobEnds
  <1> HIDE DEF h, i
  <1>6. TypeOK'
    <2>1. input' \in [Ids -> Seq(Jobs)]
      BY <1>1, <1>2, JobKinds DEF IInv, TypeOK, callbackVars
    <2>2. req' \in [Requests -> [at : {"new", "queued", "create", "push", "fill", "call", "posted"},
                                wallet : Strands \cup {NoStrand}]]
      BY <1>2 DEF IInv, TypeOK, callbackVars
    <2> QED BY <1>2, <1>3, <1>5, <2>1, <2>2 DEF IInv, TypeOK, ThreadType, callbackVars
  <1>7. WorkersOK' /\ \A s \in Strands : Arrived(s)' = Arrived(s) /\ Served(s)' = Served(s)
    <2>1. thread[k].job # NoJob /\ \A s \in Strands : thread[k].job # Call(s)
      BY <1>1, JobKinds, Constants
    <2> QED BY <1>3, <1>5, <2>1, OtherJobEnds
  <1>8. StrandExclusive' /\ CountsOK'
    BY <1>3, StrandsSame DEF IInv
  <1>9. RequestsOK'
    BY <1>1, <1>3, <1>4, <1>5, JobKinds DEF IInv, RequestsOK
  <1>10. PopsOK'
    <2> SUFFICES ASSUME NEW s \in Strands PROVE PopsOKOf(s)'
      BY DEF PopsOK
    <2>1. Call(h) \in Jobs /\ (Call(h) = Call(s) <=> s = h)
      BY <1>1, JobKinds
    <2>2. CASE s # h
      <3>1. Pushed(s)' = Pushed(s)
        <4>1. \A q \in Requests : q \in Pushed(s)' <=> q \in Pushed(s)
          BY <1>1, <1>4, <2>2 DEF Pushed, h
        <4> QED BY <4>1 DEF Pushed
      <3>2. /\ IsFiniteSet(Occurs(input', Call(s)))
            /\ Cardinality(Occurs(input', Call(s))) = Cardinality(Occurs(input, Call(s)))
        BY <1>1, <1>2, <2>1, <2>2, CallsPosted
      <3> QED BY <1>3, <1>7, <3>1, <3>2, PopsSame DEF IInv, PopsOK
    <2>3. CASE s = h
      <3>1. r \in Pushed(s)
        BY <1>1, <2>3 DEF Pushed, h
      <3>2. Pushed(s)' = Pushed(s) \ {r}
        <4>1. \A q \in Requests : q \in Pushed(s)' <=> q \in Pushed(s) /\ q # r
          BY <1>4, <2>3 DEF Pushed
        <4> QED BY <4>1 DEF Pushed
      <3>3. Cardinality(Pushed(s)') = Cardinality(Pushed(s)) - 1
        BY <3>1, <3>2, Counted, OneLess
      <3>4. /\ IsFiniteSet(Occurs(input', Call(s)))
            /\ Cardinality(Occurs(input', Call(s))) = Cardinality(Occurs(input, Call(s))) + 1
        BY <1>1, <1>2, <2>1, <2>3, CallsPosted
      <3>5. /\ Cardinality(Arrived(s)) \in Nat /\ Cardinality(Served(s)) \in Nat
            /\ Cardinality(Pushed(s)) \in Nat /\ deferred[s] \in Nat
            /\ Cardinality(Occurs(input, Call(s))) \in Nat
        BY Counted, FS_CardinalityType DEF IInv, TypeOK, PopsOK, PopsOKOf, callbackVars
      <3>6. Pops(s)' = Cardinality(Occurs(input', Call(s))) + Cardinality(Arrived(s)') + deferred'[s]
                          + Cardinality(Pushed(s)') - Cardinality(Served(s)')
        BY DEF Pops
      <3>7. Pops(s)' = Pops(s)
        BY <1>3, <1>7, <3>3, <3>4, <3>5, <3>6 DEF Pops
      <3> QED BY <1>3, <3>4, <3>7 DEF IInv, PopsOK, PopsOKOf
    <2> QED BY <2>2, <2>3
  <1>11. EmptyHanded'
    BY <1>3 DEF IInv, EmptyHanded
  <1>12. PostedOK'
    <2> SUFFICES ASSUME NEW q \in Requests, req'[q].at \in {"fill", "call", "posted"} PROVE Done(q)'
      BY DEF PostedOK
    <2>1. Done(q)
      BY <1>1, <1>4 DEF IInv, PostedOK
    <2>2. \A j \in Ids : \A n \in DOMAIN input[j] : n \in DOMAIN input'[j] /\ input'[j][n] = input[j][n]
      BY <1>1, <1>2 DEF IInv, TypeOK, callbackVars
    <2>3. \A l \in Threads : thread[l].job = Account(q) => thread'[l].job = Account(q)
      BY <1>1, <1>5, JobKinds
    <2> QED BY <1>2, <1>3, <2>1, <2>2, <2>3, DoneKept
  <1> QED BY <1>5, <1>6, <1>7, <1>8, <1>9, <1>10, <1>11, <1>12 DEF IInv

LEMMA PostAccountIInv ==
    ASSUME IInv, NEW r \in Requests, NEW k \in Threads, Busy(k, Request(r)), PostAccount(k, r)
    PROVE  IInv'
  <1> DEFINE i == thread[k].id
  <1>1. /\ r \in AccountRequests /\ thread[k].job = Request(r) /\ thread[k].at = "busy" /\ i \in Ids
        /\ req[r].at \notin {"push", "fill", "call"}
    BY Constants DEF IInv, TypeOK, RequestsOK, PostAccount, Busy, callbackVars
  <1>2. /\ input' = [input EXCEPT ![i] = Append(@, Account(r))]
        /\ thread' = [thread EXCEPT ![k].at = "idle", ![k].job = NoJob]
        /\ req' = [req EXCEPT ![r] = [at |-> "posted", wallet |-> NoStrand]]
        /\ UNCHANGED <<current, nextWorker, overdue, expelledCount, terminated>>
        /\ UNCHANGED strandVars /\ global' = global /\ callbackVars' = callbackVars
    BY DEF PostAccount, PostAndFinish, Goto
  <1>3. /\ queue' = queue /\ deferred' = deferred /\ worker' = worker
        /\ refused' = refused /\ missed' = missed
    BY <1>2 DEF strandVars
  <1>4. /\ \A q \in Requests : q # r => req'[q] = req[q]
        /\ req'[r].at = "posted" /\ req'[r].wallet = NoStrand
    BY <1>2 DEF IInv, TypeOK, callbackVars
  <1>5. /\ thread' \in [Threads -> ThreadType] /\ thread'[k].job = NoJob
        /\ \A l \in Threads : l # k => thread'[l] = thread[l]
        /\ PoolOK'
    BY <1>1, <1>2, JobEnds
  <1> HIDE DEF i
  <1>6. TypeOK'
    <2>1. input' \in [Ids -> Seq(Jobs)]
      BY <1>1, <1>2, JobKinds DEF IInv, TypeOK, callbackVars
    <2>2. req' \in [Requests -> [at : {"new", "queued", "create", "push", "fill", "call", "posted"},
                                wallet : Strands \cup {NoStrand}]]
      BY <1>2 DEF IInv, TypeOK, callbackVars
    <2> QED BY <1>2, <1>3, <1>5, <2>1, <2>2 DEF IInv, TypeOK, ThreadType, callbackVars
  <1>7. WorkersOK' /\ \A s \in Strands : Arrived(s)' = Arrived(s) /\ Served(s)' = Served(s)
    <2>1. thread[k].job # NoJob /\ \A s \in Strands : thread[k].job # Call(s)
      BY <1>1, JobKinds, Constants
    <2> QED BY <1>3, <1>5, <2>1, OtherJobEnds
  <1>8. StrandExclusive' /\ CountsOK'
    BY <1>3, StrandsSame DEF IInv
  <1>9. RequestsOK'
    BY <1>1, <1>3, <1>4, <1>5, JobKinds DEF IInv, RequestsOK
  <1>10. PopsOK'
    <2> SUFFICES ASSUME NEW s \in Strands PROVE PopsOKOf(s)'
      BY DEF PopsOK
    <2>1. Account(r) \in Jobs /\ Account(r) # Call(s)
      BY JobKinds
    <2>2. Pushed(s)' = Pushed(s)
      <3>1. \A q \in Requests : q \in Pushed(s)' <=> q \in Pushed(s)
        BY <1>1, <1>4 DEF Pushed
      <3> QED BY <3>1 DEF Pushed
    <2>3. /\ IsFiniteSet(Occurs(input', Call(s)))
          /\ Cardinality(Occurs(input', Call(s))) = Cardinality(Occurs(input, Call(s)))
      BY <1>1, <1>2, <2>1, CallsPosted
    <2> QED BY <1>3, <1>7, <2>2, <2>3, PopsSame DEF IInv, PopsOK
  <1>11. EmptyHanded'
    BY <1>3 DEF IInv, EmptyHanded
  <1>12. PostedOK'
    <2> SUFFICES ASSUME NEW q \in Requests, req'[q].at \in {"fill", "call", "posted"} PROVE Done(q)'
      BY DEF PostedOK
    <2>1. CASE q = r
      <3>1. Len(input[i]) + 1 \in DOMAIN input'[i] /\ input'[i][Len(input[i]) + 1] = Account(r)
        BY <1>1, <1>2 DEF IInv, TypeOK, callbackVars
      <3> QED BY <1>1, <2>1, <3>1 DEF Done, CarriedOut, callbackVars
    <2>2. CASE q # r
      <3>1. Done(q)
        BY <1>4, <2>2 DEF IInv, PostedOK
      <3>2. \A j \in Ids : \A n \in DOMAIN input[j] : n \in DOMAIN input'[j] /\ input'[j][n] = input[j][n]
        BY <1>1, <1>2 DEF IInv, TypeOK, callbackVars
      <3>3. \A l \in Threads : thread[l].job = Account(q) => thread'[l].job = Account(q)
        BY <1>1, <1>5, JobKinds
      <3> QED BY <1>2, <1>3, <3>1, <3>2, <3>3, DoneKept
    <2> QED BY <2>1, <2>2
  <1> QED BY <1>5, <1>6, <1>7, <1>8, <1>9, <1>10, <1>11, <1>12 DEF IInv

LEMMA AccountStepIInv ==
    ASSUME IInv, NEW r \in Requests, NEW k \in Threads, AccountStep(k, r) PROVE IInv'
  <1>1. thread[k].job = Account(r) /\ thread[k].at = "busy"
    BY DEF AccountStep, Busy
  <1>2. /\ thread' = [thread EXCEPT ![k].at = "idle", ![k].job = NoJob]
        /\ UNCHANGED <<input, current, nextWorker, overdue, expelledCount, terminated>>
        /\ UNCHANGED strandVars /\ Tell(r) /\ req' = req
    BY DEF AccountStep, FailAccount, RunAccount, Finish
  <1>3. /\ queue' = queue /\ deferred' = deferred /\ worker' = worker
        /\ refused' = refused /\ missed' = missed
    BY <1>2 DEF strandVars
  <1>4. /\ thread' \in [Threads -> ThreadType] /\ thread'[k].job = NoJob
        /\ \A l \in Threads : l # k => thread'[l] = thread[l]
        /\ PoolOK'
    BY <1>1, <1>2, JobEnds
  <1>5. TypeOK'
    <2>1. global' \in [Wallets -> Strands \cup {NoStrand}]
      BY DEF IInv, TypeOK, AccountStep, FailAccount, RunAccount, callbackVars
    <2>2. callbacks' \subseteq Requests /\ told' \subseteq Requests /\ lost' \subseteq Requests
      BY <1>2, TellTypes DEF IInv, TypeOK
    <2> QED BY <1>2, <1>3, <1>4, <2>1, <2>2 DEF IInv, TypeOK, ThreadType
  <1>6. WorkersOK' /\ \A s \in Strands : Arrived(s)' = Arrived(s) /\ Served(s)' = Served(s)
    <2>1. thread[k].job # NoJob /\ \A s \in Strands : thread[k].job # Call(s)
      BY <1>1, JobKinds, Constants
    <2> QED BY <1>3, <1>4, <2>1, OtherJobEnds
  <1>7. StrandExclusive' /\ CountsOK'
    BY <1>3, StrandsSame DEF IInv
  <1>8. RequestsOK'
    BY <1>1, <1>2, <1>3, <1>4, JobKinds DEF IInv, RequestsOK
  <1>9. PopsOK'
    <2> SUFFICES ASSUME NEW s \in Strands PROVE PopsOKOf(s)'
      BY DEF PopsOK
    <2>1. Pushed(s)' = Pushed(s)
      BY <1>2 DEF Pushed
    <2> QED BY <1>2, <1>3, <1>6, <2>1, CallsSame, PopsSame DEF IInv, PopsOK
  <1>10. EmptyHanded'
    BY <1>3 DEF IInv, EmptyHanded
  <1>11. PostedOK'
    <2> SUFFICES ASSUME NEW q \in Requests, req'[q].at \in {"fill", "call", "posted"}, q # r PROVE Done(q)'
      BY <1>2, TellCarriedOut DEF PostedOK, Done
    <2>1. Done(q)
      BY <1>2 DEF IInv, PostedOK
    <2>2. \A l \in Threads : thread[l].job = Account(q) => thread'[l].job = Account(q)
      BY <1>1, <1>4, JobKinds
    <2> QED BY <1>2, <1>3, <2>1, <2>2, TellCarriedOut DEF Done
  <1> QED BY <1>4, <1>5, <1>6, <1>7, <1>8, <1>9, <1>10, <1>11 DEF IInv

-----------------------------------------------------------------------------
(* The loop of a strand.                                                     *)

WorkerType == [at : {"idle", "pop", "run", "leave"},
               strand : Strands \cup {NoStrand}, handler : Handlers \cup {NoHandler}]

\* The numbers that Pops adds up.
LEMMA PopsNumbers ==
    ASSUME IInv, NEW s \in Strands
    PROVE  /\ Cardinality(Arrived(s)) \in Nat /\ Cardinality(Served(s)) \in Nat
           /\ Cardinality(Pushed(s)) \in Nat /\ deferred[s] \in Nat
           /\ IsFiniteSet(Occurs(input, Call(s)))
           /\ Cardinality(Occurs(input, Call(s))) \in Nat
           /\ Len(queue[s]) \in Nat /\ Cardinality(refused[s]) \in Nat /\ missed[s] \in Nat
           /\ Pops(s) = Cardinality(Occurs(input, Call(s))) + Cardinality(Arrived(s)) + deferred[s]
                          + Cardinality(Pushed(s)) - Cardinality(Served(s))
           /\ Pops(s)' = Cardinality(Occurs(input', Call(s))) + Cardinality(Arrived(s)') + deferred'[s]
                          + Cardinality(Pushed(s)') - Cardinality(Served(s)')
           /\ Pops(s) + missed[s] = Len(queue[s]) + Cardinality(refused[s])
           /\ refused[s] = {} => Pops(s) <= Len(queue[s])
  <1>1. /\ Cardinality(Arrived(s)) \in Nat /\ Cardinality(Served(s)) \in Nat
        /\ Cardinality(Pushed(s)) \in Nat
    BY Counted
  <1>2. deferred[s] \in Nat /\ Len(queue[s]) \in Nat /\ missed[s] \in Nat
    BY DEF IInv, TypeOK
  <1>3. PopsOKOf(s)
    BY DEF IInv, PopsOK
  <1>4. Cardinality(Occurs(input, Call(s))) \in Nat
    BY <1>3, FS_CardinalityType DEF PopsOKOf
  <1>5. /\ Pops(s) = Cardinality(Occurs(input, Call(s))) + Cardinality(Arrived(s)) + deferred[s]
                       + Cardinality(Pushed(s)) - Cardinality(Served(s))
        /\ Pops(s)' = Cardinality(Occurs(input', Call(s))) + Cardinality(Arrived(s)') + deferred'[s]
                       + Cardinality(Pushed(s)') - Cardinality(Served(s)')
    BY DEF Pops
  <1>6. Cardinality(refused[s]) \in Nat /\ (refused[s] = {} => Cardinality(refused[s]) = 0)
    BY <1>3, FS_CardinalityType, FS_EmptySet DEF PopsOKOf
  <1>7. Pops(s) \in Int
    BY <1>1, <1>2, <1>4, <1>5
  <1> QED BY <1>1, <1>2, <1>3, <1>4, <1>5, <1>6, <1>7 DEF PopsOKOf

\* The strand is busy: the call is left to the thread in the loop.
LEMMA InvokeBusyIInv ==
    ASSUME IInv, NEW k \in Threads, NEW s \in Strands, Invoke(k, s), deferred[s] > 0, UNCHANGED walletVars
    PROVE  IInv'
  <1>1. thread[k].job = Call(s) /\ thread[k].at = "busy" /\ worker[k].at = "idle"
    BY DEF Invoke, Busy
  <1>2. /\ deferred' = [deferred EXCEPT ![s] = @ + 1]
        /\ thread' = [thread EXCEPT ![k].at = "idle", ![k].job = NoJob]
        /\ UNCHANGED <<input, current, nextWorker, overdue, expelledCount, terminated>>
        /\ UNCHANGED <<worker, queue, refused, missed>>
        /\ UNCHANGED <<global, req, callbackVars>>
    BY DEF Invoke, Finish, walletVars
  <1>3. /\ thread' \in [Threads -> ThreadType] /\ thread'[k].job = NoJob
        /\ \A l \in Threads : l # k => thread'[l] = thread[l]
        /\ PoolOK'
    BY <1>1, <1>2, JobEnds
  <1>4. /\ deferred' \in [Strands -> Nat] /\ deferred'[s] = deferred[s] + 1 /\ deferred[s] \in Nat
        /\ \A t \in Strands : t # s => deferred'[t] = deferred[t]
    BY <1>2 DEF IInv, TypeOK, callbackVars
  <1>5. TypeOK'
    BY <1>2, <1>3, <1>4 DEF IInv, TypeOK, ThreadType, callbackVars
  <1>6. WorkersOK'
    BY <1>1, <1>2, <1>3 DEF IInv, WorkersOK
  <1>7. StrandExclusive' /\ CountsOK'
    BY <1>2, <1>4 DEF IInv, StrandExclusive, CountsOK, Inside
  <1>8. RequestsOK'
    BY <1>1, <1>2, <1>3, JobKinds DEF IInv, RequestsOK
  <1>9. PopsOK'
    <2> SUFFICES ASSUME NEW t \in Strands PROVE PopsOKOf(t)'
      BY DEF PopsOK
    <2>1. Served(t)' = Served(t) /\ Pushed(t)' = Pushed(t)
      BY <1>2 DEF Served, Pushed
    <2>2. CASE t # s
      <3>1. \A l \in Threads : l \in Arrived(t)' <=> l \in Arrived(t)
        BY <1>1, <1>2, <1>3, <2>2, JobKinds DEF Arrived
      <3>2. Arrived(t)' = Arrived(t)
        BY <3>1 DEF Arrived
      <3> QED BY <1>2, <1>4, <2>1, <2>2, <3>2, CallsSame, PopsSame DEF IInv, PopsOK
    <2>3. CASE t = s
      <3>1. k \in Arrived(t)
        BY <1>1, <2>3 DEF Arrived
      <3>2. \A l \in Threads : l \in Arrived(t)' <=> l \in Arrived(t) /\ l # k
        BY <1>1, <1>2, <1>3, <2>3, JobKinds DEF Arrived
      <3>3. Arrived(t)' = Arrived(t) \ {k}
        BY <3>2 DEF Arrived
      <3>4. Cardinality(Arrived(t)') = Cardinality(Arrived(t)) - 1
        BY <3>1, <3>3, Counted, OneLess
      <3>5. Pops(t)' = Pops(t)
        BY <1>2, <1>4, <2>1, <2>3, <3>4, PopsNumbers
      <3> QED BY <1>2, <3>5 DEF IInv, PopsOK, PopsOKOf
    <2> QED BY <2>2, <2>3
  <1>10. EmptyHanded'
    BY <1>2 DEF IInv, EmptyHanded
  <1>11. PostedOK'
    <2> SUFFICES ASSUME NEW q \in Requests, req'[q].at \in {"fill", "call", "posted"} PROVE Done(q)'
      BY DEF PostedOK
    <2>1. Done(q)
      BY <1>2 DEF IInv, PostedOK
    <2>2. \A l \in Threads : thread[l].job = Account(q) => thread'[l].job = Account(q)
      BY <1>1, <1>3, JobKinds
    <2> QED BY <1>2, <2>1, <2>2, DoneKept
  <1> QED BY <1>3, <1>5, <1>6, <1>7, <1>8, <1>9, <1>10, <1>11 DEF IInv

\* The thread enters the loop.
LEMMA InvokeFreeIInv ==
    ASSUME IInv, NEW k \in Threads, NEW s \in Strands, Invoke(k, s), ~(deferred[s] > 0), UNCHANGED walletVars
    PROVE  IInv'
  <1>1. thread[k].job = Call(s) /\ worker[k].at = "idle" /\ worker[k].strand = NoStrand
    BY DEF Invoke, Busy, IInv, WorkersOK, Idle
  <1>2. /\ deferred' = [deferred EXCEPT ![s] = @ + 1]
        /\ worker' = [worker EXCEPT ![k] = [at |-> "pop", strand |-> s, handler |-> NoHandler]]
        /\ UNCHANGED poolVars /\ UNCHANGED <<queue, refused, missed>>
        /\ UNCHANGED <<global, req, callbackVars>>
    BY DEF Invoke, walletVars
  <1>3. /\ input' = input /\ current' = current /\ thread' = thread /\ nextWorker' = nextWorker
        /\ overdue' = overdue /\ expelledCount' = expelledCount /\ terminated' = terminated
    BY <1>2 DEF poolVars
  <1>4. /\ deferred' \in [Strands -> Nat] /\ deferred'[s] = 1 /\ deferred[s] = 0
        /\ \A t \in Strands : t # s => deferred'[t] = deferred[t]
    BY <1>2 DEF IInv, TypeOK, callbackVars
  <1>5. /\ worker' \in [Threads -> WorkerType]
        /\ worker'[k].at = "pop" /\ worker'[k].strand = s /\ worker'[k].handler = NoHandler
        /\ \A l \in Threads : l # k => worker'[l] = worker[l]
    BY <1>2 DEF IInv, TypeOK, WorkerType, callbackVars
  <1>6. TypeOK'
    BY <1>2, <1>3, <1>4, <1>5 DEF IInv, TypeOK, WorkerType, callbackVars
  <1>7. PoolOK' /\ RequestsOK'
    BY <1>2, <1>3 DEF IInv, PoolOK, RequestsOK
  <1>8. WorkersOK'
    BY <1>1, <1>3, <1>5 DEF IInv, WorkersOK
  <1>9. /\ Inside(s)' = {k}
        /\ \A t \in Strands : t # s => Inside(t)' = Inside(t)
    <2>1. Inside(s) = {}
      BY <1>4 DEF IInv, CountsOK
    <2> QED BY <1>1, <1>5, <2>1, Constants DEF Inside
  <1>10. StrandExclusive' /\ CountsOK'
    BY <1>4, <1>9 DEF IInv, StrandExclusive, CountsOK
  <1>11. PopsOK'
    <2> SUFFICES ASSUME NEW t \in Strands PROVE PopsOKOf(t)'
      BY DEF PopsOK
    <2>1. Served(t)' = Served(t) /\ Pushed(t)' = Pushed(t)
      <3>1. \A l \in Threads : l \in Served(t)' <=> l \in Served(t)
        BY <1>1, <1>5 DEF Served
      <3> QED BY <1>2, <3>1 DEF Served, Pushed
    <2>2. CASE t # s
      <3>1. \A l \in Threads : l \in Arrived(t)' <=> l \in Arrived(t)
        BY <1>1, <1>3, <1>5, <2>2, JobKinds DEF Arrived
      <3>2. Arrived(t)' = Arrived(t)
        BY <3>1 DEF Arrived
      <3> QED BY <1>2, <1>3, <1>4, <2>1, <2>2, <3>2, CallsSame, PopsSame DEF IInv, PopsOK
    <2>3. CASE t = s
      <3>1. k \in Arrived(t)
        BY <1>1, <2>3 DEF Arrived
      <3>2. \A l \in Threads : l \in Arrived(t)' <=> l \in Arrived(t) /\ l # k
        BY <1>1, <1>3, <1>5, <2>3 DEF Arrived
      <3>3. Arrived(t)' = Arrived(t) \ {k}
        BY <3>2 DEF Arrived
      <3>4. Cardinality(Arrived(t)') = Cardinality(Arrived(t)) - 1
        BY <3>1, <3>3, Counted, OneLess
      <3>5. Pops(t)' = Pops(t)
        BY <1>3, <1>4, <2>1, <2>3, <3>4, PopsNumbers
      <3> QED BY <1>2, <1>3, <3>5 DEF IInv, PopsOK, PopsOKOf
    <2> QED BY <2>2, <2>3
  <1>12. EmptyHanded'
    BY <1>2, <1>5 DEF IInv, EmptyHanded
  <1>13. PostedOK'
    <2> SUFFICES ASSUME NEW q \in Requests, req'[q].at \in {"fill", "call", "posted"} PROVE Done(q)'
      BY DEF PostedOK
    <2>1. Done(q)
      BY <1>2 DEF IInv, PostedOK
    <2>2. \A l \in Threads : worker[l].at = "run" => worker'[l] = worker[l]
      BY <1>1, <1>5
    <2> QED BY <1>2, <1>3, <2>1, <2>2 DEF Done, CarriedOut, callbackVars
  <1> QED BY <1>6, <1>7, <1>8, <1>10, <1>11, <1>12, <1>13 DEF IInv

\* The thread in the loop of a strand: it is the only one there, and has a call to pop for.
LEMMA InLoop ==
    ASSUME IInv, NEW k \in Threads, worker[k].at # "idle"
    PROVE  /\ worker[k].strand \in Strands
           /\ thread[k].job = Call(worker[k].strand) /\ thread[k].at = "busy"
           /\ deferred[worker[k].strand] > 0
           /\ \A l \in Threads : worker[l].strand = worker[k].strand => l = k
  <1>1. worker[k].strand \in Strands /\ thread[k].job = Call(worker[k].strand)
    BY DEF IInv, WorkersOK
  <1>2. thread[k].at = "busy"
    BY <1>1, JobKinds DEF IInv, PoolOK
  <1>3. k \in Inside(worker[k].strand)
    BY DEF Inside
  <1>4. deferred[worker[k].strand] \in Nat /\ deferred[worker[k].strand] # 0
    BY <1>1, <1>3 DEF IInv, CountsOK, TypeOK, callbackVars
  <1>5. \A l \in Threads : worker[l].strand = worker[k].strand => l = k
    BY <1>1, <1>3 DEF IInv, StrandExclusive, Inside
  <1> QED BY <1>1, <1>2, <1>4, <1>5

\* A step of the loop that stays in it.
LEMMA LoopIInv ==
    ASSUME IInv, NEW k \in Threads, worker[k].at # "idle", NEW s, s = worker[k].strand,
           NEW at \in {"pop", "run", "leave"}, NEW h \in Handlers \cup {NoHandler},
           worker' = [worker EXCEPT ![k].at = at, ![k].handler = h],
           UNCHANGED poolVars, UNCHANGED <<global, req, refused>>,
           \A t \in Strands : t # s =>
              queue'[t] = queue[t] /\ deferred'[t] = deferred[t] /\ missed'[t] = missed[t],
           deferred'[s] \in Nat \ {0},
           PopsOKOf(s)', TypeOK', PostedOK',
           at # "pop" /\ h = NoHandler /\ refused[s] = {} => queue'[s] # <<>>
    PROVE  IInv'
  <1>1. /\ input' = input /\ current' = current /\ thread' = thread /\ nextWorker' = nextWorker
        /\ overdue' = overdue /\ expelledCount' = expelledCount /\ terminated' = terminated
    BY DEF poolVars
  <1>2. /\ worker'[k].at = at /\ worker'[k].strand = s /\ worker'[k].handler = h
        /\ \A l \in Threads : l # k => worker'[l] = worker[l]
    BY DEF IInv, TypeOK, callbackVars
  <1>3. /\ s \in Strands /\ thread[k].job = Call(s) /\ deferred[s] > 0
        /\ \A l \in Threads : worker[l].strand = s => l = k
    BY InLoop
  <1>4. PoolOK' /\ RequestsOK'
    BY <1>1 DEF IInv, PoolOK, RequestsOK
  <1>5. WorkersOK'
    BY <1>1, <1>2, <1>3 DEF IInv, WorkersOK
  <1>6. StrandExclusive' /\ CountsOK'
    <2>1. \A t \in Strands : Inside(t)' = Inside(t)
      <3>1. \A l \in Threads : worker'[l].strand = worker[l].strand
        BY <1>2
      <3> QED BY <3>1 DEF Inside
    <2>2. \A t \in Strands : deferred'[t] = 0 <=> deferred[t] = 0
      BY <1>3
    <2> QED BY <2>1, <2>2 DEF IInv, StrandExclusive, CountsOK
  <1>7. PopsOK'
    <2> SUFFICES ASSUME NEW t \in Strands, t # s PROVE PopsOKOf(t)'
      BY DEF PopsOK
    <2>1. Pushed(t)' = Pushed(t)
      BY DEF Pushed
    <2>2. \A l \in Threads : (l \in Served(t)' <=> l \in Served(t)) /\ (l \in Arrived(t)' <=> l \in Arrived(t))
      BY <1>1, <1>2, <1>3, JobKinds DEF Served, Arrived
    <2>3. Served(t)' = Served(t) /\ Arrived(t)' = Arrived(t)
      BY <2>2 DEF Served, Arrived
    <2> QED BY <1>1, <2>1, <2>3, CallsSame, PopsSame DEF IInv, PopsOK
  <1>8. EmptyHanded'
    <2> SUFFICES ASSUME NEW l \in Threads, worker'[l].at \in {"run", "leave"},
                        worker'[l].handler = NoHandler, refused[worker'[l].strand] = {}
                 PROVE  queue'[worker'[l].strand] # <<>>
      BY DEF EmptyHanded
    <2>1. CASE l = k
      BY <1>2, <2>1
    <2>2. CASE l # k
      <3>1. worker'[l] = worker[l] /\ worker[l].strand \in Strands /\ worker[l].strand # s
        BY <1>2, <1>3, <2>2 DEF IInv, WorkersOK
      <3> QED BY <3>1 DEF IInv, EmptyHanded
    <2> QED BY <2>1, <2>2
  <1> QED BY <1>4, <1>5, <1>6, <1>7, <1>8 DEF IInv

LEMMA PopIInv ==
    ASSUME IInv, NEW k \in Threads, Pop(k), NEW s, s = worker[k].strand, UNCHANGED walletVars
    PROVE  IInv'
  <1> DEFINE h == IF Ready(s) THEN Head(queue[s]).handler ELSE worker[k].handler
  <1>1. /\ worker[k].at = "pop" /\ s \in Strands /\ thread[k].job = Call(s) /\ deferred[s] > 0
        /\ \A l \in Threads : worker[l].strand = s => l = k
    BY InLoop DEF Pop
  <1>2. worker[k] \in WorkerType /\ queue[s] \in Seq(Cells) /\ worker \in [Threads -> WorkerType]
    BY <1>1 DEF IInv, TypeOK, WorkerType, callbackVars
  <1>3. /\ Ready(s) => /\ queue[s] # <<>> /\ queue' = [queue EXCEPT ![s] = Tail(@)] /\ missed' = missed
                       /\ worker' = [worker EXCEPT ![k].at = "run", ![k].handler = Head(queue[s]).handler]
        /\ ~Ready(s) => /\ queue' = queue /\ missed' = [missed EXCEPT ![s] = @ + 1]
                        /\ worker' = [worker EXCEPT ![k].at = "run"]
        /\ deferred' = deferred /\ refused' = refused /\ UNCHANGED poolVars
        /\ UNCHANGED <<global, req, callbackVars>>
    BY DEF Pop, Ready, walletVars
  <1>4. worker' = [worker EXCEPT ![k].at = "run", ![k].handler = h]
    BY <1>2, <1>3 DEF WorkerType
  <1>5. h \in Handlers \cup {NoHandler} /\ (Ready(s) => h # NoHandler)
    <2>1. CASE Ready(s)
      <3>1. Head(queue[s]) \in Cells
        BY <1>2, <1>3, <2>1
      <3> QED BY <2>1, <3>1, Constants DEF Cells
    <2>2. CASE ~Ready(s)
      BY <1>2, <2>2 DEF WorkerType
    <2> QED BY <2>1, <2>2
  <1>6. /\ input' = input /\ current' = current /\ thread' = thread /\ nextWorker' = nextWorker
        /\ overdue' = overdue /\ expelledCount' = expelledCount /\ terminated' = terminated
    BY <1>3 DEF poolVars
  <1>7. /\ worker'[k].at = "run" /\ worker'[k].strand = s /\ worker'[k].handler = h
        /\ \A l \in Threads : l # k => worker'[l] = worker[l]
        /\ worker' \in [Threads -> WorkerType]
    <2> HIDE DEF h
    <2> QED BY <1>2, <1>4, <1>5 DEF WorkerType
  <1>8. /\ \A t \in Strands : t # s => queue'[t] = queue[t] /\ missed'[t] = missed[t]
        /\ Ready(s) => queue'[s] = Tail(queue[s]) /\ missed'[s] = missed[s]
        /\ ~Ready(s) => queue'[s] = queue[s] /\ missed'[s] = missed[s] + 1
        /\ queue' \in [Strands -> Seq(Cells)] /\ missed' \in [Strands -> Nat]
        /\ Ready(s) => Len(queue'[s]) = Len(queue[s]) - 1
    <2>1. queue \in [Strands -> Seq(Cells)] /\ missed \in [Strands -> Nat]
      BY DEF IInv, TypeOK, callbackVars
    <2>2. Ready(s) => Tail(queue[s]) \in Seq(Cells) /\ Len(Tail(queue[s])) = Len(queue[s]) - 1
      BY <1>2, <1>3
    <2>3. CASE Ready(s)
      BY <1>1, <1>3, <2>1, <2>2, <2>3
    <2>4. CASE ~Ready(s)
      BY <1>1, <1>3, <2>1, <2>4
    <2> QED BY <2>3, <2>4
  <1> HIDE DEF h
  <1>9. TypeOK'
    BY <1>3, <1>6, <1>7, <1>8 DEF IInv, TypeOK, WorkerType, callbackVars
  <1>10. /\ Pops(s)' = Pops(s) - 1 /\ Pops(s) >= 1 /\ Pops(s) \in Int
    <2>1. k \notin Served(s) /\ Served(s) = {}
      BY <1>1 DEF Served
    <2>2. Served(s)' = {k}
      BY <1>1, <1>7 DEF Served
    <2>3. Pushed(s)' = Pushed(s)
      BY <1>3 DEF Pushed
    <2>4. \A l \in Threads : l \in Arrived(s)' <=> l \in Arrived(s)
      BY <1>1, <1>6, <1>7 DEF Arrived
    <2>5. Arrived(s)' = Arrived(s)
      BY <2>4 DEF Arrived
    <2>6. Cardinality(Served(s)) = 0 /\ Cardinality(Served(s)') = 1
      BY <2>1, <2>2, FS_EmptySet, FS_Singleton
    <2>7. /\ Cardinality(Occurs(input, Call(s))) \in Nat /\ Cardinality(Arrived(s)) \in Nat
          /\ deferred[s] \in Nat /\ Cardinality(Pushed(s)) \in Nat
          /\ Pops(s) = Cardinality(Occurs(input, Call(s))) + Cardinality(Arrived(s)) + deferred[s]
                         + Cardinality(Pushed(s)) - Cardinality(Served(s))
          /\ Pops(s)' = Cardinality(Occurs(input', Call(s))) + Cardinality(Arrived(s)') + deferred'[s]
                         + Cardinality(Pushed(s)') - Cardinality(Served(s)')
      BY <1>1, PopsNumbers
    <2>8. input' = input /\ deferred' = deferred
      BY <1>3, <1>6
    <2> QED BY <1>1, <2>3, <2>5, <2>6, <2>7, <2>8
  <1>11. PopsOKOf(s)'
    <2>1. IsFiniteSet(Occurs(input', Call(s)))
      BY <1>1, <1>6, CallsSame
    <2>4. /\ Pops(s) + missed[s] = Len(queue[s]) + Cardinality(refused[s])
          /\ missed[s] \in Nat /\ Len(queue[s]) \in Nat /\ Cardinality(refused[s]) \in Nat
      BY <1>1, PopsNumbers
    <2>5. IsFiniteSet(refused'[s])
      BY <1>1, <1>3 DEF IInv, PopsOK, PopsOKOf
    <2>2. CASE Ready(s)
      <3>1. /\ missed'[s] = missed[s] /\ Cardinality(refused'[s]) = Cardinality(refused[s])
            /\ Len(queue'[s]) = Len(queue[s]) - 1
        BY <1>3, <1>8, <2>2
      <3>2. Pops(s)' + missed'[s] = Len(queue'[s]) + Cardinality(refused'[s])
        <4>1. (Pops(s) - 1) + missed[s] = (Len(queue[s]) - 1) + Cardinality(refused[s])
          BY <1>10, <2>4
        <4> QED BY <1>10, <3>1, <4>1
      <3> QED BY <2>1, <2>5, <3>2 DEF PopsOKOf
    <2>3. CASE ~Ready(s)
      <3>1. /\ missed'[s] = missed[s] + 1 /\ Cardinality(refused'[s]) = Cardinality(refused[s])
            /\ Len(queue'[s]) = Len(queue[s])
        BY <1>3, <1>8, <2>3
      <3>2. Pops(s)' + missed'[s] = Len(queue'[s]) + Cardinality(refused'[s])
        BY <1>10, <2>4, <3>1
      <3> QED BY <2>1, <2>5, <3>2 DEF PopsOKOf
    <2> QED BY <2>2, <2>3
  <1>12. h = NoHandler /\ refused[s] = {} => queue'[s] # <<>>
    <2> SUFFICES ASSUME h = NoHandler, refused[s] = {} PROVE queue[s] # <<>>
      BY <1>5, <1>8
    <2>1. Pops(s) <= Len(queue[s]) /\ Len(queue[s]) \in Nat
      BY <1>1, PopsNumbers
    <2> QED BY <1>10, <2>1
  <1>13. PostedOK'
    <2> SUFFICES ASSUME NEW q \in Requests, req'[q].at \in {"fill", "call", "posted"} PROVE Done(q)'
      BY DEF PostedOK
    <2>1. Done(q)
      BY <1>3 DEF IInv, PostedOK
    <2>2. CASE \E t \in Strands : \E n \in DOMAIN queue[t] : queue[t][n].handler = q
      <3>1. PICK t \in Strands : \E n \in DOMAIN queue[t] : queue[t][n].handler = q
        BY <2>2
      <3>2. PICK n \in DOMAIN queue[t] : queue[t][n].handler = q
        BY <3>1
      <3>3. CASE t = s /\ Ready(s) /\ n = 1
        <4>1. h = q
          BY <1>2, <3>2, <3>3 DEF h
        <4> QED BY <1>5, <1>7, <3>3, <4>1 DEF Done, CarriedOut, callbackVars
      <3>4. CASE t = s /\ Ready(s) /\ n # 1
        <4>1. n - 1 \in DOMAIN Tail(queue[s]) /\ Tail(queue[s])[n - 1] = queue[s][n]
          BY <1>2, <1>3, <3>2, <3>4
        <4>2. n - 1 \in DOMAIN queue'[s] /\ queue'[s][n - 1].handler = q
          BY <1>8, <3>2, <3>4, <4>1
        <4> QED BY <1>1, <4>2 DEF Done, CarriedOut, callbackVars
      <3>5. CASE ~(t = s /\ Ready(s))
        BY <1>8, <3>2, <3>5 DEF Done, CarriedOut, callbackVars
      <3> QED BY <3>3, <3>4, <3>5
    <2>3. CASE ~ \E t \in Strands : \E n \in DOMAIN queue[t] : queue[t][n].handler = q
      <3>1. \A l \in Threads : worker[l].at = "run" => worker'[l] = worker[l]
        BY <1>1, <1>7
      <3> QED BY <1>3, <1>6, <2>1, <2>3, <3>1 DEF Done, CarriedOut, callbackVars
    <2> QED BY <2>2, <2>3
  <1>14. \A t \in Strands : t # s =>
            queue'[t] = queue[t] /\ deferred'[t] = deferred[t] /\ missed'[t] = missed[t]
    BY <1>3, <1>8
  <1>15. deferred'[s] \in Nat \ {0}
    BY <1>1, <1>3 DEF IInv, TypeOK, callbackVars
  <1>16. worker[k].at # "idle" /\ UNCHANGED <<global, req, refused>> /\ UNCHANGED poolVars
    BY <1>1, <1>3
  <1> QED BY <1>4, <1>5, <1>9, <1>11, <1>12, <1>13, <1>14, <1>15, <1>16, LoopIInv

LEMMA RunHandlerIInv ==
    ASSUME IInv, NEW k \in Threads, RunHandler(k), NEW s, s = worker[k].strand PROVE IInv'
  <1> DEFINE h == worker[k].handler
  <1>1. worker[k].at = "run" /\ s \in Strands
    BY InLoop DEF RunHandler, Ran
  <1>2. worker[k] \in WorkerType /\ worker \in [Threads -> WorkerType] /\ h \in Handlers \cup {NoHandler}
    BY <1>1 DEF IInv, TypeOK, WorkerType, callbackVars
  <1>3. /\ worker' = [worker EXCEPT ![k].at = "leave"]
        /\ queue' = queue /\ deferred' = deferred /\ refused' = refused /\ missed' = missed
        /\ UNCHANGED poolVars /\ global' = global /\ req' = req
        /\ h # NoHandler => Tell(h)
        /\ h = NoHandler => UNCHANGED callbackVars
    BY DEF RunHandler, Ran, Handle
  <1>4. worker' = [worker EXCEPT ![k].at = "leave", ![k].handler = h]
    BY <1>2, <1>3 DEF WorkerType
  <1>5. /\ worker'[k].at = "leave" /\ worker'[k].strand = s /\ worker'[k].handler = h
        /\ \A l \in Threads : l # k => worker'[l] = worker[l]
        /\ worker' \in [Threads -> WorkerType]
    BY <1>2, <1>3 DEF WorkerType
  <1>6. /\ input' = input /\ current' = current /\ thread' = thread /\ nextWorker' = nextWorker
        /\ overdue' = overdue /\ expelledCount' = expelledCount /\ terminated' = terminated
    BY <1>3 DEF poolVars
  <1> HIDE DEF h
  <1>7. TypeOK'
    <2>1. callbacks' \subseteq Requests /\ told' \subseteq Requests /\ lost' \subseteq Requests
      <3>1. callbacks \subseteq Requests /\ told \subseteq Requests /\ lost \subseteq Requests
        BY DEF IInv, TypeOK
      <3>2. h # NoHandler => h \in Requests
        BY <1>2, Constants DEF Requests
      <3> QED BY <1>3, <3>1, <3>2, TellTypes DEF callbackVars
    <2> QED BY <1>3, <1>5, <1>6, <2>1 DEF IInv, TypeOK, WorkerType
  <1>8. PopsOKOf(s)'
    <2>1. \A l \in Threads : /\ l \in Served(s)' <=> l \in Served(s)
                             /\ l \in Arrived(s)' <=> l \in Arrived(s)
      BY <1>1, <1>5, <1>6 DEF Served, Arrived
    <2>2. Served(s)' = Served(s) /\ Arrived(s)' = Arrived(s) /\ Pushed(s)' = Pushed(s)
      BY <1>3, <2>1 DEF Served, Arrived, Pushed
    <2> QED BY <1>1, <1>3, <1>6, <2>2, CallsSame, PopsSame DEF IInv, PopsOK
  <1>9. PostedOK'
    <2> SUFFICES ASSUME NEW q \in Requests, req'[q].at \in {"fill", "call", "posted"} PROVE Done(q)'
      BY DEF PostedOK
    <2>1. Done(q)
      BY <1>3 DEF IInv, PostedOK
    <2>2. CASE h = q /\ h # NoHandler
      BY <1>3, <2>2, TellCarriedOut DEF Done
    <2>3. CASE h # q \/ h = NoHandler
      <3>1. \A l \in Threads : worker[l].at = "run" /\ worker[l].handler = q /\ l # k
                                  => worker'[l].at = "run" /\ worker'[l].handler = q
        BY <1>5
      <3>2. worker[k].handler # q \/ q = NoHandler
        BY <2>3 DEF h
      <3>3. CarriedOut(q) => CarriedOut(q)'
        BY <1>3, TellCarriedOut, CarriedOutSame
      <3> QED BY <1>3, <1>6, <2>1, <3>1, <3>2, <3>3 DEF Done
    <2> QED BY <2>2, <2>3
  <1>10. h = NoHandler /\ refused[s] = {} => queue'[s] # <<>>
    BY <1>1, <1>3 DEF IInv, EmptyHanded, h
  <1>11. deferred'[s] \in Nat \ {0}
    <2>1. deferred[s] > 0 /\ deferred[s] \in Nat
      BY <1>1, InLoop DEF IInv, TypeOK, callbackVars
    <2> QED BY <1>3, <2>1
  <1>12. \A t \in Strands : t # s =>
            queue'[t] = queue[t] /\ deferred'[t] = deferred[t] /\ missed'[t] = missed[t]
    BY <1>3
  <1>13. worker[k].at # "idle" /\ UNCHANGED <<global, req, refused>> /\ UNCHANGED poolVars
    BY <1>1, <1>3
  <1> QED BY <1>2, <1>4, <1>7, <1>8, <1>9, <1>10, <1>11, <1>12, <1>13, LoopIInv

\* A call came meanwhile: the loop goes on.
LEMMA LeaveAgainIInv ==
    ASSUME IInv, NEW k \in Threads, Leave(k), NEW s, s = worker[k].strand, deferred[s] > 1, UNCHANGED walletVars
    PROVE  IInv'
  <1> DEFINE h == worker[k].handler
  <1>1. /\ worker[k].at = "leave" /\ s \in Strands
        /\ \A l \in Threads : worker[l].strand = s => l = k
    BY InLoop DEF Leave
  <1>2. worker[k] \in WorkerType /\ worker \in [Threads -> WorkerType] /\ h \in Handlers \cup {NoHandler}
    BY <1>1 DEF IInv, TypeOK, WorkerType, callbackVars
  <1>3. /\ worker' = [worker EXCEPT ![k].at = "pop"]
        /\ deferred' = [deferred EXCEPT ![s] = @ - 1]
        /\ queue' = queue /\ refused' = refused /\ missed' = missed
        /\ UNCHANGED poolVars /\ global' = global /\ req' = req /\ callbackVars' = callbackVars
    BY DEF Leave, walletVars
  <1>4. worker' = [worker EXCEPT ![k].at = "pop", ![k].handler = h]
    BY <1>2, <1>3 DEF WorkerType
  <1>5. /\ worker'[k].at = "pop" /\ worker'[k].strand = s /\ worker'[k].handler = h
        /\ \A l \in Threads : l # k => worker'[l] = worker[l]
        /\ worker' \in [Threads -> WorkerType]
    BY <1>2, <1>3 DEF WorkerType
  <1>6. /\ input' = input /\ current' = current /\ thread' = thread /\ nextWorker' = nextWorker
        /\ overdue' = overdue /\ expelledCount' = expelledCount /\ terminated' = terminated
    BY <1>3 DEF poolVars
  <1>7. /\ deferred'[s] = deferred[s] - 1 /\ deferred[s] \in Nat /\ deferred'[s] \in Nat \ {0}
        /\ \A t \in Strands : t # s => deferred'[t] = deferred[t]
        /\ deferred' \in [Strands -> Nat]
    BY <1>1, <1>3 DEF IInv, TypeOK, callbackVars
  <1> HIDE DEF h
  <1>8. TypeOK'
    BY <1>3, <1>5, <1>6, <1>7 DEF IInv, TypeOK, WorkerType, callbackVars
  <1>9. PopsOKOf(s)'
    <2>1. Served(s) = {k} /\ Served(s)' = {}
      BY <1>1, <1>5 DEF Served
    <2>2. \A l \in Threads : l \in Arrived(s)' <=> l \in Arrived(s)
      BY <1>1, <1>5, <1>6 DEF Arrived
    <2>3. Arrived(s)' = Arrived(s) /\ Pushed(s)' = Pushed(s)
      BY <1>3, <2>2 DEF Arrived, Pushed
    <2>4. Cardinality(Served(s)) = 1 /\ Cardinality(Served(s)') = 0
      BY <2>1, FS_EmptySet, FS_Singleton
    <2>5. /\ Cardinality(Occurs(input, Call(s))) \in Nat /\ Cardinality(Arrived(s)) \in Nat
          /\ Cardinality(Pushed(s)) \in Nat
          /\ Pops(s) = Cardinality(Occurs(input, Call(s))) + Cardinality(Arrived(s)) + deferred[s]
                         + Cardinality(Pushed(s)) - Cardinality(Served(s))
          /\ Pops(s)' = Cardinality(Occurs(input', Call(s))) + Cardinality(Arrived(s)') + deferred'[s]
                         + Cardinality(Pushed(s)') - Cardinality(Served(s)')
      BY <1>1, PopsNumbers
    <2>6. Pops(s)' = Pops(s)
      BY <1>6, <1>7, <2>3, <2>4, <2>5
    <2> QED BY <1>1, <1>3, <1>6, <2>6 DEF IInv, PopsOK, PopsOKOf
  <1>10. PostedOK'
    <2> SUFFICES ASSUME NEW q \in Requests, req'[q].at \in {"fill", "call", "posted"} PROVE Done(q)'
      BY DEF PostedOK
    <2>1. Done(q)
      BY <1>3 DEF IInv, PostedOK
    <2>2. \A l \in Threads : worker[l].at = "run" => worker'[l] = worker[l]
      BY <1>1, <1>5
    <2> QED BY <1>3, <1>6, <2>1, <2>2 DEF Done, CarriedOut, callbackVars
  <1>11. \A t \in Strands : t # s =>
            queue'[t] = queue[t] /\ deferred'[t] = deferred[t] /\ missed'[t] = missed[t]
    BY <1>3, <1>7
  <1>12. worker[k].at # "idle" /\ UNCHANGED <<global, req, refused>> /\ UNCHANGED poolVars
    BY <1>1, <1>3
  <1> QED BY <1>2, <1>4, <1>7, <1>8, <1>9, <1>10, <1>11, <1>12, LoopIInv

\* No call is left: the thread leaves the strand.
LEMMA LeaveIInv ==
    ASSUME IInv, NEW k \in Threads, Leave(k), NEW s, s = worker[k].strand, ~(deferred[s] > 1), UNCHANGED walletVars
    PROVE  IInv'
  <1>1. /\ worker[k].at = "leave" /\ s \in Strands /\ deferred[s] = 1
        /\ thread[k].job = Call(s) /\ thread[k].at = "busy"
        /\ \A l \in Threads : worker[l].strand = s => l = k
    <2>1. worker[k].at = "leave"
      BY DEF Leave
    <2>2. s \in Strands
      BY <2>1, InLoop
    <2>3. deferred[s] \in Nat
      BY <2>2 DEF IInv, TypeOK, callbackVars
    <2> QED BY <2>1, <2>2, <2>3, InLoop
  <1>2. /\ worker' = [worker EXCEPT ![k] = Idle]
        /\ deferred' = [deferred EXCEPT ![s] = @ - 1]
        /\ thread' = [thread EXCEPT ![k].at = "idle", ![k].job = NoJob]
        /\ UNCHANGED <<input, current, nextWorker, overdue, expelledCount, terminated>>
        /\ UNCHANGED <<queue, refused, missed>>
        /\ UNCHANGED <<global, req, callbackVars>>
    BY DEF Leave, Finish, walletVars
  <1>3. /\ thread' \in [Threads -> ThreadType] /\ thread'[k].job = NoJob
        /\ \A l \in Threads : l # k => thread'[l] = thread[l]
        /\ PoolOK'
    BY <1>1, <1>2, JobEnds
  <1>4. /\ deferred' \in [Strands -> Nat] /\ deferred'[s] = 0
        /\ \A t \in Strands : t # s => deferred'[t] = deferred[t]
    BY <1>1, <1>2 DEF IInv, TypeOK, callbackVars
  <1>5. /\ worker' \in [Threads -> WorkerType] /\ worker'[k] = Idle
        /\ \A l \in Threads : l # k => worker'[l] = worker[l]
    BY <1>2 DEF IInv, TypeOK, WorkerType, Idle, callbackVars
  <1>6. TypeOK'
    BY <1>2, <1>3, <1>4, <1>5 DEF IInv, TypeOK, ThreadType, WorkerType, callbackVars
  <1>7. WorkersOK'
    BY <1>3, <1>5 DEF IInv, WorkersOK, Idle
  <1>8. StrandExclusive' /\ CountsOK'
    <2>1. Inside(s)' = {}
      BY <1>1, <1>5, Constants DEF Inside, Idle
    <2>2. \A t \in Strands : t # s => Inside(t)' = Inside(t)
      BY <1>1, <1>5, Constants DEF Inside, Idle
    <2> QED BY <1>4, <2>1, <2>2 DEF IInv, StrandExclusive, CountsOK
  <1>9. RequestsOK'
    BY <1>1, <1>2, <1>3, JobKinds DEF IInv, RequestsOK
  <1>10. PopsOK'
    <2> SUFFICES ASSUME NEW t \in Strands PROVE PopsOKOf(t)'
      BY DEF PopsOK
    <2>1. Pushed(t)' = Pushed(t)
      BY <1>2 DEF Pushed
    <2>2. \A l \in Threads : l \in Arrived(t)' <=> l \in Arrived(t)
      BY <1>1, <1>3, <1>5, JobKinds DEF Arrived
    <2>3. Arrived(t)' = Arrived(t)
      BY <2>2 DEF Arrived
    <2>4. CASE t # s
      <3>1. \A l \in Threads : l \in Served(t)' <=> l \in Served(t)
        BY <1>1, <1>5, <2>4 DEF Served, Idle
      <3>2. Served(t)' = Served(t)
        BY <3>1 DEF Served
      <3> QED BY <1>2, <1>4, <2>1, <2>3, <2>4, <3>2, CallsSame, PopsSame DEF IInv, PopsOK
    <2>5. CASE t = s
      <3>1. Served(s) = {k} /\ Served(s)' = {}
        BY <1>1, <1>5 DEF Served, Idle
      <3>2. Cardinality(Served(s)) = 1 /\ Cardinality(Served(s)') = 0
        BY <3>1, FS_EmptySet, FS_Singleton
      <3>3. /\ Cardinality(Occurs(input, Call(s))) \in Nat /\ Cardinality(Arrived(s)) \in Nat
            /\ Cardinality(Pushed(s)) \in Nat
            /\ Pops(s) = Cardinality(Occurs(input, Call(s))) + Cardinality(Arrived(s)) + deferred[s]
                           + Cardinality(Pushed(s)) - Cardinality(Served(s))
            /\ Pops(s)' = Cardinality(Occurs(input', Call(s))) + Cardinality(Arrived(s)') + deferred'[s]
                           + Cardinality(Pushed(s)') - Cardinality(Served(s)')
        BY <1>1, PopsNumbers
      <3>4. input' = input
        BY <1>2
      <3>5. Pops(s)' = Pops(s)
        BY <1>1, <1>4, <2>1, <2>3, <2>5, <3>2, <3>3, <3>4
      <3> QED BY <1>2, <2>5, <3>5 DEF IInv, PopsOK, PopsOKOf
    <2> QED BY <2>4, <2>5
  <1>11. EmptyHanded'
    BY <1>2, <1>5 DEF IInv, EmptyHanded, Idle
  <1>12. PostedOK'
    <2> SUFFICES ASSUME NEW q \in Requests, req'[q].at \in {"fill", "call", "posted"} PROVE Done(q)'
      BY DEF PostedOK
    <2>1. Done(q)
      BY <1>2 DEF IInv, PostedOK
    <2>2. \A l \in Threads : thread[l].job = Account(q) => thread'[l].job = Account(q)
      BY <1>1, <1>3, JobKinds
    <2>3. \A l \in Threads : worker[l].at = "run" => worker'[l] = worker[l]
      BY <1>1, <1>5
    <2> QED BY <1>2, <2>1, <2>2, <2>3 DEF Done, CarriedOut, callbackVars
  <1> QED BY <1>3, <1>6, <1>7, <1>8, <1>9, <1>10, <1>11, <1>12 DEF IInv

-----------------------------------------------------------------------------
(* The pool.                                                                 *)

\* A step that leaves every thread its job and every queue its jobs.
LEMMA JobsSameIInv ==
    ASSUME IInv, TypeOK', PoolOK', UNCHANGED <<input, strandVars, walletVars>>,
           \A l \in Threads : thread'[l].job = thread[l].job
    PROVE  IInv'
  <1>1. /\ queue' = queue /\ deferred' = deferred /\ worker' = worker /\ refused' = refused
        /\ missed' = missed /\ req' = req /\ callbackVars' = callbackVars /\ input' = input
    BY DEF strandVars, walletVars
  <1>2. WorkersOK' /\ RequestsOK' /\ EmptyHanded'
    BY <1>1 DEF IInv, WorkersOK, RequestsOK, EmptyHanded
  <1>3. StrandExclusive' /\ CountsOK'
    BY <1>1, StrandsSame DEF IInv
  <1>4. PopsOK'
    <2> SUFFICES ASSUME NEW s \in Strands PROVE PopsOKOf(s)'
      BY DEF PopsOK
    <2>1. Arrived(s)' = Arrived(s) /\ Served(s)' = Served(s) /\ Pushed(s)' = Pushed(s)
      BY <1>1 DEF Arrived, Served, Pushed
    <2> QED BY <1>1, <2>1, CallsSame, PopsSame DEF IInv, PopsOK
  <1>5. PostedOK'
    BY <1>1, DoneKept DEF IInv, PostedOK
  <1> QED BY <1>2, <1>3, <1>4, <1>5 DEF IInv

LEMMA TakeIInv == ASSUME IInv, NEW k \in Threads, Take(k), UNCHANGED <<strandVars, walletVars>> PROVE IInv'
  <1>1. PICK i \in Ids : /\ i = TakesFrom(k) /\ input[i] # <<>>
                         /\ thread' = [thread EXCEPT ![k].at = "busy", ![k].job = Head(input[i])]
                         /\ input' = [input EXCEPT ![i] = Tail(@)]
    <2>1. thread[k].id \in Ids /\ (thread[k].id + 1) % Count \in Ids
      <3>1. thread[k].id \in Ids
        BY DEF IInv, TypeOK, callbackVars
      <3>2. thread[k].id + 1 \in Nat
        BY <3>1 DEF Ids
      <3> QED BY <3>1, <3>2, Turn
    <2>2. TakesFrom(k) \in Ids
      BY <2>1 DEF TakesFrom
    <2> QED BY <2>2 DEF Take, CanTake
  <1>2. /\ thread[k].at = "idle" /\ thread[k].job = NoJob
        /\ UNCHANGED <<current, nextWorker, overdue, expelledCount, terminated>>
    BY DEF Take, CanTake, IInv, PoolOK
  <1>3. /\ queue' = queue /\ deferred' = deferred /\ worker' = worker /\ refused' = refused
        /\ missed' = missed /\ req' = req /\ callbackVars' = callbackVars /\ global' = global
    BY DEF strandVars, walletVars
  <1>4. input[i] \in Seq(Jobs) /\ input \in [Ids -> Seq(Jobs)] /\ Head(input[i]) \in Jobs /\ Tail(input[i]) \in Seq(Jobs)
    BY <1>1 DEF IInv, TypeOK, callbackVars
  <1>5. /\ thread'[k].job = Head(input[i]) /\ thread'[k].at = "busy"
        /\ thread'[k].id = thread[k].id /\ thread'[k].running = thread[k].running
        /\ \A l \in Threads : l # k => thread'[l] = thread[l]
        /\ thread' \in [Threads -> ThreadType]
    <2>1. thread \in [Threads -> ThreadType]
      BY DEF IInv, TypeOK, ThreadType, callbackVars
    <2>2. /\ thread'[k].job = Head(input[i]) /\ thread'[k].at = "busy"
          /\ thread'[k].id = thread[k].id /\ thread'[k].running = thread[k].running
          /\ \A l \in Threads : l # k => thread'[l] = thread[l]
      BY <1>1, <2>1 DEF ThreadType
    <2>3. thread'[k] \in ThreadType
      BY <1>1, <1>4, <2>1 DEF ThreadType
    <2>4. thread' = [l \in Threads |-> thread'[l]]
      BY <1>1, <2>1
    <2> QED BY <2>1, <2>2, <2>3, <2>4
  <1>6. TypeOK'
    <2>1. input' \in [Ids -> Seq(Jobs)]
      BY <1>1, <1>4
    <2> QED BY <1>2, <1>3, <1>5, <2>1 DEF IInv, TypeOK, ThreadType, callbackVars
  <1>7. PoolOK'
    <2>1. \A l \in Threads : thread'[l].at # "busy" => thread'[l].job = NoJob
      BY <1>5 DEF IInv, PoolOK
    <2>2. \A l \in Threads : l > Count + expelledCount' => thread'[l].at = "none"
      BY <1>2, <1>5 DEF IInv, PoolOK
    <2>3. \A j \in Ids : /\ thread'[current'[j]].id = j
                         /\ thread'[current'[j]].at # "none" /\ thread'[current'[j]].running
      <3> SUFFICES ASSUME NEW j \in Ids
                   PROVE  /\ thread'[current[j]].id = j
                          /\ thread'[current[j]].at # "none" /\ thread'[current[j]].running
        BY <1>2
      <3>1. current[j] \in Threads
        BY DEF IInv, TypeOK, callbackVars
      <3>2. /\ thread[current[j]].id = j
            /\ thread[current[j]].at # "none" /\ thread[current[j]].running
        BY DEF IInv, PoolOK
      <3>3. CASE current[j] = k
        BY <1>5, <3>2, <3>3
      <3>4. CASE current[j] # k
        BY <1>5, <3>1, <3>2, <3>4
      <3> QED BY <3>3, <3>4
    <2>4. overdue' # NoId => expelledCount' < MaxExpelled
      BY <1>2 DEF IInv, PoolOK
    <2> QED BY <2>1, <2>2, <2>3, <2>4 DEF PoolOK
  <1>8. worker[k].at = "idle"
    BY <1>2, JobKinds DEF IInv, WorkersOK
  <1>9. WorkersOK'
    BY <1>3, <1>5, <1>8 DEF IInv, WorkersOK
  <1>10. StrandExclusive' /\ CountsOK'
    BY <1>3, StrandsSame DEF IInv
  <1>11. RequestsOK'
    <2>1. \A r \in Requests : thread[k].job # Request(r)
      BY <1>2, JobKinds, Constants
    <2> QED BY <1>3, <1>5, <2>1 DEF IInv, RequestsOK
  <1>12. PopsOK'
    <2> SUFFICES ASSUME NEW s \in Strands PROVE PopsOKOf(s)'
      BY DEF PopsOK
    <2>1. Served(s)' = Served(s) /\ Pushed(s)' = Pushed(s)
      BY <1>3 DEF Served, Pushed
    <2>2. /\ IsFiniteSet(Occurs(input', Call(s)))
          /\ Cardinality(Occurs(input', Call(s))) =
                IF Head(input[i]) = Call(s) THEN Cardinality(Occurs(input, Call(s))) - 1
                ELSE Cardinality(Occurs(input, Call(s)))
      BY <1>1, CallsTaken
    <2>3. k \notin Arrived(s)
      BY <1>2, JobKinds DEF Arrived
    <2>4. CASE Head(input[i]) # Call(s)
      <3>1. \A l \in Threads : l \in Arrived(s)' <=> l \in Arrived(s)
        BY <1>3, <1>5, <2>3, <2>4 DEF Arrived
      <3>2. Arrived(s)' = Arrived(s)
        BY <3>1 DEF Arrived
      <3> QED BY <1>3, <2>1, <2>2, <2>4, <3>2, PopsSame DEF IInv, PopsOK
    <2>5. CASE Head(input[i]) = Call(s)
      <3>1. \A l \in Threads : l \in Arrived(s)' <=> l \in Arrived(s) \/ l = k
        BY <1>3, <1>5, <1>8, <2>5 DEF Arrived
      <3>2. Arrived(s)' = Arrived(s) \cup {k}
        BY <3>1 DEF Arrived
      <3>3. Cardinality(Arrived(s)') = Cardinality(Arrived(s)) + 1
        BY <2>3, <3>2, Counted, OneMore
      <3>4. Pops(s)' = Pops(s)
        BY <1>3, <2>1, <2>2, <2>5, <3>3, PopsNumbers
      <3> QED BY <1>3, <2>2, <3>4 DEF IInv, PopsOK, PopsOKOf
    <2> QED BY <2>4, <2>5
  <1>13. EmptyHanded'
    BY <1>3 DEF IInv, EmptyHanded
  <1>14. PostedOK'
    <2> SUFFICES ASSUME NEW q \in Requests, req'[q].at \in {"fill", "call", "posted"} PROVE Done(q)'
      BY DEF PostedOK
    <2>1. Done(q)
      BY <1>3 DEF IInv, PostedOK
    <2>2. CASE \E j \in Ids : \E n \in DOMAIN input[j] : input[j][n] = Account(q)
      <3>1. PICK j \in Ids : \E n \in DOMAIN input[j] : input[j][n] = Account(q)
        BY <2>2
      <3>2. PICK n \in DOMAIN input[j] : input[j][n] = Account(q)
        BY <3>1
      <3>3. CASE j # i
        <4>1. input'[j] = input[j]
          BY <1>1, <1>4, <3>3
        <4> QED BY <3>2, <4>1 DEF Done, CarriedOut, callbackVars
      <3>4. CASE j = i /\ n = 1
        <4>1. thread'[k].job = Account(q)
          BY <1>4, <1>5, <3>2, <3>4
        <4> QED BY <4>1 DEF Done, CarriedOut, callbackVars
      <3>5. CASE j = i /\ n # 1
        <4>1. n - 1 \in DOMAIN Tail(input[i]) /\ Tail(input[i])[n - 1] = input[i][n]
          BY <1>1, <1>4, <3>2, <3>5
        <4>2. input'[i] = Tail(input[i])
          BY <1>1, <1>4
        <4>3. n - 1 \in DOMAIN input'[i] /\ input'[i][n - 1] = Account(q)
          BY <3>2, <3>5, <4>1, <4>2
        <4> QED BY <4>3 DEF Done, CarriedOut, callbackVars
      <3> QED BY <3>3, <3>4, <3>5
    <2>3. CASE \E l \in Threads : thread[l].job = Account(q)
      <3>1. PICK l \in Threads : thread[l].job = Account(q)
        BY <2>3
      <3>2. l # k
        BY <1>2, <3>1, JobKinds, Constants
      <3>3. thread'[l].job = Account(q)
        BY <1>5, <3>1, <3>2
      <3> QED BY <3>3 DEF Done, CarriedOut, callbackVars
    <2>4. CASE \/ CarriedOut(q) \/ \E s \in Strands : q \in refused[s]
               \/ \E s \in Strands : \E n \in DOMAIN queue[s] : queue[s][n].handler = q
               \/ \E l \in Threads : worker[l].at = "run" /\ worker[l].handler = q /\ q # NoHandler
      BY <1>3, <2>4 DEF Done, CarriedOut, callbackVars
    <2> QED BY <2>1, <2>2, <2>3, <2>4 DEF Done, CarriedOut, callbackVars
  <1> QED BY <1>6, <1>7, <1>9, <1>10, <1>11, <1>12, <1>13, <1>14 DEF IInv

LEMMA ExitIInv == ASSUME IInv, NEW k \in Threads, Exit(k), UNCHANGED <<strandVars, walletVars>> PROVE IInv'
  <1>1. /\ thread[k].at = "idle" /\ ~thread[k].running /\ thread' = [thread EXCEPT ![k] = Ended]
        /\ UNCHANGED <<input, current, nextWorker, overdue, expelledCount, terminated>>
    BY DEF Exit
  <1>2. thread \in [Threads -> ThreadType] /\ current \in [Ids -> Threads]
    BY DEF IInv, TypeOK, ThreadType, callbackVars
  <1>3. Ended \in ThreadType
    BY Constants DEF Ended, ThreadType, Ids
  <1>4. /\ thread' \in [Threads -> ThreadType] /\ thread'[k] = Ended
        /\ \A l \in Threads : l # k => thread'[l] = thread[l]
    BY <1>1, <1>2, <1>3
  <1>5. TypeOK'
    BY <1>1, <1>4 DEF IInv, TypeOK, ThreadType, strandVars, walletVars, callbackVars
  <1>6. \A j \in Ids : current[j] # k
    BY <1>1 DEF IInv, PoolOK
  <1>7. PoolOK'
    BY <1>1, <1>2, <1>4, <1>6 DEF IInv, PoolOK, Ended
  <1>8. \A l \in Threads : thread'[l].job = thread[l].job
    BY <1>1, <1>4 DEF IInv, PoolOK, Ended
  <1> QED BY <1>1, <1>5, <1>7, <1>8, JobsSameIInv

LEMMA SeeOverdueIInv ==
    ASSUME IInv, NEW i \in Ids, SeeOverdue(i), UNCHANGED <<strandVars, walletVars>> PROVE IInv'
  <1>1. /\ expelledCount < MaxExpelled /\ overdue' = i
        /\ UNCHANGED <<input, current, thread, nextWorker, expelledCount, terminated>>
    BY DEF SeeOverdue
  <1>2. TypeOK' /\ PoolOK'
    BY <1>1 DEF IInv, TypeOK, PoolOK, strandVars, walletVars, callbackVars
  <1> QED BY <1>1, <1>2, JobsSameIInv

LEMMA ExpelIInv == ASSUME IInv, Expel, UNCHANGED <<strandVars, walletVars>> PROVE IInv'
  <1> DEFINE new == Count + expelledCount + 1
             old == current[overdue]
  <1>1. /\ overdue # NoId
        /\ thread' = [thread EXCEPT ![old].running = FALSE, ![new] = Started(overdue)]
        /\ current' = [current EXCEPT ![overdue] = new]
        /\ overdue' = NoId /\ expelledCount' = expelledCount + 1
        /\ UNCHANGED <<input, nextWorker, terminated>>
    BY DEF Expel
  <1>2. /\ thread \in [Threads -> ThreadType] /\ current \in [Ids -> Threads] /\ overdue \in Ids
        /\ expelledCount \in Nat /\ expelledCount < MaxExpelled /\ old \in Threads
    BY <1>1 DEF IInv, TypeOK, ThreadType, PoolOK, callbackVars
  <1>3. new \in Threads /\ new > Count + expelledCount
    BY <1>2, Constants DEF Threads
  <1>4. thread[new].at = "none" /\ thread[new].job = NoJob
    BY <1>3 DEF IInv, PoolOK
  <1>5. old # new /\ \A j \in Ids : current[j] # new /\ (j # overdue => current[j] # old)
    BY <1>2, <1>4 DEF IInv, PoolOK
  <1>6. Started(overdue) \in ThreadType
    BY <1>2 DEF Started, ThreadType
  <1> HIDE DEF new, old
  <1>7. /\ thread'[new] = Started(overdue)
        /\ thread'[old].at = thread[old].at /\ thread'[old].job = thread[old].job
        /\ thread'[old].id = thread[old].id
        /\ \A l \in Threads : l # old /\ l # new => thread'[l] = thread[l]
        /\ thread' \in [Threads -> ThreadType]
    <2>1. /\ thread'[new] = Started(overdue)
          /\ thread'[old] = [thread[old] EXCEPT !.running = FALSE]
          /\ \A l \in Threads : l # old /\ l # new => thread'[l] = thread[l]
          /\ thread' = [l \in Threads |-> thread'[l]]
      BY <1>1, <1>2, <1>3, <1>5
    <2>2. thread[old] \in ThreadType
      BY <1>2
    <2>3. /\ thread'[old] \in ThreadType /\ thread'[old].at = thread[old].at
          /\ thread'[old].job = thread[old].job /\ thread'[old].id = thread[old].id
      BY <2>1, <2>2 DEF ThreadType
    <2> QED BY <1>2, <1>6, <2>1, <2>3
  <1>8. /\ current' \in [Ids -> Threads] /\ current'[overdue] = new
        /\ \A j \in Ids : j # overdue => current'[j] = current[j]
    BY <1>1, <1>2, <1>3
  <1>9. TypeOK'
    <2>1. /\ queue' = queue /\ deferred' = deferred /\ worker' = worker /\ refused' = refused
          /\ missed' = missed /\ req' = req /\ callbackVars' = callbackVars /\ global' = global
      BY DEF strandVars, walletVars
    <2>2. expelledCount' \in Nat /\ expelledCount' \in 0 .. MaxExpelled /\ overdue' = NoId
      BY <1>1, <1>2, Constants
    <2> QED BY <1>1, <1>7, <1>8, <2>1, <2>2 DEF IInv, TypeOK, ThreadType, callbackVars
  <1>10. /\ thread'[new].id = overdue /\ thread'[new].at = "idle" /\ thread'[new].running = TRUE
         /\ thread'[new].job = NoJob
    BY <1>7 DEF Started
  <1>11. PoolOK'
    <2>1. \A l \in Threads : thread'[l].at # "busy" => thread'[l].job = NoJob
      BY <1>2, <1>7, <1>10 DEF IInv, PoolOK
    <2>2. \A l \in Threads : l > Count + expelledCount' => thread'[l].at = "none"
      <3> SUFFICES ASSUME NEW l \in Threads, l > Count + expelledCount' PROVE thread'[l].at = "none"
        OBVIOUS
      <3>1. l > Count + expelledCount /\ l # new
        BY <1>1, <1>2, Constants DEF Threads, new
      <3>2. thread[l].at = "none"
        BY <3>1 DEF IInv, PoolOK
      <3> QED BY <1>7, <3>1, <3>2
    <2>3. \A j \in Ids : /\ thread'[current'[j]].id = j
                         /\ thread'[current'[j]].at # "none" /\ thread'[current'[j]].running
      <3> SUFFICES ASSUME NEW j \in Ids
                   PROVE  /\ thread'[current'[j]].id = j
                          /\ thread'[current'[j]].at # "none" /\ thread'[current'[j]].running
        OBVIOUS
      <3>1. CASE j = overdue
        BY <1>8, <1>10, <3>1
      <3>2. CASE j # overdue
        BY <1>2, <1>5, <1>7, <1>8, <3>2 DEF IInv, PoolOK
      <3> QED BY <3>1, <3>2
    <2> QED BY <1>1, <2>1, <2>2, <2>3 DEF PoolOK
  <1>12. \A l \in Threads : thread'[l].job = thread[l].job
    BY <1>4, <1>7, <1>10
  <1> QED BY <1>1, <1>9, <1>11, <1>12, JobsSameIInv

-----------------------------------------------------------------------------
(* The theorems.                                                             *)

LEMMA StepIInv == IInv /\ [Next]_vars => IInv'
  <1> SUFFICES ASSUME IInv, [Next]_vars PROVE IInv'
    OBVIOUS
  <1>1. ASSUME NEW r \in Requests, Arrive(r) PROVE IInv'
    BY <1>1, ArriveIInv
  <1>2. ASSUME NEW r \in Requests, NEW k \in Threads, Post(k, r) PROVE IInv'
    BY <1>2, GetWalletIInv, CreateWalletIInv, PushRequestIInv, FillRequestIInv, PostRequestIInv,
       PostAccountIInv, PoolFullIInv DEF Post
  <1>3. ASSUME NEW r \in Requests, NEW k \in Threads, AccountStep(k, r) PROVE IInv'
    BY <1>3, AccountStepIInv
  <1>4. ASSUME NEW k \in Threads, StrandStep(k) PROVE IInv'
    <2>1. CASE \E s \in Strands : Invoke(k, s)
      BY <1>4, <2>1, InvokeBusyIInv, InvokeFreeIInv DEF StrandStep
    <2>2. CASE Pop(k)
      BY <1>4, <2>2, PopIInv DEF StrandStep
    <2>3. CASE Leave(k)
      BY <1>4, <2>3, LeaveAgainIInv, LeaveIInv DEF StrandStep
    <2> QED BY <1>4, <2>1, <2>2, <2>3 DEF StrandStep
  <1>5. ASSUME NEW k \in Threads, RunHandler(k) PROVE IInv'
    BY <1>5, RunHandlerIInv
  <1>6. ASSUME PoolStep, UNCHANGED <<strandVars, walletVars>> PROVE IInv'
    BY <1>6, TakeIInv, ExitIInv, SeeOverdueIInv, ExpelIInv DEF PoolStep
  <1>7. ASSUME NEW w \in Wallets, Expire(w) PROVE IInv'
    BY <1>7, ExpireIInv
  <1>8. ASSUME NEW r \in Requests, TakeCallback(r) PROVE IInv'
    BY <1>8, TakeCallbackIInv
  <1>9. CASE UNCHANGED vars
    <2>1. UNCHANGED <<poolVars, strandVars, walletVars>>
      BY <1>9 DEF vars
    <2>2. TypeOK' /\ PoolOK'
      BY <2>1 DEF IInv, TypeOK, PoolOK, poolVars, strandVars, walletVars, callbackVars
    <2> QED BY <2>1, <2>2, JobsSameIInv DEF poolVars
  <1> QED BY <1>1, <1>2, <1>3, <1>4, <1>5, <1>6, <1>7, <1>8, <1>9 DEF Next

\* The inductive invariant holds at every step of the wallet node, its pool and its strands.
THEOREM Invariance == Spec => []IInv
  BY InitIInv, StepIInv, PTL DEF Spec

\* At most one thread is in the loop of a strand, for any number of threads, strands and
\* expelled workers: the count of invokeCall is above zero exactly while one is.
THEOREM StrandsExclusive == Spec => []StrandExclusive
  <1>1. IInv => StrandExclusive
    BY DEF IInv
  <1> QED BY <1>1, Invariance, PTL

LEMMA HolderAlive == IInv => NoDanglingCall
  <1> SUFFICES ASSUME IInv, NEW s \in Strands, refused[s] = {}, Called(s) \/ Inside(s) # {} PROVE Alive(s)
    BY DEF NoDanglingCall
  <1>1. Len(queue[s]) > 0 => Alive(s)
    BY DEF IInv, TypeOK, Alive, callbackVars
  <1>2. /\ Cardinality(Arrived(s)) \in Nat /\ Cardinality(Served(s)) \in Nat
        /\ Cardinality(Pushed(s)) \in Nat /\ deferred[s] \in Nat
        /\ IsFiniteSet(Occurs(input, Call(s))) /\ Cardinality(Occurs(input, Call(s))) \in Nat
        /\ Len(queue[s]) \in Nat
        /\ Pops(s) = Cardinality(Occurs(input, Call(s))) + Cardinality(Arrived(s)) + deferred[s]
                       + Cardinality(Pushed(s)) - Cardinality(Served(s))
        /\ Pops(s) <= Len(queue[s])
    BY PopsNumbers
  <1>3. Cardinality(Served(s)) <= deferred[s]
    <2>1. CASE Served(s) = {}
      BY <1>2, <2>1, FS_EmptySet
    <2>2. CASE Served(s) # {}
      <3>1. PICK k \in Threads : worker[k].strand = s /\ worker[k].at \in {"run", "leave"}
        BY <2>2 DEF Served
      <3>2. deferred[s] > 0 /\ Served(s) = {k}
        BY <3>1, InLoop DEF Served
      <3>3. Cardinality(Served(s)) = 1
        BY <3>2, FS_Singleton
      <3> QED BY <1>2, <3>2, <3>3
    <2> QED BY <2>1, <2>2
  <1>4. CASE \E i \in Ids : Call(s) \in Range(input[i])
    <2>1. PICK i \in Ids : Call(s) \in Range(input[i])
      BY <1>4
    <2>2. PICK n \in DOMAIN input[i] : input[i][n] = Call(s)
      BY <2>1 DEF Range
    <2>3. <<i, n>> \in Occurs(input, Call(s))
      BY <2>2 DEF Occurs
    <2>4. Cardinality(Occurs(input, Call(s))) > 0
      BY <1>2, <2>3, FS_EmptySet
    <2> QED BY <1>1, <1>2, <1>3, <2>4
  <1>5. ASSUME NEW k \in Threads, worker[k].strand = s PROVE Alive(s)
    <2>1. worker[k].at # "idle"
      BY <1>5, Constants DEF IInv, WorkersOK, Idle
    <2>2. deferred[s] > 0 /\ \A l \in Threads : worker[l].strand = s => l = k
      BY <1>5, <2>1, InLoop
    <2>3. CASE worker[k].at = "pop"
      <3>1. Served(s) = {}
        BY <2>2, <2>3 DEF Served
      <3>2. Cardinality(Served(s)) = 0
        BY <3>1, FS_EmptySet
      <3> QED BY <1>1, <1>2, <2>2, <3>2
    <2>4. CASE worker[k].at # "pop" /\ worker[k].handler # NoHandler
      BY <1>5, <2>4 DEF Alive
    <2>5. CASE worker[k].at # "pop" /\ worker[k].handler = NoHandler
      <3>1. worker[k].at \in {"run", "leave"}
        BY <2>1, <2>5 DEF IInv, TypeOK, callbackVars
      <3>2. queue[s] # <<>>
        BY <1>5, <2>5, <3>1 DEF IInv, EmptyHanded
      <3> QED BY <3>2 DEF Alive
    <2> QED BY <2>3, <2>4, <2>5
  <1>6. CASE \E k \in Threads : thread[k].job = Call(s)
    <2>1. PICK k \in Threads : thread[k].job = Call(s)
      BY <1>6
    <2>2. CASE worker[k].at = "idle"
      <3>1. k \in Arrived(s)
        BY <2>1, <2>2 DEF Arrived
      <3>2. Cardinality(Arrived(s)) > 0
        BY <1>2, <3>1, Counted, FS_EmptySet
      <3> QED BY <1>1, <1>2, <1>3, <3>2
    <2>3. CASE worker[k].at # "idle"
      <3>1. worker[k].strand = s
        BY <2>1, <2>3, InLoop, JobKinds
      <3> QED BY <1>5, <3>1
    <2> QED BY <2>2, <2>3
  <1>7. CASE Inside(s) # {}
    BY <1>5, <1>7 DEF Inside
  <1> QED BY <1>4, <1>6, <1>7 DEF Called

\* A holder outlives every call and every thread in its loop, as long as no push was refused,
\* although neither has a shared_ptr to it: its queue has a handler for every pop to come.
THEOREM CallsReachLiveHolders == Spec => []NoDanglingCall
  BY HolderAlive, Invariance, PTL

LEMMA RestIsEmpty == IInv => NothingLeftBehind
  <1> SUFFICES ASSUME IInv, \A k \in Threads : thread[k].at # "busy" /\ ~CanTake(k)
               PROVE  /\ \A s \in Strands : Len(queue[s]) + Cardinality(refused[s]) = missed[s]
                      /\ \A r \in Requests : req[r].at = "posted" =>
                            \/ CarriedOut(r)
                            \/ \E s \in Strands : \/ r \in refused[s]
                                                   \/ \E n \in DOMAIN queue[s] : queue[s][n].handler = r
    BY DEF NothingLeftBehind
  <1>1. \A i \in Ids : input[i] = <<>>
    <2> SUFFICES ASSUME NEW i \in Ids, input[i] # <<>> PROVE FALSE
      OBVIOUS
    <2>1. current[i] \in Threads /\ thread[current[i]].id = i /\ thread[current[i]].running
      BY DEF IInv, TypeOK, PoolOK, callbackVars
    <2>2. thread[current[i]].at = "idle"
      BY <2>1 DEF IInv, TypeOK, PoolOK, callbackVars
    <2>3. CanTake(current[i])
      BY <2>1, <2>2 DEF CanTake, TakesFrom
    <2> QED BY <2>1, <2>3
  <1>2. \A k \in Threads : thread[k].job = NoJob
    BY DEF IInv, PoolOK
  <1>3. \A k \in Threads : worker[k].at = "idle"
    BY <1>2, InLoop
  <1>4. ASSUME NEW s \in Strands PROVE Len(queue[s]) + Cardinality(refused[s]) = missed[s]
    <2>1. Occurs(input, Call(s)) = {}
      BY <1>1 DEF Occurs
    <2>2. Arrived(s) = {} /\ Served(s) = {}
      BY <1>2, <1>3, JobKinds DEF Arrived, Served
    <2>3. Pushed(s) = {}
      <3>1. \A q \in Requests, k \in Threads : thread[k].job # Request(q)
        BY <1>2, JobKinds, Constants
      <3>2. \A q \in Requests : req[q].at \notin {"fill", "call"}
        BY <3>1 DEF IInv, RequestsOK
      <3> QED BY <3>2 DEF Pushed
    <2>4. Inside(s) = {}
      BY <1>3, Constants DEF Inside, IInv, WorkersOK, Idle
    <2>5. deferred[s] = 0
      BY <2>4 DEF IInv, CountsOK
    <2>6. Pops(s) = 0
      BY <2>1, <2>2, <2>3, <2>5, FS_EmptySet DEF Pops
    <2> QED BY <2>6, PopsNumbers
  <1>5. ASSUME NEW r \in Requests, req[r].at = "posted"
        PROVE  \/ CarriedOut(r)
               \/ \E s \in Strands : \/ r \in refused[s]
                                      \/ \E n \in DOMAIN queue[s] : queue[s][n].handler = r
    <2>1. Done(r)
      BY <1>5 DEF IInv, PostedOK
    <2>2. ~ \E i \in Ids : \E n \in DOMAIN input[i] : input[i][n] = Account(r)
      BY <1>1
    <2>3. ~ \E k \in Threads : thread[k].job = Account(r)
      BY <1>2, JobKinds, Constants
    <2> QED BY <1>3, <2>1, <2>2, <2>3 DEF Done
  <1> QED BY <1>4, <1>5

\* When the pool is at rest, every posted request was carried out, was refused by its strand's
\* full queue, or stays behind in that queue, and a strand leaves as many behind as pops found
\* none, less those it refused: the end of the loop never misses a call, and no job goes with
\* an expelled thread or stays in a queue of the pool that nobody takes from.
THEOREM NothingIsLeftBehind == Spec => []NothingLeftBehind
  BY RestIsEmpty, Invariance, PTL
=============================================================================
