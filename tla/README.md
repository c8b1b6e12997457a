# Verification of graft-ng

TLA+ models of the graft-ng supernode, the TLC runs that check them on small
instances, and TLAPS proofs of their main properties for every instance.
`PROJECT.json` is the index: components, runs, hazards, theorems, and for every definition the lines of source it models.

## The system

A supernode is one process. One **IO thread** runs `Looper::serve`
(`lib/graft/connection.cpp`): it polls sockets through mongoose, turns each
request into a task, drives the tasks through a state machine, and looks after
timers, postponed tasks and upstream requests. A **thread pool** runs the
handlers' worker actions. Handlers of the payment protocol (`supernode/requests`)
share state through a global context and a list of supernodes, and talk to the
cryptonode (the daemon) and, through it, to other supernodes.

| Component | State it keeps | Operations | Properties that make it correct |
|---|---|---|---|
| Task engine (`TaskManager`, `StateMachine`) | tasks, their status, counters of clients and jobs, `m_resQueue`, `m_promiseQueue`, `m_periodicTaskQueue` | new client, dispatch through the table, post a job, take its result, forward, respond, blocking upstream call, periodic tasks, expel | a task is in one place; counters exact; table complete; a stop ends and loses nothing |
| IO loop (`Looper`) | `m_stop`, `m_forceStop`, connections | poll, accept, request, close, stop | as above, with clients and signals at any moment |
| Upstream manager | per upstream: idle and active connections, their count, waiting tasks | send, event, release, dequeue, close of an idle connection | caps kept, connections not shared, nobody waits needlessly, each task reported once |
| Postponed tasks | `m_postponedTasks`, `m_readyToResume`, `m_expireTaskQueue`, `m_futurePostponeUuids` | postpone, callback, resume, expire | callbacks before and after the postponement found; no early and no missing expiry |
| Thread pool | worker queues, workers, expelled workers | post, pop or steal, run, expel | every job run once, none left with an expelled thread, room where the engine expects it |
| MPMC queue | cells with sequence numbers, two positions | push, pop | linearizable FIFO |
| Strand | a queue and a counter | post, invoke | one handler at a time, none forgotten |
| Global context | a hash table of buckets with time-to-live, groups of keys | set, get, remove, apply, cleanup, groups | a key with one writer is a register with expiry; remove is complete; no expiry without its callback |
| Full supernode list | supernodes with stakes, blockchain based lists, newest block numbers, random generator | announce, stakes, blockchain based list, request to the cryptonode, remove, auth sample | newest data win, equal input gives equal sample |
| Payment flow | status, sale data, votes per payment in the global context | sale, sale details, reject, authorize, status (`/pay` answers "Not implemented") | a transaction is pushed with its quorum, Success is earned or claimed by another supernode, the first final update of others stays |
| Black list | rules and bans in a radix tree, a window of requests per address | read rules, process an address, ban, unban | the first rule that was not skipped decides, a ban holds for its time, the rate is bounded |
| Wallet node | wallets in memory, a strand per wallet | create, restore, balance, transfer, history | operations on one wallet are serialized, a wallet outlives its calls, what is not carried out or not told is accounted for |
| Graftlets | loaded libraries, dependency graph | search directories, drop what lacks its dependencies, search cycles | exactly the libraries whose dependencies are met stay |
| Server (`GraftServer`, `Supernode`, `WalletServer`) | looper, routes, graftlet loader, signal handlers | init, run, signals, restart | a server serves with the routes of one start |

How they interact: the IO loop calls the task engine (`onNewClient`, `onCallback`,
`onTimer`, `onClientDone`); the engine posts jobs to the pool, whose workers push
finished tasks into `m_resQueue` and wake the loop; the engine hands forwarded
tasks to the upstream manager, which calls back (`onUpstreamDone`); workers use
the global context and the supernode list directly, and ask the IO thread for
blocking upstream calls and periodic tasks through two more MPMC queues.

What is hard: tasks that move between threads without locks, callbacks that
re-enter the code that calls them, replies that overtake requests, deadlines in
the wrong order, counters that guard a stop, limits looked at long before they
matter, and read-compare-write sequences on shared tables.

## Modules

| Module | Models | Extends / uses |
|---|---|---|
| `UpstreamService` | abstract: each task is handed over, then reported once | |
| `UpstreamManager` | `UpstreamManager`, `ConnItem`, `UpstreamSender`, `UpstreamStub` | `INSTANCE UpstreamService` |
| `TaskManager` | `TaskManager`, `StateMachine`, `Looper`, workers, signals | |
| `PostponedTasks` | postponement, early callbacks and expiry, with a clock | |
| `FifoQueue` | abstract: an atomic FIFO queue of bounded length | |
| `MPMCBoundedQueue` | the lock-free queue, one action per atomic operation | `INSTANCE FifoQueue` |
| `Supernodes` | the constants the next two share | |
| `FullSupernodeList` | supernodes, announces, stakes, the request for stakes, the debug removal | extends `Supernodes` |
| `AuthSample` | the blockchain based lists and the auth samples of `FullSupernodeList` | extends `Supernodes` |
| `SaleRequests` | the entries of a payment in the global context; sale, status, details, reject requests | |
| `RtaPayment` | the authorization of a payment beside those requests | extends `SaleRequests` |
| `GlobalContext` | a bucket of `TSHashtable` over `TSList`, `Context::Global`, a group | |
| `Maps` | a `std::map` as a function | |
| `RadixTree` | the radix tree with bit strings as keys, as operators on trees | extends `Maps` |
| `BlackList` | `BlackListImpl`, `IpMap` | extends `RadixTree` |
| `ThreadPool` | `ThreadPoolImpl`, `WorkerT` | |
| `Strand` | `StrandImpl` | extends `ThreadPool` |
| `WalletManager` | `WalletManager` and the requests of the wallet node | extends `Strand` |
| `Graftlets` | `GraftletLoader` and its `DependencyGraph` | extends `Maps` |
| `GraftServer` | start, routes, signals and restart of both servers | extends `Graftlets` |
| `*Proofs` | theorems about the module of that name | extends it and `TLAPS` (`FullSupernodeListProofs` also `AuthSample`, `TaskManagerProofs` also `PostponedTasks`, `GraftServerProofs` also `BlackList`) |
| `MC*` | the constants of the runs | extends its module |

A definition that starts with "Faulty:" in its comment is not part of a model.
It is a variant of the definition that follows, with a plausible mistake; each is
listed under "mutants" and makes TLC find the property it is listed with violated.

### UpstreamManager

State: per `ConnItem` its `m_connCnt`, idle and active connections and
`m_taskQueue`; per task its live `UpstreamSender`; the difference of the two sender
counters; and `finishing`, the position inside `onDone()`. `onDone()` calls the task
engine before it releases the sender's connection, and the engine may call `send()`
from there, so `Event`, (a nested) `Send`, `ReleaseActive` and `Dequeue` are separate
steps. `Event` is a reply, a failed connect, a close or the timer. A request's
content is dropped; `send()` with an unknown `$` name, which throws, is in
`TaskManager` (`SendThrows`).

### TaskManager

`phase` is the position in an iteration of `Looper::serve`: poll, timers, blocking
calls, periodic tasks, resume, expire. `dispatch` is the position in
`StateMachine::process` (task and state): the table is `Table`, the rows in the
order of `init_table`, with their guards and actions. Handlers are constants:
`Handlers[t]` is the set of actions a task's `Handler3` has and
`Returns[t][action][status]` what they may return, `Throws` included. A worker takes
a job, may make blocking upstream calls, and finishes into `m_resQueue`. Signals,
clients that close, expiries and expelled workers may come at every point where the
code lets them. The clock is dropped here: a postponed task may expire at any
iteration; `PostponedTasks` has the clock. The counters come as differences,
`baseTasks` and `jobs`: the code only compares them.

### PostponedTasks

`m_expireTaskQueue` is a `priority_queue` whose top is the *latest* deadline, and
entries of resumed tasks stay in it. The model keeps it as a set of (deadline, task)
pairs with the code's order; `m_futurePostponeUuids` is an `ExpiringListT` with its
two generations. `Tick` moves the clock; the loop's pass over the queues is split
into resume and expire as in `executePostponedTasks`.

### MPMCBoundedQueue

One action per atomic load, compare-exchange or store and one for the move of the
data, so that every interleaving of threads inside `push` and `pop` is there. The
model is sequentially consistent; the code uses relaxed loads of the positions and
acquire/release on the sequences, and orders weaker than that are not covered.
Positions do not come near 2^64. Moving a whole queue is done only before any
thread uses it and is not modelled.

### FullSupernodeList

The C++ class has two parts that meet only in which supernodes are in `m_list`, and
two modules. `FullSupernodeList` has `m_list` with the stakes and the age of the
announces. Every method takes `m_access` for its own time, so a handler is a sequence
of lock sections: an announce is `Announce` (`exists()`), then `UpdateFromAnnounce`
(`get()`, which may find nothing by now) or `CreateFromAnnounce`, `AddExists`,
`AddImpl`. `job[w]` is what worker `w` has read and not yet used. `updateStakes` is one
section. An announce counts as fresh or old and the time of the next request as unset,
ahead or over, since the code only compares them with the clock. The cryptonode is
external: its chain grows (`NewBlock`), it sends stakes of any block it has, in any
order, and it may answer a request or not. Wallet addresses and signatures are
dropped: `validateAnnounce` refuses an announce or does not.

### AuthSample

`m_blockchain_based_lists` with its window and `m_rng`. `buildAuthSample` reads the list in one
lock section and selects in another: the first finds any subset of supernodes available
(`Copied`), the second may find any of those removed. `Random(seed, k)` is the stream of `m_rng`
after a payment id seeded it, which repeats itself after `Period` values, as the Mersenne twister
does. `arrived` remembers which list came last for each block. The selection, one draw per
element, and the shares of the tiers are written out as the code computes them, and the difference
of block numbers is modulo `Word`. That no tier has a supernode twice is assumed of the cryptonode
(`ListsAssumption`): the code does not check it.

### SaleRequests and RtaPayment

One supernode and the requests about a payment, as they change the global context:
`has` are the entries whose presence decides, `status` and `auth` the two whose values
do. A slot is a request in flight: `task[k].at` is the position of its handler between
two calls on the context, or what it waits for after `Forward`. So a status is read in
one step (`UpdateSaleStatus`) and set in another (`UpdateSet`), votes are read
(`VoteRead`) and written back (`VoteStore`), and everything may happen between. The
handlers registered as pre actions run on the IO thread one at a time (`IoFree`). The
cryptonode is external: it answers, refuses or does not answer; its pool takes a
transaction once. Other supernodes sign a result per transaction (`vote`) and status
updates, and sale multicasts carry a status nobody signs (`foreign`); all are delivered in
any order, any number of times or never. A vote carries the key it is verified with, and
the code does not ask whether that key is in the sample: `Sn` are the keys that sign, any keys.
Entries expire at any time their handlers do not renew them, `MaxExpired` times. For
`/sale_details` of another supernode the callback may overtake the postponement; that
the engine finds it is `PostponedTasks`.

### GlobalContext

`list` is the bucket's list of nodes, front first. A walk is one step, since it meets
every node that stays in the list; `addOrUpdate` is two (`SetFind`, then `SetPush` or
`SetAssign`), and so is `groupSet`, because no lock is held over both. `Release` says
when a node's memory goes: shared pointers are held by the list, by threads between
their two steps and by callbacks that are still to come; the group holds weak ones.
`Cleanup` takes what is over out of the list, `OnExpired` makes a callback later, with
the bucket unlocked. Buckets share no state, so one is enough. Where the code of this
list goes wrong in memory (a node locked twice, a null pointer, a lock released after its
node: see Observations) the model has the step as it is meant to be, or no step.

### RadixTree and BlackList

A node is named by the bits from the root to the end of its key, so that its parent is the longest
node it begins with, and a tree is a function from nodes to the value of their leaf, or `Inner`
where they have none. To split a node is to add one above it, to merge it with its only child is
to take it away. `find_node`, `longest_match`, `append`, `prepend`, `insert` and `erase` are the
functions of `radix_tree.hpp`, with `radix_substr` as `RtEntry` defines it (bits past the prefix
read as 0); the descent of `find_node` is stated by where it ends. When the walk for a prefix ends
past the end of it, `insert` runs into a failed assertion and the model stops (`stage` is
"broken"). `BlackList` reads rules line by line, then serves: `processIp` is one action, from the
end of old bans over the rule, the window and the neighbour's window to the ban, as the IO thread
runs it. `rules` has every rule of the file in its order, which the tree does not keep, and
whether `addRule` took it (`kept`). `entered` and `hits` remember when an address was let in, at
all and since it last tripped.

### ThreadPool, Strand and WalletManager

`ThreadPool` has the queues, the thread of each worker id, and threads that were expelled:
`SeeOverdue` reads `m_timePoint`, `Expel` acts on it, and between the two the thread may finish
and begin another job. `Take` is the look at `m_running_flag` together with the pop: an expulsion
between the two has the effect of one just after it. `Strand` splits `post` into the claim of a
cell, its filling, and the post of a call; `invokeCall` into the count before, the pop, the
handler, and the count after. The build without assertions is modelled: a pop that fails leaves
`handler` as it was. `WalletManager` puts requests on this pool: a request's handler is itself a
job, posted by the IO thread (`Arrive`), that finds or creates the wallet (`GetWallet`,
`CreateWallet`) and posts to its strand. Who holds a `shared_ptr` to a wallet is `Alive`; calls in
the pool do not. What the wallet library does in a handler is external; a handler may throw, and
its client's callback is made all the same (requests have a callback URL here). The callback is a
periodic task for the IO thread, pushed into `m_periodicTaskQueue` (`callbacks`), from where
`TakeCallback` takes it; a push that finds it full is only logged, and the callback is `lost`.

### Graftlets and GraftServer

`Graftlets` reads files in the order of the directories (`FindGraftlet`), builds the graph,
removes a failed library at a time by the order of names (`RemoveFailed`), and searches cycles
with the colours and the "almost a stack" of `findCycles`, one vertex a step. `GraftServer` runs
this at the first start, between configuration, looper, misc, routes and bind; a signal may come
between any two steps, and the loops of `Supernode::run` and `WalletServer::run` start again after
a restart. A handler of a signal first stops the looper and then stores what is to follow, so
`Signal` may come too late for the loop that reads it. `StartRun` is one step: a signal between
`sigaction` and the setting of the handlers it calls is ignored by their null check, as if it had
not come. What a start finds in the files, and whether the configuration is accepted, are choices;
a version number in a dependency may be too large for `std::stoi`, whose exception ends the start
(`InitializeThrows`).

## Runs

| Run | Shows | Bounds |
|---|---|---|
| `UpstreamManager` | pool accounting, exclusive connections, no needless wait, exact `busy()`, and that it implements `UpstreamService`, liveness included | 3 tasks, 3 connections, a keep-alive item capped at 1, one capped at 2 and an uncapped plain one |
| `TaskManager` | places, counters, stop, promises, table, room in the pool | 2 clients, 1 periodic task, all of which may block; `ThreadCount` 1, 2 jobs, a promise queue of 1 |
| `TaskManagerShutdown` | a graceful stop ends | 2 clients, fairness |
| `PostponedTasks` | deadlines kept, early callbacks found, no early expiry, every postponement ends | 2 tasks, timeout 2, postponements until time 2, clock until 5 |
| `MPMCBoundedQueue` | linearizable FIFO, exclusive cells, and when operations fail | 2 producers, 2 consumers, 2 cells, 4 pushes |
| `FullSupernodeList` | stakes of the newest block in any order of messages, and catching up with the chain | this supernode, one other, one id that cannot be parsed; 2 workers; 3 blocks |
| `AuthSample` | history window and which lists are in it, complete, balanced and reproducible samples | 4 supernodes, 1 worker, blocks 1, 2 and 4, history 2, 3 tiers of 1, 2 payments |
| `RtaPayment` | quorum, Success earned or claimed, the first of others' final updates stays | 1 payment of 100 or 101 coins, 3 keys, 2 requests in flight, 1 expiry, five mixes of requests |
| `GlobalContext` | a key with one writer as a register with expiry, complete removal, callbacks of expired entries | 2 threads, 2 keys, 3 nodes, clock until 3, stalls of 1 |
| `BlackList` | which rules are skipped and that the first of the others decides, exact bans, bounded rate | addresses of 4 bits, files of up to 3 out of 4 rules, 2 clients, window of 2, bans of 3 or for ever, 2 at a time, clock until 5 |
| `WalletManager` | a strand runs one handler at a time, calls outlived by their wallet, exactly what is left behind | 3 requests and an account request for 1 wallet, 2 workers with queues of 2, a strand queue of 2, a callback queue of 1, 1 expelled thread |
| `GraftServer` | the graftlets that stay, the routes of one start | 3 names, 3 files out of 21 libraries, 2 signals, both servers |

All runs are expected to pass.

Why the bounds are enough to meet the cases:
* *UpstreamManager*: two tasks fill the capped items and a third waits, so a release meets an
  empty and a non-empty queue and a nested send meets a full and a free pool.
* *TaskManager*: two clients suffice for one to be refused by a full pool or to answer while the
  other is anywhere; the client with a blocking call and the periodic task that asks for `Again`
  use all rows of the table; the result queue has the pool's input size, as in the code. With one
  thread, a worker that is blocked may be expelled and the next one block, too: more blocked
  workers than the promise queue has cells.
* *PostponedTasks*: two tasks and re-postponement before the clock bound give stale entries on top
  of and below live ones; the clock runs long enough after the last postponement for all deadlines
  to pass.
* *MPMCBoundedQueue*: four pushes into two cells lap the ring twice, so a thread stalled in a cell
  is overtaken by a full lap.
* *FullSupernodeList*: the other supernode has a stake, none, and one again, so that
  `updateStakes` creates, clears and sets it while a second worker announces or removes it.
* *AuthSample*: a list with one tier and one with an empty tier, two that have more than they need
  and one tier more than `TIERS`; each of their subsets may be available. Block 1 is below the
  history size, so its lists come while the chain is short, and out of the window of 4.
* *RtaPayment*: two handlers suffice for a read and a write with another's between; with three
  voters there are votes before, at and after the quorum of two, with and without a rejection, and
  for 101 coins, where the quorum is four, all of them are not enough. All kinds of requests at
  once are too many states, so they come in five groups (`Mixes`): authorization and votes with
  the status's readers and writers, that is multicast, update, status and reject; with a sale;
  with expiry; the sale with everything that changes its status, a foreign status and expiry among
  it; and the details of a sale with multicast and expiry. Not in one run together are, say, a
  vote and a foreign status; the proofs have no mixes.
* *GlobalContext*: one key with one writer and one with two; three nodes allow a doubled key
  beside the other.
* *BlackList*: four bits are the least in which two rules part below a prefix on the way of its
  zeros; a client that may have a rule of its own and its neighbour make bans split nodes and
  their ends merge them; a wider rule may come before or after a narrower one that covers its
  network address, or not; the clock passes a window twice and a ban once. Both bans are at least
  as long as the window; shorter ones are in the proof only. A file has each rule once.
* *WalletManager*: three requests overfill a strand's queue of two, four jobs fill the pool's, and
  the wallet may expire, be replaced and be created anew while they wait; two callbacks overfill a
  queue of one. Requests to one wallet, and wallets, are interchangeable: symmetry over both.
* *GraftServer*: dependencies met, missing and too old, in chains and cycles of one, two and
  three; a name twice, an exception, a bad text, a version too large.

Bounds named in guards: `MaxFuture` (early callbacks kept per task), `LastPostpone` and `MaxTime`
(clocks), `MaxPushes`, `MaxExpired`, `MaxStall` (seconds a thread is held up between two steps,
shorter than the shortest time to live), `MaxRules`, `MaxBans`, `MaxExpelled`, `MaxFiles`,
`MaxSignals`.

### Fairness

*UpstreamManager*: the IO thread finishes the `onDone()` it is in (weak fairness);
each sender gets an event (strong fairness: it can only be delivered between two
calls of `onDone`), because `UpstreamSender::send` arms a timer.
*TaskManager*: the IO thread keeps iterating; `mg_mgr_poll` delivers a notification
or an upstream answer if it keeps finding one there; free workers take jobs;
worker actions return after finitely many blocking calls; and once a stop was asked for,
postponed tasks expire at some time (before, newer deadlines may hold them up: see
`PostponedTasks`). Nothing is assumed of clients, signals or callbacks.
*PostponedTasks*: the clock and the loop run.
*FullSupernodeList*: the periodic task runs and time passes (weak fairness); of
infinitely many requests for stakes one is answered (strong fairness), which is what
repeating them is for. Nothing is assumed of stakes the cryptonode sends unasked.
The other runs check safety only. `NothingLeftBehind` states what liveness would give of
a strand as an invariant of the states in which no thread has anything to take.

### Deadlock

Checked in `UpstreamManager`, both `TaskManager` runs, `MPMCBoundedQueue`,
`FullSupernodeList` and `AuthSample`. The other instances really stop: clocks and counts
end (`PostponedTasks`, `GlobalContext`, `BlackList`), every request is done or lost
(`RtaPayment`, `WalletManager`), the process ends (`GraftServer`). In `TaskManager` the
ended process is a stuttering action, `Ended`, and `Crashed` in `FullSupernodeList`.

## Observations

What the models show of the code where its documents or comments say something else, or
where the reader may expect something else. The models have it as the code does; the
properties are stated so that they say what still holds.

Task engine and connections:
* `max-active-connections` of an upstream has no effect without keep-alive, which is the
  default: only `getConnection()` counts connections (task.cpp:373-381).
* SIGTERM is documented as "Shutdown server even if there are pending tasks", but the
  loop waits for `canStop()` and skips the steps that would finish postponed tasks and
  blocking calls (connection.cpp:339-345), so it may never end.
* An exception of a worker action is rethrown up to the thread and ends the process
  (task.cpp:662).
* A `pre_action` that returns `Again` or `Busy`, or a last action that returns `None`
  or `Busy`, makes the state machine throw "table is not complete"
  (`TableComplete` says exactly that handlers which avoid these never meet it); the
  status of a `post_action` is not looked at after `Forward`; requests on connections
  accepted before a stop are still served; a second `stop(true)` would hit an assertion.
* A worker that waits for a blocking upstream call is not counted when it is expelled, and
  another takes its place, so there may be more blocked workers than `m_promiseQueue` has cells.
  The result of the push is not looked at (task.cpp:476): the request is lost and its worker waits
  for ever (`NoLostPromise` says when).
* While newer postponements keep coming, an overdue task may wait without end, since the
  queue's top is the latest deadline (`PostponementEnds` is about what follows the last one).
* `NoPoolOverflow` takes it that a queue with room accepts a job. A push can also fail
  because a slow consumer has claimed the cell a lap before and not released it
  (`FailsForAReason`); with the other queues full `ThreadPoolImpl::post` could then
  throw below the limit.

Pool, strand and wallets:
* A strand ignores the result of its push, and a pop that fails because the cell is
  claimed and not yet filled calls the previous handler again, or an empty one, and the
  handler that comes later waits for another call (`refused`, `missed`).
* Calls of strands and jobs of accounts are not counted by `checkThreadPoolOverflow`. A
  handler posts them with one attempt at its own thread's queue; when that is full,
  `post` throws and the process ends (`PoolFull`, thread_pool.hpp:235).
* `FixedFunctionWrapper` deletes its holder through `IHolder`, which has no virtual
  destructor: undefined, and where the destructor of the holder is not run a wallet is leaked. The
  model lets a wallet go with the last of its holders (`Alive`).
* The callback of a wallet request is refused when `m_periodicTaskQueue` is full, and only
  logged (wallet_manager.cpp:121-125, task.cpp:436-438): the client is never told (`lost`).

Global context:
* Two threads that set one new key leave two entries; a value assigned to an entry that
  was removed or expired meanwhile is lost, even of the last `set` (`SetAssign`). Hence
  `OwnedRegister` is about keys with one writer, and stalls shorter than the time to live.
* `groupSet` changes the time to live of an entry, not when it expires; `forEach` of a
  group may drop a key that was added again meanwhile.
* `forEachNode` goes on to `(*current)->next` after it has unlocked the node before
  (graft_utility.hpp:105-120): a node pushed in front meanwhile may make it lock a node it
  holds. `GroupAdd` is one step here and has no such stall.
* `groupSet` of a key whose data was moved out meanwhile dereferences a null pointer
  (context.h:309); `GroupSet` is not enabled then.
* `safe_cleanup` unlocks the mutex of a node it has just destroyed (graft_utility.hpp:203-205),
  which is undefined; `Cleanup` has what is meant.

Payments:
* Votes handled at the same time overwrite each other (`VoteRead`, `VoteStore`): a vote
  may be lost, and with it the payment.
* After a rejection the handler stores its state in `ctx.global` instead of `ctx.local`
  (authorize_rta_tx.cpp:482), so the answer to its broadcast is taken for
  that of a push and ends in an exception (`RejectBroadcast`).
* A sale multicast stores the status it carries, which is not signed (sale.cpp:253-258, with a
  TODO): it may be `Success` with no transaction in the pool, and it may replace a final status.
  `SuccessEarned` therefore names it as a source.
* The signature of a vote is verified with the key in the vote, and nothing asks whether that
  key is in the auth sample (authorize_rta_tx.cpp:181-184): `PushHasQuorum` counts keys.
* A status update that read the status before another made it final overwrites it
  (sale_status.cpp:87-89); rejections overwrite any status. `FirstUpdateStays` says what is
  left: updates do not replace each other once one is final, since they are handled on the IO
  thread one after the other.

Black list:
* A ban does not overwrite an address's own rule, so an address that has an `allow` rule
  of its own cannot be banned, and the end of that ban erases the rule (`BanExact` is about
  the others).
* `addRule` skips a rule if an earlier one covers its network address, also a wider rule
  that would cover more (blacklist.cpp:198), although config.ini has the rules stack and the
  warning calls the rule superseded. `SkippedForEarlier` states exactly which are skipped.
* To trip erases the window of an address. With a ban shorter than the window, or a rule of its
  own, an address is soon let in again and counted from zero: it may be let in twice the limit or
  more in the time of a window. For these `RateBound` is a bound since the last trip only.
* `radix_substr` of an `RtEntry` does not look at the length of its prefix, so when two
  earlier rules part below a wider one on the way of its zeros, say `deny 10.0.1.0/24`,
  `deny 10.0.2.0/24` and then `allow 10.0.0.0/16`, the walk of `insert` goes past the end of
  the wider prefix, and `assert(count != 0)` fails (radix_tree.hpp:413). The default build
  type, RelWithDebInfo (CMakeLists.txt:3-5), has no assertions: the node is then split at a
  place before it begins. What such a tree answers is not followed; the properties are stated
  for files that do not lead there. Bans have the full length and are not affected.

Servers:
* A restart (SIGHUP) never succeeds: `m_stop` is not reset and the connection managers
  keep their routes, so the second start ends with the exception of `checkRoutes`
  (`ServesOneStart`). The handler stops the looper before it stores that a restart is wanted
  (supernode/server.cpp:197-213), so the process may end instead.
* The conflict test accumulates with `&=` and may miss a conflict of a third route for one
  endpoint (router.cpp:76-96), so a server may serve with two routes for one request. `Conflict`
  has it; that the callback routes of two starts are found needs that no other route has
  their path (`RoutesAssumption`).
* A version number too large for an int makes `std::stoi` throw out of `initialize`
  (GraftletLoader.cpp:193-198), which ends the start; line 281 uses the key of the node it has
  erased, with no effect on what is loaded.

Supernode list:
* An announce handled while the debug request empties the list uses a null pointer
  (send_supernode_announce.cpp:91-96), and the process ends.
* While the chain is shorter than `SUPERNODE_HISTORY_SIZE` the oldest block to keep wraps
  round (fullsupernodelist.cpp:607) and every list is flushed on arrival, the new one included:
  `ListsExact` says so, and what is kept from then on.
* An auth sample uses the list of the block it is asked for and reports a block number 10
  lower (fullsupernodelist.cpp:285-287).
* The age of an announce is an unsigned difference that may wrap round if the time was
  stored after the clock was read (fullsupernodelist.cpp:307). Freshness is abstracted to
  a set, so nothing is stated of it.

## What is proved

TLAPS proves, for all values of the constants that satisfy the modules' `ASSUME`s:

* **UpstreamManagerProofs**: `TypeCorrect`, `PoolsAccounted`,
  `ConnectionsExclusive`, `NoNeedlessWait`, `BusyExact`, and `RefinesService` (the
  safety part of the refinement). The invariants lean on each other. That the count
  is the number of connections needs each active connection to have one holder, a
  sender or the `onDone()` in progress (`PoolInv`, `SenderInv`). A queued task
  implies that its item is saturated, except between `ReleaseActive` and `Dequeue`
  (`QueueInv`), and that is what makes `busy()` exact. `Counted` says that `inFlight`
  is the number of senders. Cardinalities are handled by the lemmas at the top of the
  module.
* **TaskManagerProofs**: `TypeCorrect`, `TaskInOnePlace`, `JobsCounted`, `ClientsCounted`,
  `PoolHasRoom`, `NothingLeftAtExit`, `PromisesKept`. The inductive invariant is the conjunction
  of `TypeOK`, `OnePlace`, `JobAccounting`, `ClientAccounting`, and three strengthenings:
  `NotBusyWhileWaiting` (a task that waits somewhere does not have the status `Busy`, so that
  dispatching it later holds it), `RoomForJob` (in the states between EXECUTE and the posting of
  the job there is room for one more job, since only this dispatch can post), and `NotYetAlive` (a
  periodic task asked for twice is not created twice). `StopSound` follows from the counters at
  the two places where the loop may exit. `TableHasRow` says that no dispatch of a task whose
  handlers keep the contract of the table reaches a state without a row for its status; its
  invariant `PathsOK` records with which status a task waits in each place and gets to each state
  of the table (`RowOK`). `PromisesKept` speaks of the workers that are blocked, expelled ones
  among them: `PromiseInv` says that each request in the queue or on its way is that of a blocked
  worker, and in one of the two only, and that at most `ThreadCount` workers at work are not
  expelled. So a full queue that refuses a request holds those of others, and since it is not
  shorter than `ThreadCount` one of all of them was expelled (`OnlyFullQueueLoses`).
  The same module has the theorems about `PostponedTasks`: `DeadlinesKept`, `EarlyCallbacksFound`,
  `NotBeforeDeadline`. A stale entry of a resumed and again postponed task is harmless because its
  deadline is not later than the task's own: the invariant relates every entry of the queue to the
  deadline its task has now.
* **FullSupernodeListProofs**: `TypeCorrect`, `StakesAreNewest`. `TypeOK` and `NewestStakes` are
  inductive together. A supernode that an announce creates has no stake; that this agrees with the
  newest stakes when it is inserted follows from the third conjunct of `NewestStakes` (a supernode
  with a stake that is not in the list was removed), and that it does not replace one with a stake
  from `insert` leaving entries alone.
  The same module has the theorems about `AuthSample`: `WindowKept`, `ListsAreExact`,
  `SampleIsReproducible`. `MinusExact` and `MinusWraps` say what the unsigned difference is once
  the chain is as long as the history, and before; `FlushKeepsWindow` says what `Flush` leaves;
  the invariant adds the lists' type and what has arrived (`ArrivedOK`). A sample is reproducible
  because the last one is always what its payment id and its tiers make of it (`SampleOfPayment`),
  whatever selection does. `SamplesAreComplete` says what selection does, whatever the values are.
  A loop of the code is a recursive function of its counter here, and what holds after `n` rounds
  is shown with the least counterexample among the counters, as a set (`Upto`, `LoopExists`). In
  `selectSupernodes` never more are needed than are left, since the value is below the number
  left: so exactly `count` are taken, or all (`Going`, `SelectedPicked`). A transfer between tiers
  keeps the sum of the shares, and one that gives more than its part does so only if the higher
  ones give all they have (`TransferFair`, `HelpedFair`, `SettleFair`). `SampleInv` adds that what
  the first lock section copied has nothing twice.
* **MPMCBoundedQueueProofs**: `TypeCorrect`, `CellsExclusive`, `FailuresHaveReasons`, and
  `RefinesFifo`, that the queue implements `FifoQueue`, for any size, although the code has
  powers of two. The inductive invariant says what the cell of each of the `Size` positions
  from `dequeuePos` on holds (`Window`): published, or its producer is still inside; free, or
  the consumer of the lap before is still inside. `OneLap` bounds the distance of the two
  positions, `Past` keeps a cell from falling behind a claimed position, which makes a stale
  read of a sequence harmless, and `ThreadsOK` says that what a thread found in a cell still
  holds if its compare-and-swap succeeds. The lemmas on `Cell` are the arithmetic of
  remainders: two positions less than a lap apart have different cells.
* **RtaPaymentProofs**: `QuorumPushed`, `SuccessIsEarned`, `FirstUpdateKept`. The handlers read
  the context, compute and write it back, so the invariant speaks of what each request in flight
  knows (`TasksOK`): the results a vote carries are a set of distinct supernodes each with what it
  signed, also when another vote has overwritten them since (`AuthCounted`), and a request about
  to store `Success` has a reason that no later step takes away: the pool has the transaction, or
  another supernode claims it (`Earned`). For the updates, at most one request is between the
  check and the store (`OneUpdate`), and while one is, no other update has stored a final status
  that still stands (`FirstOfUpdates`).
* **GlobalContextProofs**: `OwnedKeyIsRegister`, `RemovedStaysRemoved`, `ExpiryIsAnnounced`.
  The invariant is a conjunction over keys (`KeyOK`), and every step is about one key or time
  (`Keeps`). For a key with one writer there is at most one node (`EntryOK`); `WriterOK` is
  the core: between the look-up and the assignment the node found is still in the list,
  since the look-up has renewed it and a writer stalls for less than a time to live.
* **WalletManagerProofs**: `StrandsExclusive`, `CallsReachLiveHolders`, `NothingIsLeftBehind`,
  over pool, strand and wallet manager together. The argument counts (`PopsOK`): the calls of a
  strand that are queued, that a thread has taken, that were deferred and those of requests just
  pushed, less the one being served, and the pops that were missed are together as many as the
  handlers in its queue and those it refused. While none was refused a call therefore finds a
  handler in the queue, and the handler holds the holder; a thread that found none has left one
  behind (`EmptyHanded`). `CountsOK` ties the count of deferred calls to the thread in the loop,
  `PoolOK` says that every worker id has a running thread, so that nothing stays queued at rest,
  and `PostedOK` follows every request from the push to its callback, which is handed over or
  lost.
* **GraftServerProofs**: `LoadsTheLargestSet`, `ServesTheRoutesOfOneStart`. What is loaded are
  candidates (`LoadedOK`), and no removal takes one of the largest supported set (`GraphOK`); when
  nothing fails any more the rest is itself supported, hence that set. `SearchOK` is the invariant
  of the search for cycles: the gray vertices are the path and the present vertex, each a child of
  the one before; the black ones have black children only and contain no circle, since the vertex
  that turns black has no gray child. A gray child therefore closes a circle, and when all are
  black there is none. That the routes are a sequence of routes needs an induction over finite
  sets of names (`RoutesExist`, `RoutesTyped`), which is done with the least counterexample. The
  routes of a server are those of one start, or they hold the routes of one start twice
  (`RoutersRoutesOK`); in the second case there are exactly two callback routes, in conflict,
  which `checkRoutes` finds (`TwoStartsConflict`).
  The same module has the theorems about `BlackList`: `RateIsBounded`, `FirstRuleDecides`,
  `BansAreExact`. For the rate the invariant says for every request that is still in the time of a
  window how many were let in from it on (`Bounded`): at most the count of the window if that
  began with it; at most the count less one and what `k` seconds forgive if the window has moved
  on by `k` seconds since; at most the count and the limit if the window began anew since. A
  window moves on by at most `WindowSec` seconds while the request is recent, hence less than
  twice the limit. A window that is old enough for `removeItAndNeighbor` leaves fewer than the
  limit behind (`OldCountsFew`). This counts since the last trip. An address that a ban keeps out
  is not let in again before everything from before the trip is older than a window
  (`LetInAgain`), which `EnteredInv` carries over the trips.
  The other two rest on three lemmas about the tree: `longest_match` answers with the longest
  entry that the address begins with (`LongestMatch`), and `insert` and `erase` change exactly one
  entry (`InsertEntry`, `EraseEntry`). The invariant they share, `MatchInv`, says that no earlier
  rule that was kept covers the prefix of a later one (`RulesOK`), which is why the longest entry
  is that of the first rule that matches (`RulesDecide`); that the table has for every prefix that
  was never banned what the rules say (`TableOK`); that the bans are queued by their ends, each
  the time the address tripped and the time of a ban (`QueueOK`); and that an address that
  tripped, without a rule of its own, has its entry exactly while it is in the queue (`BansOK`).
  Which entries the loop of `unban` takes out is again an induction over its counter
  (`EraseFirstEntries`).

The constants' assumptions are typing, finiteness of the sets of tasks and requests, and what
the code fixes: queue sizes not below the pool's input size, a positive thread count, at
least two workers, a stall shorter than the times to live, random values that are natural
numbers and return after a period. Of other programs it is assumed that the cryptonode sends
no tier with a supernode twice.

Only model-checked is liveness: `ImplementsService` in full, `GracefulStop`,
`PostponementEnds` and `StakesCatchUp`. Fairness is out of the prover's reach. Where a proof
needs an induction, over a loop counter or over a finite set, it is made with the least
counterexample, since the induction theorems of the library cannot be instantiated.

## What is not modelled

* CoAP requests: they feed the same `onNewClient`.
* The match of a uri against the routes, which the bundled r3 library does; headers,
  bodies, JSON, logging, stack traces and statistics: formats without control.
* The daemon's RPC client, the wallet library and the cache files: I/O of other programs.
* Keys and signatures: a message is valid or not.
* `refreshAsync` and `loadFromDir` of the supernode list, which no code calls or which do
  nothing.
* The destructor of the thread pool, which runs when nothing else does, and the periodic
  `flushDiskCaches` of the wallet manager, which touches files only (and looks for them in
  the working directory, wallet_manager.cpp:678, not where they are stored).
* The envelopes of broadcast, multicast and unicast, which the cryptonode unpacks.
* Third-party code in the tree.

## Plan

The modules came in this order: upstream connections and the task engine, since every
request goes through them; postponement, with time; the queue between the threads; the
supernode list; the payment flow; the global context beneath it; black list; pool,
strand and wallets; graftlets and the start of the server. All components with control of
their own have a module now, and every safety invariant, every action property and the safety
part of both refinements is proved. What is left is outside these methods: liveness for all
constants, memory orders weaker than sequential consistency in the queue, and the tree after a
failed assertion.
