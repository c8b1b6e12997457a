---------------------------- MODULE WalletManager ----------------------------
(***************************************************************************)
(* class WalletManager (src/walletnode/wallet_manager.cpp) and the request *)
(* handlers of the wallet node.  A wallet in memory is a WalletHolder with *)
(* a strand of its own, found through the global context; balance,         *)
(* transfer and history requests are posted to the strand, account         *)
(* requests to the thread pool.  The client has its answer when its        *)
(* request is posted; what came of it goes to its callback URL.  The       *)
(* handlers run in the same pool, one thread for each (ThreadPool).        *)
(*                                                                         *)
(* A holder lives as long as a shared_ptr to it: the entry of the global   *)
(* context, a request being posted, a handler in the holder's own queue    *)
(* and a handler being run have one.  Calls in the pool have a plain       *)
(* pointer to the strand.  A handler is deleted through IHolder, which has *)
(* no virtual destructor: its shared_ptr may be released, as it is here,   *)
(* or leaked, and then the holder is one that no wallet takes again.       *)
(***************************************************************************)
EXTENDS Strand, FiniteSets

CONSTANTS
    Wallets,
    WalletRequests,   \* balance, transfer and history requests: the handlers of the strands
    AccountRequests,  \* create and restore account requests
    walletOf,         \* the wallet each request is about
    CallbackQueueSize \* of m_periodicTaskQueue

ASSUME WalletAssumption ==
    /\ WalletRequests = Handlers
    /\ WalletRequests \cap AccountRequests = {}
    /\ walletOf \in [WalletRequests \cup AccountRequests -> Wallets]
    /\ IsFiniteSet(WalletRequests) /\ IsFiniteSet(AccountRequests)
    /\ CallbackQueueSize \in Nat \ {0}
    /\ NoJob \notin [kind : {"call", "request", "account"},
                     of : Strands \cup WalletRequests \cup AccountRequests]

VARIABLES
    global,    \* "wallet_" + address in the global context: a holder or NoStrand
    req,       \* [at, wallet] of each request; wallet: the WalletPtr it has
    callbacks, \* m_periodicTaskQueue: the requests whose callback is to be sent
    told,      \* requests whose callback the IO thread has taken
    lost       \* history: requests whose callback found that queue full

callbackVars == <<callbacks, told, lost>>
walletVars == <<global, req, callbackVars>>
vars == <<poolVars, strandVars, walletVars>>

Requests == WalletRequests \cup AccountRequests

Init ==
    /\ PoolInit
    /\ StrandInit
    /\ global = [w \in Wallets |-> NoStrand]
    /\ req = [r \in Requests |-> [at |-> "new", wallet |-> NoStrand]]
    /\ callbacks = {} /\ told = {} /\ lost = {}

\* Someone has a shared_ptr to the holder.
Alive(s) ==
    \/ \E w \in Wallets : global[w] = s
    \/ \E r \in Requests : req[r].wallet = s
    \/ queue[s] # <<>>
    \/ \E k \in Threads : worker[k].strand = s /\ worker[k].handler # NoHandler

\* Holders that memory can be found for, calls to dead ones aside.
Unused(s) == ~Alive(s) /\ ~Called(s) /\ Inside(s) = {} /\ refused[s] = {}

Goto(r, at, s) == req' = [req EXCEPT ![r] = [at |-> at, wallet |-> s]]

\* The job that runs the handler of a request, and the one createAccount and restoreAccount post.
Request(r) == [kind |-> "request", of |-> r]
Account(r) == [kind |-> "account", of |-> r]

\* A client's request: its handler is posted by the IO thread.
Arrive(r) ==
    /\ req[r].at = "new"
    /\ PostFromOutside(Request(r))
    /\ Goto(r, "queued", NoStrand)
    /\ UNCHANGED <<strandVars, global, callbackVars>>

----------------------------------------------------------------------------
(* runAsyncForWallet, on the thread that has the request.                  *)

GetWallet(r) ==
    /\ req[r].at = "queued" /\ r \in WalletRequests
    /\ Goto(r, IF global[walletOf[r]] = NoStrand THEN "create" ELSE "push", global[walletOf[r]])
    /\ UNCHANGED <<poolVars, strandVars, global, callbackVars>>

\* createWallet and registerWallet: another request may have registered a holder meanwhile.
CreateWallet(r, s) ==
    /\ req[r].at = "create"
    /\ Unused(s)
    /\ Goto(r, "push", s)
    /\ global' = [global EXCEPT ![walletOf[r]] = s]
    /\ UNCHANGED <<poolVars, strandVars, callbackVars>>

PushRequest(r) ==
    /\ req[r].at = "push"
    /\ Push(req[r].wallet, r)
    /\ Goto(r, "fill", req[r].wallet)
    /\ UNCHANGED <<global, callbackVars>>

FillRequest(r) ==
    /\ req[r].at = "fill"
    /\ Fill(req[r].wallet, r)
    /\ Goto(r, "call", req[r].wallet)
    /\ UNCHANGED <<global, callbackVars>>

\* The call is posted, the client is answered, and the request gives its WalletPtr up.
PostRequest(k, r) ==
    /\ req[r].at = "call"
    /\ PostCall(k, req[r].wallet)
    /\ Goto(r, "posted", NoStrand)
    /\ UNCHANGED <<global, callbackVars>>

\* The pool's queue is full.
PoolFull(k, r) ==
    /\ req[r].at = "call" \/ r \in AccountRequests
    /\ PostThrows(k)
    /\ UNCHANGED <<strandVars, walletVars>>

----------------------------------------------------------------------------
(* The handlers: the wallet's cache is loaded, refreshed and stored around *)
(* the request; a result or, after an exception, an error goes to the URL. *)

\* The callback is a periodic task for the IO thread.  One that finds the queue full is logged
\* and lost.  (Every request has a callback URL here; without one nobody is told.)
Tell(r) ==
    /\ IF Cardinality(callbacks) < CallbackQueueSize
       THEN callbacks' = callbacks \cup {r} /\ UNCHANGED lost
       ELSE lost' = lost \cup {r} /\ UNCHANGED callbacks
    /\ UNCHANGED told

\* The IO thread takes it (checkPeriodicTaskIO), and sends it to the URL.
TakeCallback(r) ==
    /\ ~terminated
    /\ r \in callbacks
    /\ callbacks' = callbacks \ {r}
    /\ told' = told \cup {r}
    /\ UNCHANGED <<poolVars, strandVars, global, req, lost>>

\* requestBalance, prepareTransfer or requestTransactionHistory, and the end of the handler.
Handle(k) ==
    /\ worker[k].handler # NoHandler
    /\ Tell(worker[k].handler)

RunHandler(k) ==
    /\ Ran(k)
    /\ \/ Handle(k)
       \/ worker[k].handler = NoHandler /\ UNCHANGED callbackVars
    /\ UNCHANGED <<global, req>>

\* runAsync of createAccount and restoreAccount.
PostAccount(k, r) ==
    /\ r \in AccountRequests
    /\ PostAndFinish(k, Account(r))
    /\ Goto(r, "posted", NoStrand)
    /\ UNCHANGED <<strandVars, global, callbackVars>>

\* The new wallet takes the place of what is registered under its address.
RunAccount(k, r, s) ==
    /\ Unused(s)
    /\ global' = [global EXCEPT ![walletOf[r]] = s]
    /\ Tell(r)
    /\ Finish(k)
    /\ UNCHANGED <<strandVars, req>>

\* A seed that is not one, or an exception.
FailAccount(k, r) ==
    /\ Tell(r)
    /\ Finish(k)
    /\ UNCHANGED <<strandVars, global, req>>

\* The entry was not used for WALLET_MEMORY_CACHE_TTL_SECONDS.
Expire(w) ==
    /\ ~terminated
    /\ global[w] # NoStrand
    /\ global' = [global EXCEPT ![w] = NoStrand]
    /\ UNCHANGED <<poolVars, strandVars, req, callbackVars>>

StrandStep(k) ==
    /\ \/ \E s \in Strands : Invoke(k, s)
       \/ Pop(k)
       \/ Leave(k)
    /\ UNCHANGED walletVars

\* The handler of a request; a job of createAccount or restoreAccount.
Post(k, r) ==
    /\ Busy(k, Request(r))
    /\ \/ GetWallet(r)
       \/ \E s \in Strands : CreateWallet(r, s)
       \/ PushRequest(r)
       \/ FillRequest(r)
       \/ PostRequest(k, r)
       \/ PostAccount(k, r)
       \/ PoolFull(k, r)

AccountStep(k, r) ==
    /\ Busy(k, Account(r))
    /\ FailAccount(k, r) \/ \E s \in Strands : RunAccount(k, r, s)

Next ==
    \/ \E r \in Requests : Arrive(r) \/ TakeCallback(r) \/ \E k \in Threads : Post(k, r) \/ AccountStep(k, r)
    \/ \E k \in Threads : StrandStep(k) \/ RunHandler(k)
    \/ PoolStep /\ UNCHANGED <<strandVars, walletVars>>
    \/ \E w \in Wallets : Expire(w)

Spec == Init /\ [][Next]_vars

----------------------------------------------------------------------------

\* A holder is not destroyed while the pool has a call to its strand or a thread is in its
\* loop, although neither has a shared_ptr to it, unless a push was refused: an entry that
\* expires or is replaced leaves every call that is to come with a handler in the queue, and
\* that handler holds the holder (runAsyncForWallet; invokeCall).
NoDanglingCall ==
    \A s \in Strands : refused[s] = {} /\ (Called(s) \/ Inside(s) # {}) => Alive(s)

\* The handler of the request ran to its end: its callback was handed to the IO thread, or it
\* was lost because m_periodicTaskQueue was full.
CarriedOut(r) == r \in callbacks \cup told \cup lost

\* When the pool is at rest, every request that was posted was carried out, or its strand's
\* full queue refused its handler, or its handler stays behind in that queue; and a strand
\* leaves one behind for each pop that found none, less one for each that it refused, whose
\* call pops another's.  So the end of the loop never misses a call that comes just then, no
\* job goes with an expelled thread, and none stays in a queue of the pool that nobody takes
\* from (invokeCall's two counts; expelWorkers).
NothingLeftBehind ==
    (\A k \in Threads : thread[k].at # "busy" /\ ~CanTake(k)) =>
        /\ \A s \in Strands : Len(queue[s]) + Cardinality(refused[s]) = missed[s]
        /\ \A r \in Requests : req[r].at = "posted" =>
              \/ CarriedOut(r)
              \/ \E s \in Strands :
                    r \in refused[s] \/ \E n \in DOMAIN queue[s] : queue[s][n].handler = r

=============================================================================
