----------------------------- MODULE SaleRequests -----------------------------
(***************************************************************************)
(* What one supernode remembers of a payment in its global context and the *)
(* requests that change it: supernode/requests/sale.cpp, sale_status.cpp,  *)
(* sale_details.cpp, reject_sale.cpp, reject_pay.cpp and pay_status.cpp.   *)
(* RtaPayment adds the requests of the authorization.                      *)
(*                                                                         *)
(* A slot is a request in flight.  Its handler runs on a thread of its     *)
(* own and is interrupted by the others between two calls on the context;  *)
(* hasKey() and get() of one key in a row are one step, as hasKey() renews *)
(* the entry for its whole time to live.  After Forward the slot waits for *)
(* the cryptonode, whose answer is good, bad or does not come: a bad       *)
(* answer and the failure of the upstream both end the request.            *)
(*                                                                         *)
(* The handlers of sale_status.cpp and pay_status.cpp are pre actions: the *)
(* IO thread runs them one at a time.  The handler of /pay answers "Not    *)
(* implemented" before it touches the context (pay.cpp:103).               *)
(***************************************************************************)
EXTENDS Naturals, Sequences, FiniteSets

CONSTANTS
    Payments,   \* payment ids, each with the transaction that pays it
    Sn,         \* the keys that sign results; nothing checks that they are of the auth sample
    Slots,      \* requests in flight
    Uuids,      \* task ids of /sale_details requests that ask another supernode
    Mixes,      \* the kinds of requests that arrive together in one behaviour
    Foreign,    \* what other supernodes may send: statuses in updates and in sales
    MaxExpired  \* bound on the entries that expire

VARIABLES
    has,        \* entries of the context whose presence decides
    status,     \* CONTEXT_KEY_STATUS; "None" when there is no entry
    updated,    \* payments whose status was last stored by an update (for FirstUpdateStays)
    auth,       \* CONTEXT_KEY_AUTH_RESULT_BY_TXID, empty when there is no entry
    result,     \* task ids with a CONTEXT_SALE_DETAILS_RESULT
    woken,      \* tasks a callback named as the next task
    asked,      \* task ids another supernode was asked with
    signed,     \* status updates this supernode signed and broadcast
    foreign,    \* statuses other supernodes send: in updates they sign, in sales nobody signs
    told,       \* payments of which a client was told Success
    task,       \* what each slot is doing
    expired,    \* entries that expired so far
    mix         \* the kinds of requests of this behaviour

saleVars == <<has, status, updated, auth, result, woken, asked, signed, foreign, told, task,
              expired, mix>>

RTAStatus == {"None", "Waiting", "InProgress", "Success", "Fail",
              "RejectedByWallet", "RejectedByPOS"}
ASSUME SetsAssumption == Payments # {} /\ Sn # {} /\ Uuids # {} /\ MaxExpired \in Nat

isFiniteRtaStatus(st) == st \notin {"None", "InProgress", "Waiting"}

Keys == {"sale", "details", "cached", "tx", "amount", "pid"}

Has(p, key) == <<p, key>> \in has
Set(p, key) == has' = has \cup {<<p, key>>}
SetStatus(p, st) ==
    /\ status' = [status EXCEPT ![p] = st]
    /\ updated' = updated \ {p}

NoAuth == [approved |-> <<>>, rejected |-> <<>>]

Idle == [at |-> "idle", p |-> CHOOSE p \in Payments : TRUE, new |-> "None",
         sn |-> CHOOSE s \in Sn : TRUE, res |-> "Approved", auth |-> NoAuth,
         uuid |-> CHOOSE u \in Uuids : TRUE]

At(k, l) == task[k].at = l
Goto(k, l) == task' = [task EXCEPT ![k].at = l]
Done(k) == task' = [task EXCEPT ![k] = Idle]
Begin(k, kind, l, p) ==
    /\ kind \in mix
    /\ At(k, "idle")
    /\ task' = [task EXCEPT ![k].at = l, ![k].p = p]

\* The slots that wait for the cryptonode after Forward.
Waiting == {"SaleMulticast", "SaleBroadcast", "DetailsUnicast", "ServeCallback",
            "AuthMulticast", "VotePush", "VoteBroadcast", "RejectBroadcast"}

SaleInit ==
    /\ has = {}
    /\ status = [p \in Payments |-> "None"]
    /\ auth = [p \in Payments |-> NoAuth]
    /\ updated = {} /\ result = {} /\ woken = {} /\ asked = {}
    /\ signed = {} /\ told = {}
    /\ task = [k \in Slots |-> Idle]
    /\ expired = 0
    /\ mix \in Mixes
    /\ foreign \in IF "foreign" \in mix THEN Foreign ELSE {[updates |-> {}, sales |-> {}]}

ContextSame == UNCHANGED <<has, status, updated, auth, result>>
NetSame == UNCHANGED <<woken, asked, signed, foreign, told, expired, mix>>

----------------------------------------------------------------------------
(* The cryptonode answers badly or the upstream fails.                     *)

UpstreamFails(k) ==
    /\ task[k].at \in Waiting
    /\ Done(k)
    /\ ContextSame /\ NetSame

\* An entry whose time is over is removed by the periodic cleanup.  Entries stored without a
\* time to live never go; letting any entry go at any time covers them.
Expire ==
    /\ "expiry" \in mix
    /\ expired < MaxExpired
    /\ expired' = expired + 1
    /\ \E p \in Payments :
          \/ \E key \in Keys : Has(p, key) /\ has' = has \ {<<p, key>>}
                               /\ UNCHANGED <<status, updated, auth, result>>
          \/ /\ status[p] # "None"
             /\ SetStatus(p, "None")
             /\ UNCHANGED <<has, auth, result>>
          \/ /\ auth[p] # NoAuth
             /\ auth' = [auth EXCEPT ![p] = NoAuth]
             /\ UNCHANGED <<has, status, updated, result>>
    /\ UNCHANGED <<task, woken, asked, signed, foreign, told, mix>>

ExpireResult ==
    /\ "expiry" \in mix
    /\ expired < MaxExpired
    /\ expired' = expired + 1
    /\ \E u \in result : result' = result \ {u}
    /\ UNCHANGED <<has, status, updated, auth, task, woken, asked, signed, foreign, told, mix>>

----------------------------------------------------------------------------
(* /sale, and /cryptonode/sale with the sale of another supernode.         *)

Sale(k, p) ==
    /\ Begin(k, "sale", "SaleSample", p)
    /\ Set(p, "details") \/ UNCHANGED has      \* in.SaleDetails may be empty
    /\ UNCHANGED <<status, updated, auth, result>> /\ NetSame

SaleSample(k) ==
    /\ At(k, "SaleSample")
    /\ Goto(k, "SaleStore") \/ Done(k)         \* buildAuthSample may fail
    /\ ContextSame /\ NetSame

SaleStore(k) ==
    /\ At(k, "SaleStore")
    /\ Set(task[k].p, "sale")
    /\ Goto(k, "SaleWaiting")
    /\ UNCHANGED <<status, updated, auth, result>> /\ NetSame

SaleWaiting(k) ==
    /\ At(k, "SaleWaiting")
    /\ SetStatus(task[k].p, "Waiting")
    /\ Goto(k, "SaleMulticast")
    /\ UNCHANGED <<has, auth, result>> /\ NetSame

\* handleSaleMulticastReply broadcasts the status it finds, Waiting when there is none.
SaleMulticastReply(k) ==
    LET p == task[k].p IN
    /\ At(k, "SaleMulticast")
    /\ signed' = signed \cup {<<p, IF status[p] = "None" THEN "Waiting" ELSE status[p]>>}
    /\ Goto(k, "SaleBroadcast")
    /\ ContextSame /\ UNCHANGED <<woken, asked, foreign, told, expired, mix>>

\* The answer to the last call a handler makes: the client gets its reply.
LastReply(k) ==
    /\ task[k].at \in {"SaleBroadcast", "ServeCallback", "AuthMulticast", "VoteBroadcast",
                       "RejectBroadcast"}
    /\ Done(k)
    /\ ContextSame /\ NetSame

SaleCryptonode(k, p) ==
    /\ ~Has(p, "sale")
    /\ Begin(k, "multicast", "MulticastStore", p)
    /\ ContextSame /\ NetSame

MulticastStore(k) ==
    /\ At(k, "MulticastStore")
    /\ Set(task[k].p, "sale")
    /\ Goto(k, "MulticastStatus")
    /\ UNCHANGED <<status, updated, auth, result>> /\ NetSame

\* The status the message carries, whatever is stored.  A supernode that runs this code sends
\* Waiting; nobody signs the message.
MulticastStatus(k) ==
    LET p == task[k].p IN
    /\ At(k, "MulticastStatus")
    /\ \E st \in RTAStatus :
          /\ st = "Waiting" \/ <<p, st>> \in foreign.sales
          /\ SetStatus(p, st)
    /\ Goto(k, "MulticastDetails")
    /\ UNCHANGED <<has, auth, result>> /\ NetSame

MulticastDetails(k) ==
    /\ At(k, "MulticastDetails")
    /\ Set(task[k].p, "details")
    /\ Done(k)
    /\ UNCHANGED <<status, updated, auth, result>> /\ NetSame

----------------------------------------------------------------------------
(* /sale_status and /pay_status; /cryptonode/update_sale_status; /reject_sale and  *)
(* /reject_pay.                                                                    *)

\* The IO thread is not in a handler.
IoFree == \A k \in Slots : ~At(k, "UpdateSet")

StatusRequest(p) ==
    /\ "status" \in mix
    /\ IoFree
    /\ status[p] = "Success"
    /\ told' = told \cup {p}
    /\ ContextSame
    /\ UNCHANGED <<woken, asked, signed, foreign, expired, mix, task>>

SaleStatus(p) == StatusRequest(p)
PayStatus(p) == StatusRequest(p)

\* checkSaleStatusUpdateSignature: some supernode signed this status of this payment.
SignatureOk(p, st) == <<p, st>> \in signed \cup foreign.updates

\* Faulty: a worker runs the update, as it does most handlers.
UpdateByWorker(k, p, st) ==
    /\ "update" \in mix
    /\ At(k, "idle")
    /\ SignatureOk(p, st)
    /\ ~isFiniteRtaStatus(status[p])
    /\ task' = [task EXCEPT ![k].at = "UpdateSet", ![k].p = p, ![k].new = st]
    /\ ContextSame /\ NetSame

UpdateSaleStatus(k, p, st) ==
    /\ "update" \in mix
    /\ At(k, "idle")
    /\ IoFree
    /\ SignatureOk(p, st)
    /\ ~isFiniteRtaStatus(status[p])
    /\ task' = [task EXCEPT ![k].at = "UpdateSet", ![k].p = p, ![k].new = st]
    /\ ContextSame /\ NetSame

UpdateSet(k) ==
    /\ At(k, "UpdateSet")
    /\ status' = [status EXCEPT ![task[k].p] = task[k].new]
    /\ updated' = updated \cup {task[k].p}
    /\ Done(k)
    /\ UNCHANGED <<has, auth, result>> /\ NetSame

Reject(k, p, st) ==
    /\ "reject" \in mix
    /\ At(k, "idle")
    /\ status[p] # "None"
    /\ task' = [task EXCEPT ![k].at = "RejectSet", ![k].p = p, ![k].new = st]
    /\ ContextSame /\ NetSame

RejectSale(k, p) == Reject(k, p, "RejectedByPOS")
RejectPay(k, p) == Reject(k, p, "RejectedByWallet")

RejectSet(k) ==
    /\ At(k, "RejectSet")
    /\ SetStatus(task[k].p, task[k].new)
    /\ Done(k)
    /\ UNCHANGED <<has, auth, result>> /\ NetSame

----------------------------------------------------------------------------
(* /sale_details: answered from the cache, from the context, or by another *)
(* supernode through a callback that resumes the postponed task.           *)

\* errorFinishedPayment
PaymentOpen(st) == st \in {"Waiting", "InProgress"}

SaleDetails(k, p) ==
    /\ PaymentOpen(status[p])
    /\ Begin(k, "details", "DetailsCached", p)
    /\ ContextSame /\ NetSame

DetailsCached(k) ==
    /\ At(k, "DetailsCached")
    /\ IF Has(task[k].p, "cached") THEN Done(k) ELSE Goto(k, "DetailsSample")
    /\ ContextSame /\ NetSame

\* buildAuthSample may fail; without details of its own a member of the sample gives up and
\* another supernode asks a member of the sample.
DetailsSample(k) ==
    LET p == task[k].p IN
    /\ At(k, "DetailsSample")
    /\ \/ /\ Done(k)
          /\ UNCHANGED asked
       \/ /\ Has(p, "details")
          /\ Goto(k, "DetailsSale")
          /\ UNCHANGED asked
       \/ /\ ~Has(p, "details")
          /\ \E u \in Uuids \ asked :
                /\ asked' = asked \cup {u}
                /\ task' = [task EXCEPT ![k].at = "DetailsUnicast", ![k].uuid = u]
    /\ ContextSame /\ UNCHANGED <<woken, signed, foreign, told, expired, mix>>

\* prepareSaleDetailsResponse: the details with a sale, an error without.
DetailsSale(k) ==
    /\ At(k, "DetailsSale")
    /\ Done(k)
    /\ ContextSame /\ NetSame

UnicastAcknowledge(k) ==
    /\ At(k, "DetailsUnicast")
    /\ Goto(k, "DetailsPostponed")
    /\ ContextSame /\ NetSame

\* The callback of the supernode that was asked: at any time, more than once, or never.
DetailsCallback(u) ==
    /\ "details" \in mix
    /\ u \in asked
    /\ result' = result \cup {u}
    /\ woken' = woken \cup {u}
    /\ UNCHANGED <<has, status, updated, auth, asked, signed, foreign, told, expired, mix, task>>

DetailsResume(k) ==
    LET u == task[k].uuid IN
    /\ At(k, "DetailsPostponed")
    /\ u \in woken
    /\ IF u \in result THEN Goto(k, "DetailsStore") ELSE Done(k)
    /\ ContextSame /\ NetSame

DetailsStore(k) ==
    /\ At(k, "DetailsStore")
    /\ Set(task[k].p, "cached")
    /\ Goto(k, "DetailsRemove")
    /\ UNCHANGED <<status, updated, auth, result>> /\ NetSame

DetailsRemove(k) ==
    /\ At(k, "DetailsRemove")
    /\ result' = result \ {task[k].uuid}
    /\ Done(k)
    /\ UNCHANGED <<has, status, updated, auth>> /\ NetSame

\* The task manager answers a postponed task whose time is over.
PostponeExpired(k) ==
    /\ At(k, "DetailsPostponed")
    /\ Done(k)
    /\ ContextSame /\ NetSame

\* /cryptonode/sale_details/: the question of another supernode.
DetailsServe(k, p) ==
    /\ Has(p, "details")
    /\ Begin(k, "details", "ServeSale", p)
    /\ ContextSame /\ NetSame

ServeSale(k) ==
    /\ At(k, "ServeSale")
    /\ IF Has(task[k].p, "sale") THEN Goto(k, "ServeCallback") ELSE Done(k)
    /\ ContextSame /\ NetSame

SaleStep(k) ==
    \/ UpstreamFails(k) \/ LastReply(k)
    \/ SaleSample(k) \/ SaleStore(k) \/ SaleWaiting(k) \/ SaleMulticastReply(k)
    \/ MulticastStore(k) \/ MulticastStatus(k) \/ MulticastDetails(k)
    \/ UpdateSet(k) \/ RejectSet(k)
    \/ DetailsCached(k) \/ DetailsSample(k) \/ DetailsSale(k) \/ UnicastAcknowledge(k)
    \/ DetailsResume(k) \/ DetailsStore(k) \/ DetailsRemove(k) \/ PostponeExpired(k)
    \/ ServeSale(k)

SaleArrival ==
    \/ \E p \in Payments :
          \/ SaleStatus(p) \/ PayStatus(p)
          \/ \E k \in Slots :
                \/ Sale(k, p) \/ SaleCryptonode(k, p)
                \/ SaleDetails(k, p) \/ DetailsServe(k, p)
                \/ \E st \in RTAStatus : UpdateSaleStatus(k, p, st)
                \/ RejectSale(k, p) \/ RejectPay(k, p)
    \/ \E u \in Uuids : DetailsCallback(u)
    \/ Expire \/ ExpireResult
=============================================================================
