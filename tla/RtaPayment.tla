------------------------------ MODULE RtaPayment ------------------------------
(***************************************************************************)
(* The authorization of a payment at one supernode                         *)
(* (supernode/requests/authorize_rta_tx.cpp) beside the requests of        *)
(* SaleRequests, with which it shares the status of the payment.           *)
(*                                                                         *)
(* Every key, of the auth sample or not, signs one result of a payment;    *)
(* the network delivers results in any order, any number of times, or      *)
(* never.  handleRtaAuthResponseMulticast counts them and, with enough of  *)
(* them, hands the transaction to the cryptonode, whose pool takes it once.*)
(***************************************************************************)
EXTENDS SaleRequests, Functions

CONSTANTS
    Amounts,    \* amounts of payments, in coins
    Votes       \* the results the supernodes may sign for one transaction

ASSUME VotesAssumption ==
    /\ Amounts \subseteq Nat
    /\ Votes \subseteq [Sn -> {"Approved", "Rejected"}]

VARIABLES
    amount,     \* the amount in the authorization request
    vote,       \* the result each supernode signs
    pool        \* transactions in the pool of the cryptonode

vars == <<saleVars, amount, vote, pool>>

RTA_VOTES_TO_REJECT == 1
VotesToApprove(a) == IF a > 100 THEN 4 ELSE 2

Init ==
    /\ SaleInit
    /\ amount \in [Payments -> Amounts]
    /\ vote \in [Payments -> Votes]
    /\ pool = {}

OthersSame == UNCHANGED <<amount, vote, pool>>

----------------------------------------------------------------------------
(* /cryptonode/authorize_rta_tx_request: the caller has its answer, then   *)
(* the handler runs again and decides.                                     *)

\* storeRequestAndReplyOk and the check that the transaction is new.
AuthRequest(k, p) ==
    /\ ~Has(p, "tx")
    /\ Begin(k, "auth", "AuthAmount", p)
    /\ ContextSame /\ NetSame /\ OthersSame

\* The amount stays when the fee of the transaction cannot be read.
AuthAmount(k) ==
    /\ At(k, "AuthAmount")
    /\ Set(task[k].p, "amount")
    /\ Goto(k, "AuthTx") \/ Done(k)
    /\ UNCHANGED <<status, updated, auth, result>> /\ NetSame /\ OthersSame

AuthTx(k) ==
    /\ At(k, "AuthTx")
    /\ Set(task[k].p, "tx")
    /\ Goto(k, "AuthPid")
    /\ UNCHANGED <<status, updated, auth, result>> /\ NetSame /\ OthersSame

AuthPid(k) ==
    /\ At(k, "AuthPid")
    /\ Set(task[k].p, "pid")
    /\ Goto(k, "AuthMulticast")
    /\ UNCHANGED <<status, updated, auth, result>> /\ NetSame /\ OthersSame

----------------------------------------------------------------------------
(* /cryptonode/authorize_rta_tx_response                                   *)

\* validateAuthResponse: the result is signed with the key the message carries.  Whether that
\* key is in the list of supernodes or in the auth sample is not looked at.
validateAuthResponse(p, s, r) == vote[p][s] = r

\* Faulty: an earlier result of the same supernode is not looked for.
votesUnchecked(a, s) == FALSE

alreadyVoted(a, s) == s \in Range(a.approved) \cup Range(a.rejected)

\* The transaction is known here and the result is signed.
AuthResponse(k, p, s, r) ==
    /\ "vote" \in mix
    /\ At(k, "idle")
    /\ Has(p, "pid")
    /\ validateAuthResponse(p, s, r)
    /\ task' = [task EXCEPT ![k].at = "VoteRead", ![k].p = p, ![k].sn = s, ![k].res = r]
    /\ ContextSame /\ NetSame /\ OthersSame

VoteRead(k) ==
    LET a == auth[task[k].p]
        s == task[k].sn
    IN
    /\ At(k, "VoteRead")
    /\ IF alreadyVoted(a, s)
       THEN Done(k)
       ELSE task' = [task EXCEPT ![k].at = "VoteStore",
                        ![k].auth = IF task[k].res = "Approved"
                                    THEN [a EXCEPT !.approved = Append(@, s)]
                                    ELSE [a EXCEPT !.rejected = Append(@, s)]]
    /\ ContextSame /\ NetSame /\ OthersSame

VoteStore(k) ==
    /\ At(k, "VoteStore")
    /\ auth' = [auth EXCEPT ![task[k].p] = task[k].auth]
    /\ Goto(k, "VoteAmount")
    /\ UNCHANGED <<has, status, updated, result>> /\ NetSame /\ OthersSame

VoteAmount(k) ==
    /\ At(k, "VoteAmount")
    /\ IF Has(task[k].p, "amount") THEN Goto(k, "VoteCount") ELSE Done(k)
    /\ ContextSame /\ NetSame /\ OthersSame

\* One rejection fails the payment, enough approvals send the transaction to the pool.
VoteCount(k) ==
    LET p == task[k].p
        a == task[k].auth
    IN
    /\ At(k, "VoteCount")
    /\ \/ /\ Has(p, "tx")
          /\ Len(a.rejected) >= RTA_VOTES_TO_REJECT
          /\ Goto(k, "VoteFail")
       \/ /\ Has(p, "tx")
          /\ Len(a.rejected) < RTA_VOTES_TO_REJECT
          /\ Len(a.approved) >= VotesToApprove(amount[p])
          /\ Goto(k, "VotePush")
       \/ /\ \/ ~Has(p, "tx")
             \/ /\ Len(a.rejected) < RTA_VOTES_TO_REJECT
                /\ Len(a.approved) < VotesToApprove(amount[p])
          /\ Done(k)
    /\ ContextSame /\ NetSame /\ OthersSame

\* Fail is broadcast.  The answer finds the handler in the state of a pushed transaction
\* without a transaction id, which throws: the cryptonode gets an error (LastReply).
VoteFail(k) ==
    LET p == task[k].p IN
    /\ At(k, "VoteFail")
    /\ SetStatus(p, "Fail")
    /\ signed' = signed \cup {<<p, "Fail">>}
    /\ Goto(k, "RejectBroadcast")
    /\ UNCHANGED <<has, auth, result, woken, asked, foreign, told, expired, mix>> /\ OthersSame

\* Faulty: any answer of the pool but a double spend is taken for success.
TxPushTrusted(k) ==
    LET p == task[k].p IN
    /\ At(k, "VotePush")
    /\ pool' = pool \/ pool' = pool \cup {p}
    /\ task' = [task EXCEPT ![k].at = "PushStatus",
                            ![k].new = IF p \in pool THEN "None" ELSE "Success"]
    /\ ContextSame /\ NetSame /\ UNCHANGED <<amount, vote>>

\* The pool takes a transaction once; a second one is a double spend, and the pool may refuse
\* a transaction for another reason.  handleCryptonodeTxPushResponse goes on in PushStatus.
TxPush(k) ==
    LET p == task[k].p IN
    /\ At(k, "VotePush")
    /\ \/ /\ p \notin pool
          /\ pool' = pool \cup {p}
          /\ task' = [task EXCEPT ![k].at = "PushStatus", ![k].new = "Success"]
       \/ /\ p \in pool
          /\ UNCHANGED pool
          /\ task' = [task EXCEPT ![k].at = "PushStatus", ![k].new = "None"]
       \/ /\ UNCHANGED pool
          /\ task' = [task EXCEPT ![k].at = "PushStatus", ![k].new = "Fail"]
    /\ ContextSame /\ NetSame /\ UNCHANGED <<amount, vote>>

\* The pool has the transaction and its answer is lost.
TxPushUnanswered(k) ==
    /\ At(k, "VotePush")
    /\ pool' = pool \cup {task[k].p}
    /\ Done(k)
    /\ ContextSame /\ NetSame /\ UNCHANGED <<amount, vote>>

\* Without a payment id, without a status, with a finite status or after a double spend
\* nothing is broadcast.
PushStatus(k) ==
    LET p == task[k].p
        st == task[k].new
        report == /\ Has(p, "pid")
                  /\ status[p] # "None"
                  /\ ~isFiniteRtaStatus(status[p])
                  /\ st # "None"
    IN
    /\ At(k, "PushStatus")
    /\ \/ /\ report
          /\ signed' = signed \cup {<<p, st>>}
          /\ Goto(k, "VoteBroadcast")
       \/ /\ ~report
          /\ Done(k)
          /\ UNCHANGED signed
    /\ ContextSame /\ UNCHANGED <<woken, asked, foreign, told, expired, mix>> /\ OthersSame

----------------------------------------------------------------------------

AuthStep(k) ==
    \/ AuthAmount(k) \/ AuthTx(k) \/ AuthPid(k)
    \/ VoteRead(k) \/ VoteStore(k) \/ VoteAmount(k) \/ VoteCount(k) \/ VoteFail(k)
    \/ TxPush(k) \/ TxPushUnanswered(k) \/ PushStatus(k)

Step(k) == (SaleStep(k) /\ OthersSame) \/ AuthStep(k)

Next ==
    \/ \E k \in Slots : Step(k)
    \/ SaleArrival /\ OthersSame
    \/ \E k \in Slots, p \in Payments :
          \/ AuthRequest(k, p)
          \/ \E s \in Sn, r \in {"Approved", "Rejected"} : AuthResponse(k, p, s, r)

Spec == Init /\ [][Next]_vars

----------------------------------------------------------------------------

\* A transaction is handed to the cryptonode only with the signatures of enough different
\* keys, each of which signed an approval, and with no rejection among the results the
\* handler read, however the results are ordered, repeated, lost or handled at the same time.
PushHasQuorum ==
    \A k \in Slots : At(k, "VotePush") =>
        LET p == task[k].p
            a == task[k].auth
        IN  /\ Len(a.approved) >= VotesToApprove(amount[p])
            /\ \A i, j \in DOMAIN a.approved : i # j => a.approved[i] # a.approved[j]
            /\ \A i \in DOMAIN a.approved : vote[p][a.approved[i]] = "Approved"
            /\ a.rejected = <<>>

\* Success is stored, broadcast by this supernode and told to a client only when the pool has
\* the transaction, another supernode signed Success, or another one sent a sale with it.
SuccessEarned ==
    \A p \in Payments :
        status[p] = "Success" \/ p \in told \/ <<p, "Success">> \in signed
            => p \in pool \/ <<p, "Success">> \in foreign.updates \cup foreign.sales

\* Of several updates that other supernodes sign for one payment the first with a finite status
\* stays: no later update replaces it, although each reads the status and sets it in two calls
\* while sales, rejections, results and expiry, which may replace it, come between.
FirstUpdateStays ==
    [][\A p \in Payments :
          p \in updated \cap updated' /\ isFiniteRtaStatus(status[p]) => status'[p] = status[p]]_vars
=============================================================================
