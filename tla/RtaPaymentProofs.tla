--------------------------- MODULE RtaPaymentProofs ---------------------------
(***************************************************************************)
(* A payment is pushed only with a quorum, successful only if it was       *)
(* earned, and updated only once with a finite status, for any payments,   *)
(* keys, requests in flight, mixes of requests and number of entries that  *)
(* expire.                                                                 *)
(***************************************************************************)
EXTENDS RtaPayment, TLAPS

AuthType == [approved : Seq(Sn), rejected : Seq(Sn)]

\* The steps of the handlers in which a request says something about the payment, and all.
Known == {"VoteRead", "VoteStore", "VoteAmount", "VoteCount", "VotePush",
          "UpdateSet", "PushStatus", "RejectSet"}
Places == Known \cup Waiting \cup
          {"idle", "SaleSample", "SaleStore", "SaleWaiting",
           "MulticastStore", "MulticastStatus", "MulticastDetails",
           "DetailsCached", "DetailsSample", "DetailsSale", "DetailsPostponed",
           "DetailsStore", "DetailsRemove", "ServeSale",
           "AuthAmount", "AuthTx", "AuthPid", "VoteFail"}

TaskType == [at : Places, p : Payments, new : RTAStatus, sn : Sn,
             res : {"Approved", "Rejected"}, auth : AuthType, uuid : Uuids]

\* The types of the variables the argument is about.
TypeOK ==
    /\ status \in [Payments -> RTAStatus]
    /\ auth \in [Payments -> AuthType]
    /\ task \in [Slots -> TaskType]
    /\ amount \in [Payments -> Nat]
    /\ vote \in [Payments -> [Sn -> {"Approved", "Rejected"}]]

\* Results counted for p: every supernode at most once, each with what it signed.
Counted(p, a) ==
    /\ \A i, j \in DOMAIN a.approved : i # j => a.approved[i] # a.approved[j]
    /\ \A i \in DOMAIN a.approved : vote[p][a.approved[i]] = "Approved"

\* The results in the context are counted so.
AuthCounted == \A p \in Payments : Counted(p, auth[p])

\* What makes Success right.
Earned(p) == p \in pool \/ <<p, "Success">> \in foreign.updates \cup foreign.sales

\* What a handler knows between two of its calls on the context.
TaskOK(t) ==
    /\ t.at = "VoteRead" => vote[t.p][t.sn] = t.res
    /\ t.at \in {"VoteStore", "VoteAmount", "VoteCount", "VotePush"} => Counted(t.p, t.auth)
    /\ t.at = "VotePush" => /\ Len(t.auth.approved) >= VotesToApprove(amount[t.p])
                            /\ t.auth.rejected = <<>>
    /\ t.at \in {"UpdateSet", "PushStatus"} /\ t.new = "Success" => Earned(t.p)
    /\ t.at = "RejectSet" => t.new \in {"RejectedByPOS", "RejectedByWallet"}

TasksOK == \A k \in Slots : TaskOK(task[k])

\* The inductive invariant.
IInv == TypeOK /\ AuthCounted /\ TasksOK /\ SuccessEarned

-----------------------------------------------------------------------------
(* Requests in flight                                                        *)

LEMMA IdleTask == Idle \in TaskType /\ NoAuth \in AuthType /\ Idle.at = "idle"
<1>1. /\ (CHOOSE p \in Payments : TRUE) \in Payments
      /\ (CHOOSE s \in Sn : TRUE) \in Sn
      /\ (CHOOSE u \in Uuids : TRUE) \in Uuids
  BY SetsAssumption
<1>2. NoAuth \in AuthType
  BY DEF NoAuth, AuthType
<1>3. PICK p \in Payments, s \in Sn, u \in Uuids :
         Idle = [at |-> "idle", p |-> p, new |-> "None", sn |-> s, res |-> "Approved",
                 auth |-> NoAuth, uuid |-> u]
  BY <1>1, Zenon DEF Idle
<1>4. "None" \in RTAStatus
  BY DEF RTAStatus
<1>5. Idle.at = "idle"
  BY <1>3
<1>6. "idle" \in Places
  BY DEF Places
<1>7. "Approved" \in {"Approved", "Rejected"}
  OBVIOUS
<1>8. Idle \in TaskType
  BY <1>2, <1>3, <1>4, <1>6, <1>7 DEF TaskType
<1> QED BY <1>2, <1>5, <1>8

LEMMA UnknownOK == \A t \in TaskType : t.at \notin Known => TaskOK(t) /\ TaskOK(t)'
  BY DEF Known, TaskOK

\* What a request knows stays right.
LEMMA TaskKept ==
    ASSUME UNCHANGED <<amount, vote, foreign>>, pool \subseteq pool'
    PROVE  \A t \in TaskType : TaskOK(t) => TaskOK(t)'
  BY DEF TaskOK, Counted, Earned, VotesToApprove

\* One request goes on; the results of the votes and the status change as the step says.
LEMMA TaskStep ==
    ASSUME IInv, NEW k \in Slots, NEW t \in TaskType, task' = [task EXCEPT ![k] = t],
           TaskOK(t)', UNCHANGED <<amount, vote, foreign>>, pool \subseteq pool'
    PROVE  task' \in [Slots -> TaskType] /\ TasksOK'
<1>1. task \in [Slots -> TaskType] /\ TasksOK
  BY DEF IInv, TypeOK
<1>2. ASSUME NEW j \in Slots PROVE TaskOK(task[j])'
  <2>1. CASE j = k
    <3>1. task'[j] = t
      BY <1>1, <2>1
    <3> QED BY <3>1 DEF TaskOK
  <2>2. CASE j # k
    <3>1. task'[j] = task[j] /\ task[j] \in TaskType /\ TaskOK(task[j])
      BY <1>1, <2>2 DEF TasksOK
    <3>2. PICK u \in TaskType : u = task[j]
      BY <3>1
    <3>3. TaskOK(u)
      BY <3>1, <3>2
    <3>4. TaskOK(u)'
      BY <3>3, TaskKept
    <3> QED BY <3>1, <3>2, <3>4 DEF TaskOK
  <2> QED BY <2>1, <2>2
<1> QED BY <1>1, <1>2 DEF TasksOK

LEMMA TasksStay ==
    ASSUME IInv, task' = task, UNCHANGED <<amount, vote, foreign>>, pool \subseteq pool'
    PROVE  task' \in [Slots -> TaskType] /\ TasksOK'
<1>1. task \in [Slots -> TaskType] /\ TasksOK
  BY DEF IInv, TypeOK
<1>2. ASSUME NEW j \in Slots PROVE TaskOK(task[j])'
  <2>1. PICK u \in TaskType : u = task[j]
    BY <1>1
  <2>2. TaskOK(u)
    BY <1>1, <2>1 DEF TasksOK
  <2>3. TaskOK(u)'
    BY <2>2, TaskKept
  <2> QED BY <2>1, <2>3 DEF TaskOK
<1> QED BY <1>1, <1>2 DEF TasksOK

\* The results stay counted when the entries of the context do.
LEMMA AuthKept ==
    ASSUME IInv, UNCHANGED <<auth, vote>>
    PROVE  AuthCounted'
  BY DEF IInv, AuthCounted, Counted

\* The rest of the invariant after a step that leaves auth and pool alone.
LEMMA SuccessKept ==
    ASSUME IInv, UNCHANGED <<amount, vote, foreign>>, pool \subseteq pool',
           \A p \in Payments : status'[p] = "Success" => status[p] = "Success" \/ Earned(p)',
           \A p \in Payments : p \in told' => p \in told \/ Earned(p)',
           \A p \in Payments : <<p, "Success">> \in signed' =>
                                  <<p, "Success">> \in signed \/ Earned(p)'
    PROVE  SuccessEarned'
<1>1. \A p \in Payments : Earned(p) => Earned(p)'
  BY DEF Earned
<1>2. SuccessEarned
  BY DEF IInv
<1> QED BY <1>1, <1>2 DEF SuccessEarned, Earned

\* A step that changes only one request and what no part of the invariant is about.
LEMMA QuietStep ==
    ASSUME IInv, NEW k \in Slots, NEW t \in TaskType, task' = [task EXCEPT ![k] = t],
           TaskOK(t)', UNCHANGED <<status, auth, signed, told, foreign>>, OthersSame
    PROVE  IInv'
<1>1. UNCHANGED <<amount, vote, pool>>
  BY DEF OthersSame
<1>2. task' \in [Slots -> TaskType] /\ TasksOK'
  BY <1>1, TaskStep
<1>3. AuthCounted'
  BY <1>1, AuthKept
<1>4. SuccessEarned'
  BY <1>1, SuccessKept
<1>5. TypeOK'
  BY <1>1, <1>2 DEF IInv, TypeOK
<1> QED BY <1>2, <1>3, <1>4, <1>5 DEF IInv

\* A request that only goes on to the next step or ends.
LEMMA MoveType ==
    ASSUME TypeOK, NEW k \in Slots, NEW l \in Places, Goto(k, l)
    PROVE  \E t \in TaskType : /\ task' = [task EXCEPT ![k] = t]
                               /\ t.at = l /\ t.p = task[k].p /\ t.auth = task[k].auth
<1> DEFINE t == [task[k] EXCEPT !.at = l]
<1>1. task \in [Slots -> TaskType] /\ task[k] \in TaskType
  BY DEF TypeOK
<1>2. /\ t \in TaskType /\ task' = [task EXCEPT ![k] = t]
      /\ t.at = l /\ t.p = task[k].p /\ t.auth = task[k].auth
  BY <1>1 DEF Goto, TaskType
<1> QED BY <1>2

LEMMA MoveStep ==
    ASSUME IInv, NEW k \in Slots, NEW l \in Places, l \notin Known, Goto(k, l) \/ Done(k),
           UNCHANGED <<status, auth, signed, told, foreign>>, OthersSame
    PROVE  IInv'
<1>1. CASE Done(k)
  BY <1>1, QuietStep, UnknownOK, IdleTask DEF Done, Known
<1>2. CASE Goto(k, l)
  <2>1. TypeOK
    BY DEF IInv
  <2>2. PICK t \in TaskType : task' = [task EXCEPT ![k] = t] /\ t.at = l
    BY <1>2, <2>1, MoveType
  <2>3. TaskOK(t)'
    BY <2>2, UnknownOK
  <2> QED BY <2>2, <2>3, QuietStep
<1> QED BY <1>1, <1>2

\* A request that arrives.
LEMMA BeginStep ==
    ASSUME IInv, NEW k \in Slots, NEW l \in Places, l \notin Known, NEW p \in Payments,
           task' = [task EXCEPT ![k].at = l, ![k].p = p],
           UNCHANGED <<status, auth, signed, told, foreign>>, OthersSame
    PROVE  IInv'
<1> DEFINE t == [task[k] EXCEPT !.at = l, !.p = p]
<1>1. task \in [Slots -> TaskType] /\ task[k] \in TaskType
  BY DEF IInv, TypeOK
<1>2. t \in TaskType /\ t.at = l /\ task' = [task EXCEPT ![k] = t]
  BY <1>1 DEF TaskType
<1> HIDE DEF t
<1>3. PICK u \in TaskType : u = t
  BY <1>2
<1>4. TaskOK(u)'
  BY <1>2, <1>3, UnknownOK
<1> QED BY <1>2, <1>3, <1>4, QuietStep

-----------------------------------------------------------------------------
(* The requests of SaleRequests                                              *)

LEMMA StepPlain ==
    ASSUME IInv, OthersSame, NEW k \in Slots,
           \/ UpstreamFails(k) \/ LastReply(k) \/ SaleSample(k) \/ SaleStore(k)
           \/ MulticastStore(k) \/ MulticastDetails(k)
           \/ DetailsCached(k) \/ DetailsSale(k) \/ UnicastAcknowledge(k)
           \/ DetailsResume(k) \/ DetailsStore(k) \/ DetailsRemove(k) \/ PostponeExpired(k)
           \/ ServeSale(k)
    PROVE  IInv'
<1> USE DEF Places, Known, ContextSame, NetSame
<1>1. CASE UpstreamFails(k)
  BY <1>1, MoveStep DEF UpstreamFails
<1>2. CASE LastReply(k)
  BY <1>2, MoveStep DEF LastReply
<1>3. CASE SaleSample(k)
  BY <1>3, MoveStep DEF SaleSample
<1>4. CASE SaleStore(k)
  BY <1>4, MoveStep DEF SaleStore
<1>5. CASE MulticastStore(k)
  BY <1>5, MoveStep DEF MulticastStore
<1>6. CASE MulticastDetails(k)
  BY <1>6, MoveStep DEF MulticastDetails
<1>7. CASE DetailsCached(k)
  BY <1>7, MoveStep DEF DetailsCached
<1>8. CASE DetailsSale(k)
  BY <1>8, MoveStep DEF DetailsSale
<1>9. CASE UnicastAcknowledge(k)
  BY <1>9, MoveStep DEF UnicastAcknowledge
<1>10. CASE DetailsResume(k)
  BY <1>10, MoveStep DEF DetailsResume
<1>11. CASE DetailsStore(k)
  BY <1>11, MoveStep DEF DetailsStore
<1>12. CASE DetailsRemove(k)
  BY <1>12, MoveStep DEF DetailsRemove
<1>13. CASE PostponeExpired(k)
  BY <1>13, MoveStep DEF PostponeExpired
<1>14. CASE ServeSale(k)
  BY <1>14, MoveStep DEF ServeSale, Waiting
<1> QED BY <1>1, <1>2, <1>3, <1>4, <1>5, <1>6, <1>7, <1>8, <1>9, <1>10, <1>11, <1>12, <1>13,
           <1>14

LEMMA StepDetailsSample ==
    ASSUME IInv, OthersSame, NEW k \in Slots, DetailsSample(k)
    PROVE  IInv'
<1>1. UNCHANGED <<status, auth, signed, told, foreign>>
  BY DEF DetailsSample, ContextSame
<1>2. CASE Done(k) \/ Goto(k, "DetailsSale")
  BY <1>1, <1>2, MoveStep DEF Places, Known
<1>3. ASSUME NEW u \in Uuids,
             task' = [task EXCEPT ![k].at = "DetailsUnicast", ![k].uuid = u]
      PROVE  IInv'
  <2> DEFINE t == [task[k] EXCEPT !.at = "DetailsUnicast", !.uuid = u]
  <2>1. task \in [Slots -> TaskType] /\ task[k] \in TaskType /\ "DetailsUnicast" \in Places \ Known
    BY DEF IInv, TypeOK, Places, Known, Waiting
  <2>2. t \in TaskType /\ t.at = "DetailsUnicast" /\ task' = [task EXCEPT ![k] = t]
    BY <1>3, <2>1 DEF TaskType
  <2> HIDE DEF t
  <2>3. PICK r \in TaskType : r = t
    BY <2>2
  <2>4. TaskOK(r)'
    BY <2>1, <2>2, <2>3, UnknownOK
  <2> QED BY <1>1, <2>2, <2>3, <2>4, QuietStep
<1> QED BY <1>2, <1>3 DEF DetailsSample

\* A new status that is not Success, or one that was earned.
LEMMA StatusStep ==
    ASSUME IInv, NEW k \in Slots, NEW t \in TaskType, task' = [task EXCEPT ![k] = t], TaskOK(t)',
           NEW p \in Payments, NEW st \in RTAStatus, status' = [status EXCEPT ![p] = st],
           st = "Success" => Earned(p)',
           \A q \in Payments : <<q, "Success">> \in signed' => <<q, "Success">> \in signed,
           UNCHANGED <<auth, told, foreign>>, OthersSame
    PROVE  IInv'
<1>1. UNCHANGED <<amount, vote, pool>>
  BY DEF OthersSame
<1>2. task' \in [Slots -> TaskType] /\ TasksOK'
  BY <1>1, TaskStep
<1>3. AuthCounted'
  BY <1>1, AuthKept
<1>4. status \in [Payments -> RTAStatus]
  BY DEF IInv, TypeOK
<1>5. SuccessEarned'
  <2>1. ASSUME NEW q \in Payments, status'[q] = "Success"
        PROVE  status[q] = "Success" \/ Earned(q)'
    <3>1. CASE q = p
      BY <1>4, <2>1, <3>1 DEF Earned
    <3>2. CASE q # p
      BY <1>4, <2>1, <3>2
    <3> QED BY <3>1, <3>2
  <2> QED BY <1>1, <2>1, SuccessKept
<1>6. TypeOK'
  BY <1>1, <1>2, <1>4 DEF IInv, TypeOK
<1> QED BY <1>2, <1>3, <1>5, <1>6 DEF IInv

LEMMA StepStatus ==
    ASSUME IInv, OthersSame, NEW k \in Slots,
           SaleWaiting(k) \/ MulticastStatus(k) \/ UpdateSet(k) \/ RejectSet(k)
    PROVE  IInv'
<1> USE DEF SetStatus
<1>1. /\ TypeOK /\ task[k] \in TaskType /\ task[k].p \in Payments /\ task[k].new \in RTAStatus
      /\ TaskOK(task[k])
  BY DEF IInv, TypeOK, TasksOK, TaskType
<1>2. PICK p \in Payments : p = task[k].p
  BY <1>1
<1>3. UNCHANGED <<auth, told, foreign, signed, amount, vote, pool>>
  BY DEF SaleWaiting, MulticastStatus, UpdateSet, RejectSet, NetSame, OthersSame
<1>4. CASE SaleWaiting(k) \/ MulticastStatus(k)
  <2>1. PICK l \in Places \ Known : Goto(k, l)
    BY <1>4 DEF SaleWaiting, MulticastStatus, Places, Known, Waiting
  <2>2. PICK t \in TaskType : task' = [task EXCEPT ![k] = t] /\ t.at = l
    BY <1>1, <2>1, MoveType
  <2>3. TaskOK(t)'
    BY <2>1, <2>2, UnknownOK
  <2>4. PICK st \in RTAStatus : /\ status' = [status EXCEPT ![p] = st]
                                /\ st = "Waiting" \/ <<p, st>> \in foreign.sales
    BY <1>2, <1>4 DEF SaleWaiting, MulticastStatus, RTAStatus
  <2>5. st = "Success" => Earned(p)'
    BY <1>3, <2>4 DEF Earned
  <2> QED BY <1>3, <2>2, <2>3, <2>4, <2>5, StatusStep
<1>5. CASE UpdateSet(k) \/ RejectSet(k)
  <2>1. TaskOK(Idle)'
    BY IdleTask, UnknownOK DEF Known
  <2>2. task' = [task EXCEPT ![k] = Idle]
    BY <1>5 DEF UpdateSet, RejectSet, Done
  <2>3. PICK st \in RTAStatus : st = task[k].new
    BY <1>1
  <2>4. status' = [status EXCEPT ![p] = st]
    BY <1>2, <1>5, <2>3 DEF UpdateSet, RejectSet
  <2>5. st = "Success" => Earned(p)
    BY <1>1, <1>2, <1>5, <2>3 DEF UpdateSet, RejectSet, At, TaskOK
  <2>6. st = "Success" => Earned(p)'
    BY <1>3, <2>5 DEF Earned
  <2> QED BY <1>3, <2>1, <2>2, <2>4, <2>6, IdleTask, StatusStep
<1> QED BY <1>4, <1>5

\* A status that is broadcast as it is.
LEMMA StepSaleMulticastReply ==
    ASSUME IInv, OthersSame, NEW k \in Slots, SaleMulticastReply(k)
    PROVE  IInv'
<1>1. /\ TypeOK /\ UNCHANGED <<status, auth, told, foreign, amount, vote, pool>>
      /\ task[k].p \in Payments
  BY DEF IInv, TypeOK, TaskType, SaleMulticastReply, ContextSame, OthersSame
<1>2. "SaleBroadcast" \in Places /\ "SaleBroadcast" \notin Known
  BY DEF Places, Known, Waiting
<1>3. PICK t \in TaskType : task' = [task EXCEPT ![k] = t] /\ t.at = "SaleBroadcast"
  BY <1>1, <1>2, MoveType DEF SaleMulticastReply
<1>4. TaskOK(t)'
  BY <1>2, <1>3, UnknownOK
<1>5. task' \in [Slots -> TaskType] /\ TasksOK'
  BY <1>1, <1>3, <1>4, TaskStep
<1>6. AuthCounted'
  BY <1>1, AuthKept
<1>7. ASSUME NEW q \in Payments, <<q, "Success">> \in signed'
      PROVE  <<q, "Success">> \in signed \/ Earned(q)'
  <2>1. CASE q = task[k].p /\ status[q] = "Success"
    <3>1. Earned(q)
      BY <2>1 DEF IInv, SuccessEarned, Earned
    <3> QED BY <1>1, <3>1 DEF Earned
  <2>2. CASE ~(q = task[k].p /\ status[q] = "Success")
    BY <1>7, <2>2 DEF SaleMulticastReply
  <2> QED BY <2>1, <2>2
<1>8. SuccessEarned'
  BY <1>1, <1>7, SuccessKept
<1>9. TypeOK'
  BY <1>1, <1>5 DEF TypeOK
<1> QED BY <1>5, <1>6, <1>8, <1>9 DEF IInv

\* A request that arrives or a step of the context that runs no request.
LEMMA StepStatusRequest ==
    ASSUME IInv, OthersSame, NEW p \in Payments, StatusRequest(p)
    PROVE  IInv'
<1>1. /\ UNCHANGED <<status, auth, signed, foreign, task, amount, vote, pool>>
      /\ told' = told \cup {p} /\ status[p] = "Success"
  BY DEF StatusRequest, ContextSame, OthersSame
<1>2. task' \in [Slots -> TaskType] /\ TasksOK'
  BY <1>1, TasksStay
<1>3. Earned(p)
  BY <1>1 DEF IInv, SuccessEarned, Earned
<1>4. Earned(p)'
  BY <1>1, <1>3 DEF Earned
<1>5. SuccessEarned'
  BY <1>1, <1>4, SuccessKept
<1>6. TypeOK' /\ AuthCounted'
  BY <1>1, <1>2, AuthKept DEF IInv, TypeOK
<1> QED BY <1>2, <1>5, <1>6 DEF IInv

LEMMA StepUpdateSaleStatus ==
    ASSUME IInv, OthersSame, NEW k \in Slots, NEW p \in Payments, NEW st \in RTAStatus,
           UpdateSaleStatus(k, p, st)
    PROVE  IInv'
<1>1. UNCHANGED <<status, auth, signed, told, foreign, amount, vote, pool>>
  BY DEF UpdateSaleStatus, ContextSame, NetSame, OthersSame
<1> DEFINE t == [task[k] EXCEPT !.at = "UpdateSet", !.p = p, !.new = st]
<1>2. task \in [Slots -> TaskType] /\ task[k] \in TaskType /\ status[p] \in RTAStatus
      /\ "UpdateSet" \in Places
  BY DEF IInv, TypeOK, Places, Known
<1>3. task' = [task EXCEPT ![k] = t]
  BY <1>2 DEF UpdateSaleStatus
<1>4. /\ t \in TaskType /\ t.at = "UpdateSet" /\ t.p = p /\ t.new = st
  BY <1>2 DEF TaskType
<1> HIDE DEF t
<1>5. PICK u \in TaskType : u = t
  BY <1>4
<1>6. st = "Success" => Earned(p)
  BY DEF UpdateSaleStatus, SignatureOk, IInv, SuccessEarned, Earned
<1>7. TaskOK(u)
  BY <1>4, <1>5, <1>6 DEF UpdateSaleStatus, TaskOK
<1>8. TaskOK(u)'
  BY <1>1, <1>7, TaskKept
<1> QED BY <1>1, <1>3, <1>5, <1>8, QuietStep

LEMMA StepReject ==
    ASSUME IInv, OthersSame, NEW k \in Slots, NEW p \in Payments,
           NEW st \in {"RejectedByPOS", "RejectedByWallet"}, Reject(k, p, st)
    PROVE  IInv'
<1>1. UNCHANGED <<status, auth, signed, told, foreign, amount, vote, pool>>
  BY DEF Reject, ContextSame, NetSame, OthersSame
<1> DEFINE t == [task[k] EXCEPT !.at = "RejectSet", !.p = p, !.new = st]
<1>2. task \in [Slots -> TaskType] /\ task[k] \in TaskType /\ st \in RTAStatus
      /\ "RejectSet" \in Places
  BY DEF IInv, TypeOK, RTAStatus, Places, Known
<1>3. task' = [task EXCEPT ![k] = t]
  BY <1>2 DEF Reject
<1>4. t \in TaskType /\ t.at = "RejectSet" /\ t.new = st
  BY <1>2 DEF TaskType
<1> HIDE DEF t
<1>5. PICK u \in TaskType : u = t
  BY <1>4
<1>6. TaskOK(u)'
  BY <1>4, <1>5 DEF TaskOK
<1> QED BY <1>1, <1>3, <1>5, <1>6, QuietStep

LEMMA StepExpire ==
    ASSUME IInv, OthersSame, Expire \/ ExpireResult
    PROVE  IInv'
<1>1. UNCHANGED <<signed, told, foreign, task, amount, vote, pool>>
  BY DEF Expire, ExpireResult, OthersSame
<1>2. task' \in [Slots -> TaskType] /\ TasksOK'
  BY <1>1, TasksStay
<1>3. /\ status \in [Payments -> RTAStatus] /\ auth \in [Payments -> AuthType]
      /\ AuthCounted /\ TypeOK
  BY DEF IInv, TypeOK
<1>4. \/ UNCHANGED <<status, auth>>
      \/ \E p \in Payments : status' = [status EXCEPT ![p] = "None"] /\ UNCHANGED auth
      \/ \E p \in Payments : auth' = [auth EXCEPT ![p] = NoAuth] /\ UNCHANGED status
  BY DEF Expire, ExpireResult, SetStatus
<1>5. \A p \in Payments : status'[p] = status[p] \/ status'[p] = "None"
  BY <1>3, <1>4
<1>6. \A p \in Payments : auth'[p] = auth[p] \/ auth'[p] = NoAuth
  BY <1>3, <1>4
<1>7. status' \in [Payments -> RTAStatus] /\ auth' \in [Payments -> AuthType]
  BY <1>3, <1>4, IdleTask DEF RTAStatus
<1>8. TypeOK'
  BY <1>1, <1>2, <1>3, <1>7 DEF TypeOK
<1>9. SuccessEarned'
  BY <1>1, <1>5, SuccessKept
<1>10. AuthCounted'
  <2>1. ASSUME NEW p \in Payments PROVE Counted(p, auth[p])'
    <3>1. CASE auth'[p] = auth[p]
      BY <1>1, <1>3, <3>1 DEF AuthCounted, Counted
    <3>2. CASE auth'[p] = NoAuth
      BY <3>2 DEF Counted, NoAuth
    <3> QED BY <1>6, <3>1, <3>2
  <2> QED BY <2>1 DEF AuthCounted
<1> QED BY <1>2, <1>8, <1>9, <1>10 DEF IInv

LEMMA StepArrival ==
    ASSUME IInv, OthersSame, SaleArrival
    PROVE  IInv'
<1>1. ASSUME NEW p \in Payments, SaleStatus(p) \/ PayStatus(p) PROVE IInv'
  BY <1>1, StepStatusRequest DEF SaleStatus, PayStatus
<1>2. ASSUME NEW p \in Payments, NEW k \in Slots,
             \/ Sale(k, p) \/ SaleCryptonode(k, p) \/ SaleDetails(k, p) \/ DetailsServe(k, p)
      PROVE  IInv'
  <2>1. UNCHANGED <<status, auth, signed, told, foreign>>
    BY <1>2 DEF Sale, SaleCryptonode, SaleDetails, DetailsServe, NetSame, ContextSame
  <2>2. \E l \in Places \ Known : task' = [task EXCEPT ![k].at = l, ![k].p = p]
    BY <1>2 DEF Sale, SaleCryptonode, SaleDetails, DetailsServe, Begin, Places, Known
  <2> QED BY <2>1, <2>2, BeginStep
<1>3. ASSUME NEW p \in Payments, NEW k \in Slots, NEW st \in RTAStatus,
             UpdateSaleStatus(k, p, st)
      PROVE  IInv'
  BY <1>3, StepUpdateSaleStatus
<1>4. ASSUME NEW p \in Payments, NEW k \in Slots, RejectSale(k, p) \/ RejectPay(k, p)
      PROVE  IInv'
  BY <1>4, StepReject DEF RejectSale, RejectPay
<1>5. ASSUME NEW u \in Uuids, DetailsCallback(u) PROVE IInv'
  <2>1. UNCHANGED <<status, auth, signed, told, foreign, task, amount, vote, pool>>
    BY <1>5 DEF DetailsCallback, OthersSame
  <2>2. task' \in [Slots -> TaskType] /\ TasksOK'
    BY <2>1, TasksStay
  <2>3. SuccessEarned' /\ AuthCounted'
    BY <2>1, SuccessKept, AuthKept
  <2> QED BY <2>1, <2>2, <2>3 DEF IInv, TypeOK
<1> QED BY <1>1, <1>2, <1>3, <1>4, <1>5, StepExpire DEF SaleArrival

LEMMA StepSale ==
    ASSUME IInv, OthersSame, NEW k \in Slots, SaleStep(k)
    PROVE  IInv'
  BY StepPlain, StepDetailsSample, StepStatus, StepSaleMulticastReply DEF SaleStep

-----------------------------------------------------------------------------
(* The authorization                                                         *)

LEMMA StepAuthRequest ==
    ASSUME IInv, NEW k \in Slots,
           \/ \E p \in Payments : AuthRequest(k, p)
           \/ AuthAmount(k) \/ AuthTx(k) \/ AuthPid(k)
    PROVE  IInv'
<1> USE DEF NetSame, ContextSame
<1>1. ASSUME NEW p \in Payments, AuthRequest(k, p) PROVE IInv'
  BY <1>1, BeginStep DEF AuthRequest, Begin, Places, Known
<1>2. CASE AuthAmount(k)
  BY <1>2, MoveStep DEF AuthAmount, Places, Known
<1>3. CASE AuthTx(k)
  BY <1>3, MoveStep DEF AuthTx, Places, Known
<1>4. CASE AuthPid(k)
  BY <1>4, MoveStep DEF AuthPid, Places, Known, Waiting
<1> QED BY <1>1, <1>2, <1>3, <1>4

LEMMA StepAuthResponse ==
    ASSUME IInv, NEW k \in Slots, NEW p \in Payments, NEW s \in Sn,
           NEW r \in {"Approved", "Rejected"}, AuthResponse(k, p, s, r)
    PROVE  IInv'
<1>1. UNCHANGED <<status, auth, signed, told, foreign, amount, vote, pool>> /\ OthersSame
  BY DEF AuthResponse, ContextSame, NetSame, OthersSame
<1> DEFINE t == [task[k] EXCEPT !.at = "VoteRead", !.p = p, !.sn = s, !.res = r]
<1>2. task \in [Slots -> TaskType] /\ task[k] \in TaskType /\ "VoteRead" \in Places
  BY DEF IInv, TypeOK, Places, Known
<1>3. task' = [task EXCEPT ![k] = t]
  BY <1>2 DEF AuthResponse
<1>4. t \in TaskType /\ t.at = "VoteRead" /\ t.p = p /\ t.sn = s /\ t.res = r
  BY <1>2 DEF TaskType
<1> HIDE DEF t
<1>5. PICK u \in TaskType : u = t
  BY <1>4
<1>6. TaskOK(u)
  BY <1>4, <1>5 DEF AuthResponse, validateAuthResponse, TaskOK
<1>7. TaskOK(u)'
  BY <1>1, <1>6, TaskKept
<1> QED BY <1>1, <1>3, <1>5, <1>7, QuietStep

\* A result that was not counted before is counted with what its supernode signed.
LEMMA StepVoteRead ==
    ASSUME IInv, NEW k \in Slots, VoteRead(k)
    PROVE  IInv'
<1>1. UNCHANGED <<status, auth, signed, told, foreign, amount, vote, pool>> /\ OthersSame
  BY DEF VoteRead, ContextSame, NetSame, OthersSame
<1>2. /\ task \in [Slots -> TaskType] /\ task[k] \in TaskType /\ TaskOK(task[k])
      /\ auth \in [Payments -> AuthType] /\ AuthCounted
      /\ "VoteStore" \in Places /\ task[k].at = "VoteRead"
      /\ vote \in [Payments -> [Sn -> {"Approved", "Rejected"}]]
  BY DEF IInv, TypeOK, TasksOK, Places, Known, VoteRead, At
<1>3. PICK p \in Payments, s \in Sn : p = task[k].p /\ s = task[k].sn
  BY <1>2 DEF TaskType
<1>4. PICK a \in AuthType : a = auth[p]
  BY <1>2
<1>5. CASE alreadyVoted(a, s)
  <2>1. Done(k)
    BY <1>3, <1>4, <1>5 DEF VoteRead
  <2>2. "idle" \in Places /\ "idle" \notin Known
    BY DEF Places, Known
  <2> QED BY <1>1, <2>1, <2>2, MoveStep
<1>6. CASE ~alreadyVoted(a, s)
  <2> DEFINE b == IF task[k].res = "Approved"
                  THEN [a EXCEPT !.approved = Append(@, s)]
                  ELSE [a EXCEPT !.rejected = Append(@, s)]
             t == [task[k] EXCEPT !.at = "VoteStore", !.auth = b]
  <2>1. /\ a.approved \in Seq(Sn) /\ a.rejected \in Seq(Sn)
        /\ a = [approved |-> a.approved, rejected |-> a.rejected]
    BY DEF AuthType
  <2>2. b \in AuthType
    <3>1. Append(a.approved, s) \in Seq(Sn) /\ Append(a.rejected, s) \in Seq(Sn)
      BY <2>1
    <3>2. [a EXCEPT !.approved = Append(@, s)] \in AuthType
      BY <2>1, <3>1 DEF AuthType
    <3>3. [a EXCEPT !.rejected = Append(@, s)] \in AuthType
      BY <2>1, <3>1 DEF AuthType
    <3> QED BY <3>2, <3>3
  <2>3. Counted(p, b)
    <3>1. Counted(p, a)
      BY <1>2, <1>4 DEF AuthCounted
    <3>2. CASE task[k].res = "Approved"
      <4>1. b.approved = Append(a.approved, s)
        BY <2>1, <3>2
      <4>2. vote[p][s] = "Approved"
        BY <1>2, <1>3, <3>2 DEF TaskOK
      <4>3. \A i \in DOMAIN a.approved : a.approved[i] # s
        BY <1>6 DEF alreadyVoted, Range
      <4>4. /\ DOMAIN a.approved = 1 .. Len(a.approved) /\ Len(a.approved) \in Nat
            /\ DOMAIN Append(a.approved, s) = 1 .. Len(a.approved) + 1
            /\ \A i \in 1 .. Len(a.approved) : Append(a.approved, s)[i] = a.approved[i]
            /\ Append(a.approved, s)[Len(a.approved) + 1] = s
        BY <2>1
      <4>5. \A i \in 1 .. Len(a.approved) + 1 :
               i \in 1 .. Len(a.approved) \/ i = Len(a.approved) + 1
        BY <4>4
      <4> HIDE DEF b
      <4>6. \A i \in DOMAIN b.approved : vote[p][b.approved[i]] = "Approved"
        BY <3>1, <4>1, <4>2, <4>4, <4>5 DEF Counted
      <4>7. \A i, j \in DOMAIN b.approved : i # j => b.approved[i] # b.approved[j]
        BY <3>1, <4>1, <4>3, <4>4, <4>5 DEF Counted
      <4> QED BY <4>6, <4>7 DEF Counted
    <3>3. CASE task[k].res # "Approved"
      <4>1. b.approved = a.approved
        BY <2>1, <3>3
      <4> HIDE DEF b
      <4> QED BY <3>1, <4>1 DEF Counted
    <3> QED BY <3>2, <3>3
  <2>4. task' = [task EXCEPT ![k] = t]
    BY <1>2, <1>3, <1>4, <1>6 DEF VoteRead
  <2> HIDE DEF b
  <2>5. t \in TaskType /\ t.at = "VoteStore" /\ t.p = p /\ t.auth = b
    BY <1>2, <1>3, <2>2 DEF TaskType
  <2> HIDE DEF t
  <2>6. PICK u \in TaskType : u = t
    BY <2>5
  <2>7. TaskOK(u)
    BY <2>3, <2>5, <2>6 DEF TaskOK
  <2>8. TaskOK(u)'
    BY <1>1, <2>7, TaskKept
  <2> QED BY <1>1, <2>4, <2>6, <2>8, QuietStep
<1> QED BY <1>5, <1>6

\* The other steps of a handler keep what it knows of the results.
LEMMA KnownMove ==
    ASSUME IInv, NEW k \in Slots, NEW l \in Places, Goto(k, l),
           UNCHANGED <<amount, vote, foreign>>, pool \subseteq pool',
           l \in {"VoteAmount", "VoteCount", "VotePush"},
           task[k].at \in {"VoteStore", "VoteAmount", "VoteCount"},
           l = "VotePush" =>
              /\ Len(task[k].auth.approved) >= VotesToApprove(amount[task[k].p])
              /\ task[k].auth.rejected = <<>>
    PROVE  \E t \in TaskType : task' = [task EXCEPT ![k] = t] /\ TaskOK(t)'
<1>1. TypeOK /\ TaskOK(task[k])
  BY DEF IInv, TasksOK
<1>2. PICK t \in TaskType : /\ task' = [task EXCEPT ![k] = t] /\ t.at = l
                            /\ t.p = task[k].p /\ t.auth = task[k].auth
  BY <1>1, MoveType
<1>3. TaskOK(t)
  BY <1>1, <1>2 DEF TaskOK
<1>4. TaskOK(t)'
  BY <1>3, TaskKept
<1> QED BY <1>2, <1>4

LEMMA StepVoteStore ==
    ASSUME IInv, NEW k \in Slots, VoteStore(k)
    PROVE  IInv'
<1>1. /\ UNCHANGED <<status, signed, told, foreign, amount, vote, pool>>
      /\ Goto(k, "VoteAmount") /\ task[k].at = "VoteStore"
      /\ auth' = [auth EXCEPT ![task[k].p] = task[k].auth]
  BY DEF VoteStore, NetSame, OthersSame, At
<1>2. "VoteAmount" \in Places
  BY DEF Places, Known
<1>3. PICK t \in TaskType : task' = [task EXCEPT ![k] = t] /\ TaskOK(t)'
  BY <1>1, <1>2, KnownMove
<1>4. task' \in [Slots -> TaskType] /\ TasksOK'
  BY <1>1, <1>3, TaskStep
<1>5. /\ task[k] \in TaskType /\ TaskOK(task[k]) /\ task[k].p \in Payments
      /\ task[k].auth \in AuthType /\ auth \in [Payments -> AuthType] /\ AuthCounted /\ TypeOK
  BY DEF IInv, TypeOK, TasksOK, TaskType
<1>6. AuthCounted'
  <2>1. ASSUME NEW p \in Payments PROVE Counted(p, auth[p])'
    <3>1. Counted(p, auth'[p])
      BY <1>1, <1>5 DEF AuthCounted, TaskOK
    <3> QED BY <1>1, <3>1 DEF Counted
  <2> QED BY <2>1 DEF AuthCounted
<1>7. TypeOK'
  BY <1>1, <1>4, <1>5 DEF TypeOK
<1>8. SuccessEarned'
  BY <1>1, SuccessKept
<1> QED BY <1>4, <1>6, <1>7, <1>8 DEF IInv

LEMMA StepVoteCount ==
    ASSUME IInv, NEW k \in Slots, VoteAmount(k) \/ VoteCount(k)
    PROVE  IInv'
<1>1. UNCHANGED <<status, auth, signed, told, foreign, amount, vote, pool>> /\ OthersSame
  BY DEF VoteAmount, VoteCount, ContextSame, NetSame, OthersSame
<1>2. CASE Done(k) \/ Goto(k, "VoteFail")
  BY <1>1, <1>2, MoveStep DEF Places, Known
<1>3. CASE VoteAmount(k) /\ Goto(k, "VoteCount")
  <2>1. "VoteCount" \in Places /\ task[k].at = "VoteAmount"
    BY <1>3 DEF Places, Known, VoteAmount, At
  <2> QED BY <1>1, <1>3, <2>1, KnownMove, QuietStep
<1>4. CASE /\ VoteCount(k) /\ Goto(k, "VotePush")
           /\ Len(task[k].auth.rejected) < RTA_VOTES_TO_REJECT
           /\ Len(task[k].auth.approved) >= VotesToApprove(amount[task[k].p])
  <2>1. "VotePush" \in Places /\ task[k].at = "VoteCount"
    BY <1>4 DEF Places, Known, VoteCount, At
  <2>2. task[k].auth.rejected \in Seq(Sn)
    BY DEF IInv, TypeOK, TaskType, AuthType
  <2>3. task[k].auth.rejected = <<>>
    BY <1>4, <2>2 DEF RTA_VOTES_TO_REJECT
  <2> QED BY <1>1, <1>4, <2>1, <2>3, KnownMove, QuietStep
<1> QED BY <1>2, <1>3, <1>4 DEF VoteAmount, VoteCount

LEMMA StepVoteFail ==
    ASSUME IInv, NEW k \in Slots, VoteFail(k)
    PROVE  IInv'
<1>1. /\ UNCHANGED <<auth, told, foreign>> /\ OthersSame /\ Goto(k, "RejectBroadcast")
      /\ status' = [status EXCEPT ![task[k].p] = "Fail"]
      /\ signed' = signed \cup {<<task[k].p, "Fail">>}
  BY DEF VoteFail, SetStatus
<1>2. TypeOK /\ task[k].p \in Payments /\ "Fail" \in RTAStatus
  BY DEF IInv, TypeOK, TaskType, RTAStatus
<1>3. "RejectBroadcast" \in Places /\ "RejectBroadcast" \notin Known
  BY DEF Places, Known, Waiting
<1>4. PICK t \in TaskType : task' = [task EXCEPT ![k] = t] /\ t.at = "RejectBroadcast"
  BY <1>1, <1>2, <1>3, MoveType
<1>5. TaskOK(t)'
  BY <1>3, <1>4, UnknownOK
<1>6. \A q \in Payments : <<q, "Success">> \in signed' => <<q, "Success">> \in signed
  BY <1>1
<1> QED BY <1>1, <1>2, <1>4, <1>5, <1>6, StatusStep

\* Success is the answer to a transaction the pool has taken.
LEMMA StepTxPush ==
    ASSUME IInv, NEW k \in Slots, TxPush(k) \/ TxPushUnanswered(k)
    PROVE  IInv'
<1>1. /\ UNCHANGED <<status, auth, signed, told, foreign, amount, vote>> /\ pool \subseteq pool'
  BY DEF TxPush, TxPushUnanswered, ContextSame, NetSame
<1>2. task \in [Slots -> TaskType] /\ task[k] \in TaskType /\ "PushStatus" \in Places /\ TypeOK
  BY DEF IInv, TypeOK, Places, Known
<1>3. \E t \in TaskType : task' = [task EXCEPT ![k] = t] /\ TaskOK(t)'
  <2>1. CASE TxPushUnanswered(k)
    <3>1. TaskOK(Idle)'
      BY IdleTask, UnknownOK DEF Known
    <3> QED BY <2>1, <3>1, IdleTask DEF TxPushUnanswered, Done
  <2>2. CASE TxPush(k)
    <3>1. PICK st \in RTAStatus :
             /\ task' = [task EXCEPT ![k].at = "PushStatus", ![k].new = st]
             /\ st = "Success" => task[k].p \in pool'
      BY <2>2 DEF TxPush, RTAStatus
    <3> DEFINE t == [task[k] EXCEPT !.at = "PushStatus", !.new = st]
    <3>2. /\ task' = [task EXCEPT ![k] = t]
          /\ t \in TaskType /\ t.at = "PushStatus" /\ t.new = st /\ t.p = task[k].p
      BY <1>2, <3>1 DEF TaskType
    <3> HIDE DEF t
    <3>3. PICK u \in TaskType : u = t
      BY <3>2
    <3>4. TaskOK(u)'
      BY <3>1, <3>2, <3>3 DEF TaskOK, Earned
    <3> QED BY <3>2, <3>3, <3>4
  <2> QED BY <2>1, <2>2
<1>4. task' \in [Slots -> TaskType] /\ TasksOK'
  BY <1>1, <1>3, TaskStep
<1>5. AuthCounted' /\ SuccessEarned'
  BY <1>1, AuthKept, SuccessKept
<1>6. TypeOK'
  BY <1>1, <1>2, <1>4 DEF TypeOK
<1> QED BY <1>4, <1>5, <1>6 DEF IInv

LEMMA StepPushStatus ==
    ASSUME IInv, NEW k \in Slots, PushStatus(k)
    PROVE  IInv'
<1>1. /\ UNCHANGED <<status, auth, told, foreign, amount, vote, pool>>
      /\ task[k].at = "PushStatus"
      /\ signed' = signed \/ signed' = signed \cup {<<task[k].p, task[k].new>>}
      /\ Goto(k, "VoteBroadcast") \/ Done(k)
  BY DEF PushStatus, ContextSame, OthersSame, At
<1>2. TypeOK /\ "VoteBroadcast" \in Places /\ "VoteBroadcast" \notin Known /\ TaskOK(task[k])
  BY DEF IInv, TasksOK, Places, Known, Waiting
<1>3. \E t \in TaskType : task' = [task EXCEPT ![k] = t] /\ TaskOK(t)'
  <2>1. CASE Done(k)
    <3>1. TaskOK(Idle)'
      BY IdleTask, UnknownOK DEF Known
    <3> QED BY <2>1, <3>1, IdleTask DEF Done
  <2>2. CASE Goto(k, "VoteBroadcast")
    <3>1. PICK t \in TaskType : task' = [task EXCEPT ![k] = t] /\ t.at = "VoteBroadcast"
      BY <1>2, <2>2, MoveType
    <3>2. TaskOK(t)'
      BY <1>2, <3>1, UnknownOK
    <3> QED BY <3>1, <3>2
  <2> QED BY <1>1, <2>1, <2>2
<1>4. task' \in [Slots -> TaskType] /\ TasksOK'
  BY <1>1, <1>3, TaskStep
<1>5. ASSUME NEW q \in Payments, <<q, "Success">> \in signed'
      PROVE  <<q, "Success">> \in signed \/ Earned(q)'
  <2>1. CASE q = task[k].p /\ task[k].new = "Success"
    BY <1>1, <1>2, <2>1 DEF TaskOK, Earned
  <2>2. CASE ~(q = task[k].p /\ task[k].new = "Success")
    BY <1>1, <1>5, <2>2
  <2> QED BY <2>1, <2>2
<1>6. AuthCounted' /\ SuccessEarned'
  BY <1>1, <1>5, AuthKept, SuccessKept
<1>7. TypeOK'
  BY <1>1, <1>2, <1>4 DEF TypeOK
<1> QED BY <1>4, <1>6, <1>7 DEF IInv

-----------------------------------------------------------------------------

LEMMA InitIInv == Init => IInv
<1> SUFFICES ASSUME Init PROVE IInv
  OBVIOUS
<1>1. /\ status = [p \in Payments |-> "None"] /\ auth = [p \in Payments |-> NoAuth]
      /\ task = [k \in Slots |-> Idle] /\ told = {} /\ signed = {}
      /\ amount \in [Payments -> Amounts] /\ vote \in [Payments -> Votes]
  BY DEF Init, SaleInit
<1>2. TypeOK
  BY <1>1, IdleTask, VotesAssumption DEF TypeOK, RTAStatus
<1>3. AuthCounted
  BY <1>1 DEF AuthCounted, Counted, NoAuth
<1>4. TaskOK(Idle)
  BY IdleTask, UnknownOK DEF Known
<1>5. TasksOK
  BY <1>1, <1>4 DEF TasksOK
<1>6. SuccessEarned
  BY <1>1 DEF SuccessEarned
<1> QED BY <1>2, <1>3, <1>5, <1>6 DEF IInv

LEMMA StepIInv == IInv /\ [Next]_vars => IInv'
<1> SUFFICES ASSUME IInv, [Next]_vars PROVE IInv'
  OBVIOUS
<1>1. ASSUME NEW k \in Slots, Step(k) PROVE IInv'
  BY <1>1, StepSale, StepAuthRequest, StepVoteRead, StepVoteStore, StepVoteCount, StepVoteFail,
     StepTxPush, StepPushStatus DEF Step, AuthStep
<1>2. CASE SaleArrival /\ OthersSame
  BY <1>2, StepArrival
<1>3. ASSUME NEW k \in Slots, NEW p \in Payments,
             \/ AuthRequest(k, p)
             \/ \E s \in Sn, r \in {"Approved", "Rejected"} : AuthResponse(k, p, s, r)
      PROVE  IInv'
  BY <1>3, StepAuthRequest, StepAuthResponse
<1>4. CASE UNCHANGED vars
  <2>1. UNCHANGED <<status, auth, signed, told, foreign, task, amount, vote, pool>>
    BY <1>4 DEF vars, saleVars
  <2>2. task' \in [Slots -> TaskType] /\ TasksOK'
    BY <2>1, TasksStay
  <2>3. SuccessEarned' /\ AuthCounted'
    BY <2>1, SuccessKept, AuthKept
  <2> QED BY <2>1, <2>2, <2>3 DEF IInv, TypeOK
<1> QED BY <1>1, <1>2, <1>3, <1>4 DEF Next

\* The inductive invariant holds of every reachable state.
THEOREM Invariance == Spec => []IInv
  BY InitIInv, StepIInv, PTL DEF Spec

\* However results are ordered, repeated, lost or handled at the same time, a transaction
\* goes to the cryptonode only with enough approvals signed with different keys.
THEOREM QuorumPushed == Spec => []PushHasQuorum
<1>1. IInv => PushHasQuorum
  BY DEF IInv, TasksOK, TaskOK, Counted, PushHasQuorum, At
<1> QED BY <1>1, Invariance, PTL

\* Success is never stored, broadcast or told before the pool has the transaction or another
\* supernode says so, in an update it signs or in a sale it sends.
THEOREM SuccessIsEarned == Spec => []SuccessEarned
<1>1. IInv => SuccessEarned
  BY DEF IInv
<1> QED BY <1>1, Invariance, PTL

-----------------------------------------------------------------------------
(* Updates.  The IO thread is in one of them at a time; while it is, no other *)
(* one has stored a finite status.                                           *)

Updating(k) == task[k].at = "UpdateSet"

OneUpdate == \A j, k \in Slots : Updating(j) /\ Updating(k) => j = k

FirstOfUpdates ==
    \A k \in Slots : Updating(k) => ~(task[k].p \in updated /\ isFiniteRtaStatus(status[task[k].p]))

UInv == OneUpdate /\ FirstOfUpdates

\* Some request other than an update goes on, arrives or ends.
NoNewUpdate(k) ==
    \E t \in TaskType : task' = [task EXCEPT ![k] = t] /\ t.at # "UpdateSet"

\* A status is stored by something that is not an update.
Overwritten(p) ==
    \E st \in RTAStatus : SetStatus(p, st)

StatusSame == UNCHANGED <<status, updated>>

LEMMA MovesOn ==
    ASSUME TypeOK, NEW k \in Slots,
           Done(k) \/ \E l \in Places \ {"UpdateSet"} : Goto(k, l)
    PROVE  NoNewUpdate(k)
  BY IdleTask, MoveType DEF Done, NoNewUpdate

LEMMA EntryMoves ==
    ASSUME TypeOK, NEW k \in Slots, NEW l \in Places, l # "UpdateSet",
           NEW p \in Payments, NEW new \in RTAStatus, NEW s \in Sn,
           NEW r \in {"Approved", "Rejected"}, NEW a \in AuthType, NEW u \in Uuids,
           \/ task' = [task EXCEPT ![k].at = l, ![k].p = p]
           \/ task' = [task EXCEPT ![k].at = l, ![k].p = p, ![k].new = new]
           \/ task' = [task EXCEPT ![k].at = l, ![k].p = p, ![k].sn = s, ![k].res = r]
           \/ task' = [task EXCEPT ![k].at = l, ![k].new = new]
           \/ task' = [task EXCEPT ![k].at = l, ![k].auth = a]
           \/ task' = [task EXCEPT ![k].at = l, ![k].uuid = u]
    PROVE  NoNewUpdate(k)
<1>1. task \in [Slots -> TaskType] /\ task[k] \in TaskType
  BY DEF TypeOK
<1>2. /\ [task[k] EXCEPT !.at = l, !.p = p] \in TaskType
      /\ [task[k] EXCEPT !.at = l, !.p = p, !.new = new] \in TaskType
      /\ [task[k] EXCEPT !.at = l, !.p = p, !.sn = s, !.res = r] \in TaskType
      /\ [task[k] EXCEPT !.at = l, !.new = new] \in TaskType
      /\ [task[k] EXCEPT !.at = l, !.auth = a] \in TaskType
      /\ [task[k] EXCEPT !.at = l, !.uuid = u] \in TaskType
  BY <1>1 DEF TaskType
<1>3. /\ [task[k] EXCEPT !.at = l, !.p = p].at = l
      /\ [task[k] EXCEPT !.at = l, !.p = p, !.new = new].at = l
      /\ [task[k] EXCEPT !.at = l, !.p = p, !.sn = s, !.res = r].at = l
      /\ [task[k] EXCEPT !.at = l, !.new = new].at = l
      /\ [task[k] EXCEPT !.at = l, !.auth = a].at = l
      /\ [task[k] EXCEPT !.at = l, !.uuid = u].at = l
  BY <1>1 DEF TaskType
<1>4. \E t \in {[task[k] EXCEPT !.at = l, !.p = p],
                [task[k] EXCEPT !.at = l, !.p = p, !.new = new],
                [task[k] EXCEPT !.at = l, !.p = p, !.sn = s, !.res = r],
                [task[k] EXCEPT !.at = l, !.new = new],
                [task[k] EXCEPT !.at = l, !.auth = a],
                [task[k] EXCEPT !.at = l, !.uuid = u]} : task' = [task EXCEPT ![k] = t]
  BY <1>1
<1> QED BY <1>2, <1>3, <1>4 DEF NoNewUpdate

\* A request that is no update leaves the updates as they are.
LEMMA OtherSteps ==
    ASSUME TypeOK, UInv, NEW k \in Slots, NoNewUpdate(k),
           StatusSame \/ \E p \in Payments : Overwritten(p)
    PROVE  UInv'
<1>1. task \in [Slots -> TaskType] /\ status \in [Payments -> RTAStatus]
  BY DEF TypeOK
<1>2. \A j \in Slots : Updating(j)' => Updating(j) /\ task'[j] = task[j]
  BY <1>1 DEF NoNewUpdate, Updating
<1>3. OneUpdate'
  BY <1>2 DEF UInv, OneUpdate
<1>4. \A q \in Payments : q \in updated' => q \in updated /\ status'[q] = status[q]
  BY <1>1 DEF StatusSame, Overwritten, SetStatus
<1>5. \A j \in Slots : task[j].p \in Payments
  BY <1>1 DEF TaskType
<1>6. FirstOfUpdates'
  BY <1>2, <1>4, <1>5 DEF UInv, FirstOfUpdates, isFiniteRtaStatus
<1> QED BY <1>3, <1>6 DEF UInv

LEMMA NoTask ==
    ASSUME TypeOK, UInv, UNCHANGED task, StatusSame \/ \E p \in Payments : Overwritten(p)
    PROVE  UInv'
<1>1. task \in [Slots -> TaskType] /\ status \in [Payments -> RTAStatus]
  BY DEF TypeOK
<1>2. \A q \in Payments : q \in updated' => q \in updated /\ status'[q] = status[q]
  BY <1>1 DEF StatusSame, Overwritten, SetStatus
<1>3. \A j \in Slots : task[j].p \in Payments
  BY <1>1 DEF TaskType
<1> QED BY <1>2, <1>3 DEF UInv, OneUpdate, FirstOfUpdates, Updating, isFiniteRtaStatus

\* The steps of a request that store no status.
LEMMA QuietSteps ==
    ASSUME IInv, NEW k \in Slots, Step(k), ~UpdateSet(k)
    PROVE  NoNewUpdate(k) /\ (StatusSame \/ \E p \in Payments : Overwritten(p))
<1> USE DEF Places, Known, Waiting
<1>1. /\ TypeOK /\ task[k] \in TaskType /\ task[k].p \in Payments /\ task[k].new \in RTAStatus
      /\ task[k].sn \in Sn /\ task[k].res \in {"Approved", "Rejected"}
      /\ task[k].auth \in AuthType /\ task[k].uuid \in Uuids
  BY DEF IInv, TypeOK, TaskType
<1>2. CASE \/ UpstreamFails(k) \/ LastReply(k) \/ SaleSample(k) \/ SaleStore(k)
           \/ SaleMulticastReply(k) \/ MulticastStore(k) \/ MulticastDetails(k)
           \/ DetailsCached(k) \/ DetailsSale(k) \/ UnicastAcknowledge(k)
           \/ DetailsResume(k) \/ DetailsStore(k) \/ DetailsRemove(k) \/ PostponeExpired(k)
           \/ ServeSale(k)
  <2>1. StatusSame
    BY <1>2 DEF StatusSame, ContextSame, UpstreamFails, LastReply, SaleSample, SaleStore,
       SaleMulticastReply, MulticastStore, MulticastDetails, DetailsCached, DetailsSale,
       UnicastAcknowledge, DetailsResume, DetailsStore, DetailsRemove, PostponeExpired, ServeSale
  <2>2. Done(k) \/ \E l \in Places \ {"UpdateSet"} : Goto(k, l)
    BY <1>2 DEF UpstreamFails, LastReply, SaleSample, SaleStore,
       SaleMulticastReply, MulticastStore, MulticastDetails, DetailsCached, DetailsSale,
       UnicastAcknowledge, DetailsResume, DetailsStore, DetailsRemove, PostponeExpired, ServeSale
  <2> QED BY <1>1, <2>1, <2>2, MovesOn
<1>3. CASE DetailsSample(k)
  <2>1. StatusSame
    BY <1>3 DEF StatusSame, ContextSame, DetailsSample
  <2>2. CASE Done(k) \/ Goto(k, "DetailsSale")
    BY <1>1, <2>1, <2>2, MovesOn
  <2>3. ASSUME NEW u \in Uuids,
               task' = [task EXCEPT ![k].at = "DetailsUnicast", ![k].uuid = u]
        PROVE  NoNewUpdate(k)
    BY <1>1, <2>3, EntryMoves
  <2> QED BY <1>3, <2>1, <2>2, <2>3 DEF DetailsSample
<1>4. CASE SaleWaiting(k) \/ MulticastStatus(k) \/ RejectSet(k) \/ VoteFail(k)
  <2>1. Done(k) \/ \E l \in Places \ {"UpdateSet"} : Goto(k, l)
    BY <1>4 DEF SaleWaiting, MulticastStatus, RejectSet, VoteFail
  <2>2. "Waiting" \in RTAStatus /\ "Fail" \in RTAStatus
    BY DEF RTAStatus
  <2>3. Overwritten(task[k].p)
    BY <1>1, <1>4, <2>2 DEF SaleWaiting, MulticastStatus, RejectSet, VoteFail, Overwritten
  <2> QED BY <1>1, <2>1, <2>3, MovesOn
<1>5. CASE AuthAmount(k) \/ AuthTx(k) \/ AuthPid(k) \/ VoteStore(k) \/ VoteAmount(k)
           \/ VoteCount(k) \/ PushStatus(k) \/ TxPushUnanswered(k)
  <2>1. StatusSame
    BY <1>5 DEF StatusSame, ContextSame, AuthAmount, AuthTx, AuthPid, VoteStore, VoteAmount,
       VoteCount, PushStatus, TxPushUnanswered
  <2>2. Done(k) \/ \E l \in Places \ {"UpdateSet"} : Goto(k, l)
    BY <1>5 DEF AuthAmount, AuthTx, AuthPid, VoteStore, VoteAmount, VoteCount, PushStatus,
       TxPushUnanswered
  <2> QED BY <1>1, <2>1, <2>2, MovesOn
<1>6. CASE VoteRead(k)
  <2>1. StatusSame
    BY <1>6 DEF StatusSame, ContextSame, VoteRead
  <2>2. CASE Done(k)
    BY <1>1, <2>1, <2>2, MovesOn
  <2>3. CASE ~Done(k)
    <3>1. PICK a \in AuthType, s \in Sn : a = auth[task[k].p] /\ s = task[k].sn
      BY <1>1 DEF TypeOK
    <3>2. /\ [a EXCEPT !.approved = Append(@, s)] \in AuthType
          /\ [a EXCEPT !.rejected = Append(@, s)] \in AuthType
      <4>1. Append(a.approved, s) \in Seq(Sn) /\ Append(a.rejected, s) \in Seq(Sn)
        BY DEF AuthType
      <4> QED BY <4>1 DEF AuthType
    <3>3. \E b \in AuthType : task' = [task EXCEPT ![k].at = "VoteStore", ![k].auth = b]
      BY <1>6, <2>3, <3>1, <3>2 DEF VoteRead
    <3> QED BY <1>1, <2>1, <3>3, EntryMoves
  <2> QED BY <2>2, <2>3
<1>7. CASE TxPush(k)
  <2>1. StatusSame
    BY <1>7 DEF StatusSame, ContextSame, TxPush
  <2>2. PICK st \in RTAStatus : task' = [task EXCEPT ![k].at = "PushStatus", ![k].new = st]
    BY <1>7 DEF TxPush, RTAStatus
  <2> QED BY <1>1, <2>1, <2>2, EntryMoves
<1> QED BY <1>2, <1>3, <1>4, <1>5, <1>6, <1>7 DEF Step, SaleStep, AuthStep

LEMMA StepUInv == IInv /\ UInv /\ [Next]_vars => UInv'
<1> SUFFICES ASSUME IInv, UInv, [Next]_vars PROVE UInv'
  OBVIOUS
<1> USE DEF Places, Known
<1>1. /\ TypeOK /\ task \in [Slots -> TaskType] /\ status \in [Payments -> RTAStatus]
      /\ \A k \in Slots : task[k] \in TaskType /\ task[k].p \in Payments
  BY DEF IInv, TypeOK, TaskType
<1>2. ASSUME NEW k \in Slots, UpdateSet(k) PROVE UInv'
  <2>1. \A j \in Slots : ~Updating(j)'
    BY <1>1, <1>2, IdleTask DEF UpdateSet, At, Done, UInv, OneUpdate, Updating
  <2> QED BY <2>1 DEF UInv, OneUpdate, FirstOfUpdates
<1>3. ASSUME NEW k \in Slots, Step(k) PROVE UInv'
  BY <1>1, <1>2, <1>3, QuietSteps, OtherSteps
<1>4. ASSUME NEW k \in Slots, NEW p \in Payments, NEW st \in RTAStatus,
             UpdateSaleStatus(k, p, st)
      PROVE  UInv'
  <2>1. /\ \A j \in Slots : ~Updating(j)
        /\ ~isFiniteRtaStatus(status[p]) /\ status' = status
        /\ task' = [task EXCEPT ![k].at = "UpdateSet", ![k].p = p, ![k].new = st]
    BY <1>4 DEF UpdateSaleStatus, IoFree, At, Updating, ContextSame
  <2>2. \A j \in Slots : Updating(j)' => j = k
    BY <1>1, <2>1 DEF Updating
  <2>3. task'[k].p = p
    BY <1>1, <2>1 DEF TaskType
  <2> QED BY <2>1, <2>2, <2>3 DEF UInv, OneUpdate, FirstOfUpdates, isFiniteRtaStatus
<1>5. ASSUME NEW p \in Payments, SaleStatus(p) \/ PayStatus(p) PROVE UInv'
  BY <1>1, <1>5, NoTask DEF SaleStatus, PayStatus, StatusRequest, ContextSame, StatusSame
<1>6. ASSUME NEW p \in Payments, NEW k \in Slots,
             \/ Sale(k, p) \/ SaleCryptonode(k, p) \/ SaleDetails(k, p) \/ DetailsServe(k, p)
             \/ AuthRequest(k, p)
      PROVE  UInv'
  <2>1. StatusSame
    BY <1>6 DEF Sale, SaleCryptonode, SaleDetails, DetailsServe, AuthRequest, ContextSame,
       StatusSame
  <2>2. \E l \in Places \ {"UpdateSet"} : task' = [task EXCEPT ![k].at = l, ![k].p = p]
    BY <1>6 DEF Sale, SaleCryptonode, SaleDetails, DetailsServe, AuthRequest, Begin
  <2>3. NoNewUpdate(k)
    <3>1. PICK l \in Places \ {"UpdateSet"} : task' = [task EXCEPT ![k].at = l, ![k].p = p]
      BY <2>2
    <3>2. PICK t \in TaskType : t = task[k]
      BY <1>1
    <3>3. /\ t.new \in RTAStatus /\ t.sn \in Sn /\ t.res \in {"Approved", "Rejected"}
          /\ t.auth \in AuthType /\ t.uuid \in Uuids
      BY DEF TaskType
    <3>4. l \in Places /\ l # "UpdateSet"
      OBVIOUS
    <3> HIDE DEF Places
    <3> QED BY <1>1, <3>1, <3>3, <3>4, EntryMoves
  <2> QED BY <1>1, <2>1, <2>3, OtherSteps
<1>7. ASSUME NEW p \in Payments, NEW k \in Slots, NEW st \in {"RejectedByPOS", "RejectedByWallet"},
             Reject(k, p, st)
      PROVE  UInv'
  <2>1. StatusSame /\ st \in RTAStatus
    BY <1>7 DEF Reject, ContextSame, StatusSame, RTAStatus
  <2>2. task' = [task EXCEPT ![k].at = "RejectSet", ![k].p = p, ![k].new = st]
    BY <1>7 DEF Reject
  <2>3. NoNewUpdate(k)
    BY <1>1, <2>1, <2>2, EntryMoves DEF TaskType
  <2> QED BY <1>1, <2>1, <2>3, OtherSteps
<1>8. ASSUME NEW u \in Uuids, DetailsCallback(u) PROVE UInv'
  BY <1>1, <1>8, NoTask DEF DetailsCallback, StatusSame
<1>9. CASE Expire \/ ExpireResult
  <2>1. UNCHANGED task /\ (StatusSame \/ \E p \in Payments : SetStatus(p, "None"))
    BY <1>9 DEF Expire, ExpireResult, StatusSame
  <2>2. "None" \in RTAStatus
    BY DEF RTAStatus
  <2> QED BY <1>1, <2>1, <2>2, NoTask DEF Overwritten
<1>10. ASSUME NEW k \in Slots, NEW p \in Payments, NEW s \in Sn,
              NEW r \in {"Approved", "Rejected"}, AuthResponse(k, p, s, r)
       PROVE  UInv'
  <2>1. StatusSame /\ task' = [task EXCEPT ![k].at = "VoteRead", ![k].p = p, ![k].sn = s, ![k].res = r]
    BY <1>10 DEF AuthResponse, ContextSame, StatusSame
  <2>2. NoNewUpdate(k)
    BY <1>1, <2>1, EntryMoves DEF TaskType
  <2> QED BY <1>1, <2>1, <2>2, OtherSteps
<1>11. CASE SaleArrival
  BY <1>4, <1>5, <1>6, <1>7, <1>8, <1>9, <1>11 DEF SaleArrival, RejectSale, RejectPay
<1>12. CASE UNCHANGED vars
  BY <1>1, <1>12, NoTask DEF vars, saleVars, StatusSame
<1> QED BY <1>3, <1>6, <1>10, <1>11, <1>12 DEF Next

LEMMA InitUInv == Init => UInv
<1> SUFFICES ASSUME Init PROVE UInv
  OBVIOUS
<1>1. \A k \in Slots : ~Updating(k)
  BY IdleTask DEF Init, SaleInit, Updating
<1> QED BY <1>1 DEF UInv, OneUpdate, FirstOfUpdates

\* Of the updates other supernodes sign the first finite status stays: the next one was either
\* turned away by its check or has not begun.
THEOREM FirstUpdateKept == Spec => FirstUpdateStays
<1>1. Spec => []UInv
  BY InitUInv, StepUInv, Invariance, PTL DEF Spec
<1>2. ASSUME IInv, UInv, [Next]_vars, NEW p \in Payments,
             p \in updated \cap updated', isFiniteRtaStatus(status[p])
      PROVE  status'[p] = status[p]
  <2>1. \A k \in Slots : UpdateSet(k) => /\ task[k].p # p
                                         /\ status' = [status EXCEPT ![task[k].p] = task[k].new]
    BY <1>2 DEF UInv, FirstOfUpdates, Updating, UpdateSet, At
  <2>2. /\ TypeOK /\ status \in [Payments -> RTAStatus]
        /\ \A k \in Slots : task[k].p \in Payments
    BY <1>2 DEF IInv, TypeOK, TaskType
  <2>4. ASSUME NEW q \in Payments, Overwritten(q) PROVE status'[p] = status[p]
    BY <1>2, <2>2, <2>4 DEF Overwritten, SetStatus
  <2>5. ASSUME NEW k \in Slots, Step(k) PROVE status'[p] = status[p]
    BY <1>2, <2>1, <2>2, <2>4, <2>5, QuietSteps DEF StatusSame
  <2>6. CASE SaleArrival
    <3>1. CASE Expire
      <4>1. UNCHANGED status \/ \E q \in Payments : SetStatus(q, "None")
        BY <3>1 DEF Expire
      <4>2. "None" \in RTAStatus
        BY DEF RTAStatus
      <4> QED BY <2>4, <4>1, <4>2 DEF Overwritten
    <3>2. ASSUME NEW q \in Payments, SaleStatus(q) \/ PayStatus(q) PROVE UNCHANGED status
      BY <3>2 DEF SaleStatus, PayStatus, StatusRequest, ContextSame
    <3>3. ASSUME NEW q \in Payments, NEW k \in Slots,
                 \/ Sale(k, q) \/ SaleCryptonode(k, q) \/ SaleDetails(k, q) \/ DetailsServe(k, q)
                 \/ RejectSale(k, q) \/ RejectPay(k, q)
          PROVE  UNCHANGED status
      BY <3>3 DEF Sale, SaleCryptonode, SaleDetails, DetailsServe, RejectSale, RejectPay, Reject,
                  ContextSame
    <3>4. ASSUME NEW q \in Payments, NEW k \in Slots, NEW st \in RTAStatus,
                 UpdateSaleStatus(k, q, st)
          PROVE  UNCHANGED status
      BY <3>4 DEF UpdateSaleStatus, ContextSame
    <3>5. ASSUME NEW u \in Uuids, DetailsCallback(u) PROVE UNCHANGED status
      BY <3>5 DEF DetailsCallback
    <3>6. CASE ExpireResult
      BY <3>6 DEF ExpireResult
    <3> QED BY <2>6, <3>1, <3>2, <3>3, <3>4, <3>5, <3>6 DEF SaleArrival
  <2>7. ASSUME NEW k \in Slots, NEW q \in Payments,
               \/ AuthRequest(k, q)
               \/ \E s \in Sn, r \in {"Approved", "Rejected"} : AuthResponse(k, q, s, r)
        PROVE  status'[p] = status[p]
    BY <2>7 DEF AuthRequest, AuthResponse, ContextSame
  <2>8. CASE UNCHANGED vars
    BY <2>8 DEF vars, saleVars
  <2> QED BY <1>2, <2>5, <2>6, <2>7, <2>8 DEF Next
<1>3. IInv /\ UInv /\ [Next]_vars =>
         [\A p \in Payments :
             p \in updated \cap updated' /\ isFiniteRtaStatus(status[p])
                 => status'[p] = status[p]]_vars
  BY <1>2
<1> QED BY <1>1, <1>3, Invariance, PTL DEF Spec, FirstUpdateStays
=============================================================================
