---------------------------- MODULE MCRtaPayment ----------------------------
(* One payment, three keys that sign results and two requests in flight.       *)
(* Requests arrive in groups that share state: the authorization with the      *)
(* status, updates and rejections, with a sale and with expiry; the sale with  *)
(* all that changes its status and with what other supernodes send; and the    *)
(* details of a sale.                                                          *)
EXTENDS RtaPayment, TLC

CONSTANTS p1, s1, s2, s3, k1, k2, u1, u2

MCPayments == {p1}
MCSn == {s1, s2, s3}
MCSlots == {k1, k2}
MCUuids == {u1, u2}
MCMixes == {{"auth", "vote", "multicast", "update", "status", "reject"},
            {"auth", "vote", "sale"},
            {"auth", "vote", "expiry"},
            {"sale", "multicast", "update", "status", "reject", "foreign", "expiry"},
            {"multicast", "details", "expiry"}}
MCForeign == {[updates |-> MCPayments \X {"Success", "Fail"}, sales |-> {}],
              [updates |-> {}, sales |-> MCPayments \X {"Success"}]}
MCVotes == {[s \in MCSn |-> "Approved"], [s \in MCSn |-> IF s = s3 THEN "Rejected" ELSE "Approved"]}
MCSymmetry == Permutations(MCSlots)
=============================================================================
