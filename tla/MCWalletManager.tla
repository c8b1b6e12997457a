--------------------------- MODULE MCWalletManager ---------------------------
(***************************************************************************)
(* Three requests to one wallet, one of them with its account restored     *)
(* meanwhile, on two workers, one of which may be expelled.                *)
(***************************************************************************)
EXTENDS WalletManager, TLC

CONSTANTS w1, r1, r2, r3, a1, s1, s2

MCWalletOf == [r \in {r1, r2, r3, a1} |-> w1]

\* Requests of one wallet and holders are alike.
Symmetry == Permutations(WalletRequests) \cup Permutations(Strands)
=============================================================================
