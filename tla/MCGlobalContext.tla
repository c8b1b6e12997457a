--------------------------- MODULE MCGlobalContext ---------------------------
(* A key of one writer with a callback and a key that two writers set with     *)
(* different times to live, in one bucket.                                     *)
EXTENDS GlobalContext, TLC

CONSTANTS a, b, t1, t2, n1, n2, n3

MCKeys == {a, b}
MCThreads == {t1, t2}
MCNodeIds == {n1, n2, n3}
MCWriters == a :> {t1} @@ b :> {t1, t2}
MCTTLs == a :> {2} @@ b :> {0, 2}
MCValues == a :> {1, 2} @@ b :> {1}
MCWithCallback == {a}
MCGroupKeys == {a}
MCSymmetry == Permutations(MCNodeIds)
=============================================================================
