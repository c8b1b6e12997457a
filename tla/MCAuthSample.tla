----------------------------- MODULE MCAuthSample -----------------------------
(* The constants of the run of AuthSample. *)
EXTENDS AuthSample

CONSTANTS a, b, c, d, w, p, q

MCIds == {a, b, c, d}
MCWorkers == {w}
\* Block 1 is below the history size of 2 and falls out of the window of block 4.
MCBlocks == {1, 2, 4}
MCPayments == {p, q}

\* Tiers that are short and others that have too many; fewer and more tiers than TIERS.
OneTier == << <<a, b, c, d>> >>
FourTiers == << <<>>, <<a, b>>, <<c, d>>, <<a>> >>

MCListsOf == [n \in MCBlocks |-> CASE n = 1 -> {OneTier}
                                   [] n = 2 -> {FourTiers}
                                   [] n = 4 -> {OneTier, FourTiers}]

MCRandom(seed, k) == IF p \in seed THEN 5 * k + 3 ELSE 7 * k * k
=============================================================================
