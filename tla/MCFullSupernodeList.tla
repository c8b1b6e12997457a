------------------------- MODULE MCFullSupernodeList -------------------------
(* The constants of the run of FullSupernodeList. *)
EXTENDS FullSupernodeList

CONSTANTS own, other, bad, w1, w2

MCIds == {own, other, bad}
MCValidIds == {own, other}
MCWorkers == {w1, w2}
MCBlocks == {10, 11, 12}

\* Stakes come, go and change; the id that cannot be parsed has one too.
MCStakesOf ==
    [b \in MCBlocks |->
        [i \in MCIds |-> CASE i = own -> b - 10
                           [] i = other -> IF b = 11 THEN 0 ELSE b
                           [] i = bad -> 1]]
=============================================================================
