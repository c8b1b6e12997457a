----------------------------- MODULE MCBlackList -----------------------------
(***************************************************************************)
(* Addresses of four bits, the least in which two rules part below a       *)
(* prefix on the way of its zeros.  Both clients may have a rule of their  *)
(* own, one is let in by it; their first two bits are the same, so that    *)
(* their bans and rules split nodes and the end of a ban merges them.  The *)
(* rule about <<0>> is skipped when the one about <<0, 0, 0>> comes first, *)
(* which does not cover <<0, 0, 1, 0>>.                                    *)
(***************************************************************************)
EXTENDS BlackList

MCLines == {
    [prefix |-> <<0>>, allow |-> FALSE],
    [prefix |-> <<0, 0, 0>>, allow |-> TRUE],
    [prefix |-> <<0, 0, 0, 1>>, allow |-> FALSE],
    [prefix |-> <<0, 0, 1, 0>>, allow |-> TRUE]}
MCClients == {<<0, 0, 1, 0>>, <<0, 0, 0, 1>>}
=============================================================================
