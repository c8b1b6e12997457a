------------------------------ MODULE Supernodes ------------------------------
(* What the two halves of class FullSupernodeList share. *)
EXTENDS Integers

CONSTANTS
    Ids,              \* public ids of supernodes
    Workers,          \* worker threads
    Blocks            \* block numbers

ASSUME BlocksAssumption == Blocks \subseteq Nat \ {0}
=============================================================================
