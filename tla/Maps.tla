-------------------------------- MODULE Maps --------------------------------
(* A std::map as a function on its keys. *)
EXTENDS Naturals

\* The first key.
Least(s) == CHOOSE x \in s : \A y \in s : x <= y

\* emplace and erase.
With(f, x, e) == [y \in DOMAIN f \cup {x} |-> IF y = x THEN e ELSE f[y]]
Without(f, x) == [y \in DOMAIN f \ {x} |-> f[y]]
=============================================================================
