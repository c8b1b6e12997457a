---------------------------- MODULE MCGraftServer ----------------------------
(***************************************************************************)
(* Three names and up to three files: dependencies met and not met, by     *)
(* name and by version, cycles of one, two and three, a name taken twice,  *)
(* one in the exception list, a version that is too large; two graftlets   *)
(* share an endpoint.                                                      *)
(***************************************************************************)
EXTENDS GraftServer

Lib(n, v, d) == [kind |-> "loads", name |-> n, version |-> v, deps |-> d]
Dep(n, v) == [name |-> n, minver |-> v]

MCLibraries ==
    {Lib(n, 1, {}) : n \in {1, 2}}
      \cup {Lib(n, v, {Dep(d, 1)}) : n \in {1, 2, 3}, v \in {1, 2}, d \in {1, 2}}
      \cup {Lib(1, 1, {Dep(3, 2)}), Lib(2, 1, {Dep(1, 1), Dep(3, 1)}), Lib(3, 3, {}),
            Lib(3, 1, BadFormat), Lib(3, 1, TooLarge),
            [kind |-> "throws", name |-> 1, version |-> 1, deps |-> {}],
            [kind |-> "skipped", name |-> 2, version |-> 1, deps |-> {}]}

MCExceptionList == [n \in {1, 2, 3} |-> IF n = 3 THEN {[from |-> 3, to |-> 4]} ELSE {}]
Route(p, m) == [path |-> p, methods |-> m]
MCSupernodeRoutes == <<Route("b", {"HEAD"}), Route("dapi", {"GET", "POST"})>>
MCWalletRoutes == <<Route("wallet", {"POST"})>>
MCEndpoints ==
    [n \in {1, 2, 3} |-> CASE n = 1 -> <<Route("a", {"GET"})>>
                          [] n = 2 -> <<Route("a", {"POST"}), Route("b", {"GET"})>>
                          [] n = 3 -> <<Route("b", {"GET", "PUT"})>>]
=============================================================================
