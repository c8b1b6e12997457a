---------------------------- MODULE MCTaskManager ----------------------------
(* Two client connections and one periodic task.  An action sees how far its   *)
(* task has come by the last status, so a handler is a table from last status  *)
(* to the statuses it may return.                                              *)
EXTENDS TaskManager, TLC

CONSTANTS c1, c2, p

MCClients == {c1, c2}
MCPeriodics == {p}
MCNone == {}

\* What an action returns for the given last statuses, and for any other one.
Table(rows, other) == [s \in Statuses |-> IF s \in DOMAIN rows THEN rows[s] ELSE other]
Handler3(pre, worker, post) == "pre" :> pre @@ "worker" :> worker @@ "post" :> post
Unused == Table(<<>>, {"Ok"})

\* c1 may be forwarded first, then its post_action postpones it; once resumed it
\* ends with Ok.
MCAsk == Handler3(
    Table("None" :> {"Ok", "Forward", "Error"} @@ "Forward" :> {"Ok", "Drop"}, {"None"}),
    Table("Ok" :> {"Ok", "InternalError"}, {"None"}),
    Table("Ok" :> {"Postpone"} @@ "InternalError" :> {"InternalError"}, {"Ok"}))

\* c2 is the callback c1 waits for; its worker may answer and go on (Again).
MCCallback == Handler3(Unused, Table("None" :> {"Ok", "Again", "Error"}, {"Ok"}), Unused)

\* p may throw, return what the table has no row for, and forward to nowhere.
MCPeriodic == Handler3(Unused, Table(<<>>, {"Ok", "Forward", Throws}),
                       Table(<<>>, {"Ok", "Stop", "Again", "None"}))

MCHandlers == c1 :> {"pre", "worker", "post"} @@ c2 :> {"worker"} @@ p :> {"worker", "post"}
MCReturns == c1 :> MCAsk @@ c2 :> MCCallback @@ p :> MCPeriodic
MCNextTaskIds == c1 :> {} @@ c2 :> {c1} @@ p :> {}
MCBlocking == {c1, c2, p}
MCOneBlocking == {c2}
MCUnknownUri == {p}

\* The clients alone: their handlers keep the contract and end.
MCClientHandlers == [c \in MCClients |-> MCHandlers[c]]
MCClientReturns == [c \in MCClients |-> MCReturns[c]]
MCClientNextTaskIds == [c \in MCClients |-> MCNextTaskIds[c]]
=============================================================================
