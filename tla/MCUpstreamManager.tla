-------------------------- MODULE MCUpstreamManager --------------------------
(* Two capped keep-alive items and m_default; three tasks, so that both items  *)
(* can have waiting tasks, and as many connections as tasks can ever use.      *)
EXTENDS UpstreamManager, TLC

CONSTANTS t1, t2, t3, c1, c2, c3, narrow, wide, default

MCTasks == {t1, t2, t3}
MCConns == {c1, c2, c3}
MCItems == {narrow, wide, default}
MCMaxConnections == narrow :> 1 @@ wide :> 2 @@ default :> 0
MCKeepAlive == narrow :> TRUE @@ wide :> TRUE @@ default :> FALSE
=============================================================================
