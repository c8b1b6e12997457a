--------------------------- MODULE UpstreamService ---------------------------
(***************************************************************************)
(* What the task engine expects of its upstream side, without connections: *)
(* a task handed over with send() is pending until its outcome is          *)
(* reported, the outcome of a pending task is reported exactly once, and   *)
(* every pending task gets one.  UpstreamManager implements this.          *)
(***************************************************************************)
CONSTANT Tasks

VARIABLE pending      \* the tasks handed over whose outcome is not reported

Init == pending = {}

\* UpstreamManager::send
Send(t) ==
    /\ t \notin pending
    /\ pending' = pending \cup {t}

\* UpstreamManager::onDone reports to TaskManager::onUpstreamDone
Report(t) ==
    /\ t \in pending
    /\ pending' = pending \ {t}

Next == \E t \in Tasks : Send(t) \/ Report(t)

Spec == Init /\ [][Next]_pending /\ \A t \in Tasks : WF_pending(Report(t))
=============================================================================
