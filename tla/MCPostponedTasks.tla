--------------------------- MODULE MCPostponedTasks ---------------------------
(* Two tasks that may be postponed, resumed and postponed again, long enough   *)
(* for the deadline of a first postponement to pass during a second one.       *)
EXTENDS PostponedTasks, TLC

CONSTANTS t1, t2

MCTasks == {t1, t2}
=============================================================================
