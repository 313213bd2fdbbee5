----------------------------- MODULE MCRootGraph -----------------------------
(* Two tasks, the second waiting for the first, for TLC. *)
EXTENDS RootGraph

CONSTANTS t1, t2

MCTasks == {t1, t2}

MCDepends == [t \in MCTasks |-> IF t = t2 THEN {t1} ELSE {}]

=============================================================================
