---------------------------- MODULE MCScheduler ----------------------------
EXTENDS Scheduler, TLC

CONSTANTS t1, t2, t3, a1, a2

MCTasks == {t1, t2, t3}
MCAgents == {a1, a2}
\* t1 and t2 compete; t3 consumes what t1 produces, and runs alone.
MCDeps == [t \in MCTasks |-> IF t = t3 THEN {t1} ELSE {}]
MCCanServe == [t \in MCTasks |-> MCAgents]
MCExclusive == {t3}

\* Two tasks, one of them exclusive, for the liveness check.
TwoTasks == {t1, t2}
TwoDeps == [t \in TwoTasks |-> {}]
TwoCanServe == [t \in TwoTasks |-> MCAgents]
TwoExclusive == {t2}

\* The task whose results may come without artifacts, and whose contract names one.
FirstTask == {t1}

\* The instances meet the hypotheses of the theorem about undisturbed runs.
ASSUME PlanIsServed == Staffed /\ Acyclic

AgentSymmetry == Permutations(MCAgents)
==============================================================================
