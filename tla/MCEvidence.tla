----------------------------- MODULE MCEvidence -----------------------------
(* Instances of Evidence. *)
EXTENDS Evidence, TLC

CONSTANTS t1, t2, r1, a1, a2, x, y, base, none

MCTasks == {t1, r1}
MCPlan == {t1}
MCTeam == {t1, t2}
MCAgents == {a1, a2}
MCContents == {x, y}

\* Neither the workers nor what they write are told apart.
MCSymmetry == Permutations(MCAgents) \cup Permutations(MCContents)
=============================================================================
