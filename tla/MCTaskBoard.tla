----------------------------- MODULE MCTaskBoard -----------------------------
EXTENDS TaskBoard, TLC

CONSTANTS t1, t2, a1, a2

MCTasks == {t1, t2}
MCAgents == {a1, a2}
\* t2 consumes what t1 produces.
MCDeps == (t1 :> {}) @@ (t2 :> {t1})

AgentSymmetry == Permutations(MCAgents)

\* Bound: the second task gets no further than its claim, once, and only while no
\* copy is held; copies are held, and upserts lost, of the first, whose budget is
\* renewed once; an outdated copy is added once, before a second attempt is charged.
OneIsFollowed ==
    /\ \A task \in {mem[t2], row[t2]} :
         /\ task.status \in {"pending", "claimed"} /\ task.grace = 0 /\ task.attempts = 0
         /\ copies # {} => task.status = "pending"
    /\ t2 \in cached => t2 \in stored /\ mem[t2] = row[t2]
    /\ \A c \in copies : c.task = t1
    /\ revived # {} => copies = {}
    /\ copies # {} \/ revived # {} => mem[t1].attempts <= 1 /\ overdraft[t1] <= 1
    /\ mem[t1].limit <= MaxAttempts + 1
=============================================================================
