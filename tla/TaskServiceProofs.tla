------------------------- MODULE TaskServiceProofs -------------------------
(***************************************************************************)
(* The plan stays sound: whatever tools, repairs and new plans make of it, *)
(* it waits only for tasks of its own and has no cycle.  The argument is   *)
(* on sets of tasks that wait for themselves: one in the changed plan      *)
(* gives one in the plan before.                                           *)
(*                                                                         *)
(* Then the plan and the board: TaskInv says how far a call of a tool, a   *)
(* copy of the plan and a repair may be from the stored plan, and carries  *)
(* RowsMirrorPlan and BoardFollowsPlan through every step.  A repair finds *)
(* its target's record in step with the plan because the record is live    *)
(* and its dispatch is over; that is where the two depend on each other.   *)
(* CopyInv says the same of the copies of records the scheduler holds.     *)
(***************************************************************************)
EXTENDS TaskService, TLAPS

\* The graphs that a step may go on from are graphs, and sound.
Sound(g) == IsGraph(g) /\ Valid(g.deps)

PlanInv ==
    /\ Sound(stored) /\ Sound(plan) /\ Sound(copy)
    /\ mutation \in [Callers -> Mutations]

-----------------------------------------------------------------------------

\* The graph without tasks is sound: nothing waits in it.
LEMMA EmptyIsSound == Sound(NoGraph)
  <1>1. NoGraph.deps = [t \in {} |-> {}] /\ DOMAIN NoGraph.deps = {}
    BY DEF NoGraph
  <1>2. IsDeps(NoGraph.deps)
    BY <1>1 DEF IsDeps
  <1>3. IsGraph(NoGraph)
    BY <1>2 DEF IsGraph, NoGraph
  <1>4. Valid(NoGraph.deps)
    BY <1>1 DEF Valid, Closed, HasCycle
  <1> QED
    BY <1>3, <1>4 DEF Sound

\* A planner's answer is sound by the assumption on Plans.
LEMMA PlannedIsSound ==
    ASSUME NEW d \in Plans, NEW e \in Nat
    PROVE  Sound(Planned(d, e))
  <1>1. IsDeps(d) /\ Valid(d)
    BY TaskServiceAssumption
  <1> QED
    BY <1>1 DEF Sound, Planned, IsGraph

\* Other names for the tasks (_replace_plan) close no cycle: the tasks whose new
\* names wait for themselves waited for themselves before.
LEMMA RenameIsSound ==
    ASSUME Sound(stored), NEW g, Sound(g), NEW f \in Renamings(g)
    PROVE  Sound(Rename(g, f))
  <1> DEFINE D == g.deps
             R == Rename(g, f).deps
             image == {f[t] : t \in DOMAIN D}
  <1>1. /\ \A t \in DOMAIN D : f[t] \in Ids
        /\ \A t, u \in DOMAIN D : f[t] = f[u] => t = u
    BY DEF Renamings, Nodes
  <1>2. /\ DOMAIN D \subseteq Ids
        /\ \A t \in DOMAIN D : D[t] \subseteq DOMAIN D
        /\ ~HasCycle(D)
    BY DEF Sound, IsGraph, IsDeps, Valid, Closed
  <1>3. R = [u \in image |->
               UNION {{f[d] : d \in D[t]} : t \in {t \in DOMAIN D : f[t] = u}}]
    BY DEF Rename, Nodes
  <1>4. DOMAIN R = image
    BY <1>3
  <1>5. ASSUME NEW u \in image, NEW w \in R[u]
        PROVE  \E t \in DOMAIN D : f[t] = u /\ \E d \in D[t] : w = f[d]
    BY <1>3, <1>5
  <1>6. Closed(R)
    BY <1>2, <1>4, <1>5 DEF Closed
  <1>7. ~HasCycle(R)
    <2>1. SUFFICES ASSUME NEW S \in SUBSET image, S # {},
                          \A u \in S : R[u] \cap S # {}
                   PROVE  HasCycle(D)
      BY <1>2, <1>4 DEF HasCycle
    <2> DEFINE B == {t \in DOMAIN D : f[t] \in S}
    <2>2. B # {}
      BY <2>1
    <2>3. ASSUME NEW t \in B
          PROVE  D[t] \cap B # {}
      <3>1. PICK w \in S : w \in R[f[t]]
        BY <2>1
      <3>2. PICK v \in DOMAIN D : f[v] = f[t] /\ \E d \in D[v] : w = f[d]
        BY <1>5, <3>1
      <3>3. v = t
        BY <1>1, <3>2
      <3>4. PICK d \in D[t] : w = f[d]
        BY <3>2, <3>3
      <3>5. d \in B
        BY <1>2, <3>1, <3>4
      <3> QED
        BY <3>4, <3>5
    <2> QED
      BY <2>2, <2>3 DEF HasCycle
  <1>8. IsDeps(R)
    <2>1. image \subseteq Ids
      BY <1>1
    <2>2. R \in [image -> SUBSET Ids]
      <3>1. ASSUME NEW u \in image PROVE R[u] \in SUBSET Ids
        BY <1>4, <1>6, <2>1 DEF Closed
      <3> QED
        BY <1>3, <3>1
    <2> QED
      BY <1>4, <2>1, <2>2 DEF IsDeps
  <1>9. IsGraph(Rename(g, f))
    BY <1>8 DEF Rename, IsGraph, Sound
  <1> QED
    BY <1>6, <1>7, <1>9 DEF Sound, Valid

\* A repair takes over what its target waits for and those who wait for it
\* (add_repair_task), and closes no cycle: in a set of tasks that wait for
\* themselves the target can stand for its repair.
LEMMA RepairIsSound ==
    ASSUME NEW g, Sound(g), NEW t \in Nodes(g), NEW r \in Ids, r \notin Nodes(g)
    PROVE  Sound(Repaired(g, t, r))
  <1> DEFINE D == g.deps
             R == Repaired(g, t, r).deps
  <1>1. /\ DOMAIN D \subseteq Ids
        /\ t \in DOMAIN D /\ r \notin DOMAIN D
        /\ \A u \in DOMAIN D : D[u] \subseteq DOMAIN D
        /\ ~HasCycle(D)
    BY DEF Sound, IsGraph, IsDeps, Valid, Closed, Nodes
  <1>2. R = [u \in DOMAIN D \cup {r} |->
               IF u = r THEN D[t] ELSE {IF d = t THEN r ELSE d : d \in D[u]}]
    BY DEF Repaired, Nodes, Sound, IsGraph
  <1>3. DOMAIN R = DOMAIN D \cup {r}
    BY <1>2
  <1>4. R[r] = D[t]
    BY <1>2
  <1>5. ASSUME NEW u \in DOMAIN D, NEW w \in R[u]
        PROVE  (w = r /\ t \in D[u]) \/ w \in D[u]
    <2>1. R[u] = {IF d = t THEN r ELSE d : d \in D[u]}
      BY <1>1, <1>2
    <2> QED
      BY <1>5, <2>1
  <1>6. Closed(R)
    BY <1>1, <1>3, <1>4, <1>5 DEF Closed
  <1>7. ~HasCycle(R)
    <2>1. SUFFICES ASSUME NEW S \in SUBSET (DOMAIN D \cup {r}), S # {},
                          \A u \in S : R[u] \cap S # {}
                   PROVE  HasCycle(D)
      BY <1>1, <1>3 DEF HasCycle
    <2> DEFINE B == IF r \in S THEN (S \ {r}) \cup {t} ELSE S
    <2>2. B # {} /\ B \subseteq DOMAIN D
      BY <1>1, <2>1
    <2>3. ASSUME NEW u \in S, u # r
          PROVE  D[u] \cap B # {}
      <3>1. PICK w \in S : w \in R[u]
        BY <2>1
      <3>2. (w = r /\ t \in D[u]) \/ w \in D[u]
        BY <1>5, <2>1, <2>3, <3>1
      <3>3. w \in D[u] => w # r
        BY <1>1, <2>1, <2>3
      <3> QED
        BY <3>1, <3>2, <3>3
    <2>4. ASSUME r \in S
          PROVE  D[t] \cap B # {}
      <3>1. PICK w \in S : w \in D[t]
        BY <1>4, <2>1, <2>4
      <3>2. w # r
        BY <1>1, <3>1
      <3> QED
        BY <2>4, <3>1, <3>2
    <2>5. \A u \in B : D[u] \cap B # {}
      BY <2>3, <2>4
    <2> QED
      BY <2>2, <2>5 DEF HasCycle
  <1>8. IsDeps(R)
    <2>1. ASSUME NEW u \in DOMAIN R PROVE R[u] \in SUBSET Ids
      BY <1>1, <1>3, <1>6 DEF Closed
    <2>2. R \in [DOMAIN R -> SUBSET Ids]
      BY <1>2, <2>1
    <2> QED
      BY <1>1, <1>3, <2>2 DEF IsDeps
  <1>9. IsGraph(Repaired(g, t, r))
    <2>1. /\ g = [deps |-> D, skipped |-> g.skipped, edition |-> g.edition,
                  version |-> g.version]
          /\ g.skipped \cup {t} \in SUBSET Ids
          /\ g.edition \in Nat /\ g.version + 1 \in Nat
      BY <1>1 DEF Sound, IsGraph
    <2>2. Repaired(g, t, r) = [deps |-> R, skipped |-> g.skipped \cup {t},
                               edition |-> g.edition, version |-> g.version + 1]
      BY <2>1 DEF Repaired
    <2> QED
      BY <1>8, <2>1, <2>2 DEF IsGraph
  <1> QED
    BY <1>6, <1>7, <1>9 DEF Sound, Valid

\* A mutation that is accepted leaves a sound plan: apply validates it under the
\* lock.
LEMMA MutatedIsSound ==
    ASSUME NEW g, Sound(g), NEW m \in Mutations, Accepts(m, g)
    PROVE  Sound(Mutated(m, g))
  <1> DEFINE D == g.deps
             M == Mutated(m, g)
  <1>1. /\ g = [deps |-> D, skipped |-> g.skipped, edition |-> g.edition,
                version |-> g.version]
        /\ g.skipped \in SUBSET Ids /\ g.edition \in Nat /\ g.version \in Nat
        /\ DOMAIN D \subseteq Ids /\ D \in [DOMAIN D -> SUBSET Ids]
    BY DEF Sound, IsGraph, IsDeps
  <1>2. m.task \in Ids /\ m.on \in SUBSET Ids
    BY DEF Mutations
  <1>3. ASSUME NEW v \in SUBSET Ids
        PROVE  IsDeps(Extend(D, m.task, v))
    <2>1. Extend(D, m.task, v) =
            [u \in DOMAIN D \cup {m.task} |-> IF u = m.task THEN v ELSE D[u]]
      BY DEF Extend
    <2> QED
      BY <1>1, <1>2, <2>1 DEF IsDeps
  <1>4. CASE m.op = "create"
    <2>1. M = [deps |-> Extend(D, m.task, m.on), skipped |-> g.skipped,
               edition |-> g.edition, version |-> g.version + 1]
      BY <1>1, <1>4 DEF Mutated, Wired
    <2> QED
      BY <1>1, <1>2, <1>3, <2>1 DEF IsGraph, Sound, Accepts
  <1>5. CASE m.op = "depend"
    <2>1. m.task \in DOMAIN D /\ D[m.task] \cup m.on \in SUBSET Ids
      BY <1>1, <1>2, <1>5 DEF Accepts, Nodes
    <2> DEFINE n == IF m.on \subseteq D[m.task] THEN g.version ELSE g.version + 1
    <2>2. /\ n \in Nat
          /\ M = [deps |-> Extend(D, m.task, D[m.task] \cup m.on),
                  skipped |-> g.skipped, edition |-> g.edition, version |-> n]
      BY <1>1, <1>5 DEF Mutated, Wired
    <2> HIDE DEF n
    <2> QED
      BY <1>1, <1>3, <2>1, <2>2 DEF IsGraph, Sound, Accepts
  <1>6. CASE m.op = "update"
    <2>1. M = [deps |-> D, skipped |-> g.skipped, edition |-> g.edition + 1,
               version |-> g.version + 1]
      BY <1>1, <1>6 DEF Mutated
    <2> QED
      BY <1>1, <2>1 DEF IsGraph, IsDeps, Sound, Accepts
  <1> QED
    BY <1>4, <1>5, <1>6 DEF Mutations

\* What an idle caller's variables hold.
LEMMA NothingIsAMutation == Nothing \in Mutations
  <1>1. (CHOOSE t \in Ids : TRUE) \in Ids
    BY TaskServiceAssumption
  <1> QED
    BY <1>1 DEF Nothing, Mutations

-----------------------------------------------------------------------------

LEMMA PlanInvInit == Init => PlanInv
  <1> SUFFICES ASSUME Init PROVE PlanInv
    OBVIOUS
  <1>1. Sound(stored) /\ Sound(copy)
    BY EmptyIsSound DEF Init
  <1>2. Sound(plan)
    BY PlannedIsSound DEF Init
  <1>3. mutation \in [Callers -> Mutations]
    BY NothingIsAMutation DEF Init
  <1> QED
    BY <1>1, <1>2, <1>3 DEF PlanInv

LEMMA PlanInvStep == PlanInv /\ [Next]_vars => PlanInv'
  <1> SUFFICES ASSUME PlanInv, [Next]_vars PROVE PlanInv'
    OBVIOUS
  <1>1. CASE RegisterFirst
    BY <1>1 DEF PlanInv, RegisterFirst, Dispatched, tools, Sound
  <1>2. CASE RegisterAgain
    BY <1>2 DEF PlanInv, RegisterAgain, Dispatched, tools, Sound
  <1>3. CASE Replace
    <2>1. PICK f \in Renamings(plan) : Dispatched(Rename(plan, f))
      BY <1>3 DEF Replace
    <2>2. Sound(Rename(plan, f))
      BY RenameIsSound DEF PlanInv
    <2> QED
      BY <2>1, <2>2 DEF PlanInv, Dispatched, tools, Sound
  <1>4. ASSUME NEW c \in Callers, NEW m \in Requests, Call(c, m)
        PROVE  PlanInv'
    <2>1. m \in Mutations
      BY TaskServiceAssumption
    <2> QED
      BY <1>4, <2>1 DEF PlanInv, Call, Sound
  <1>5. ASSUME NEW c \in Callers, Commit(c)
        PROVE  PlanInv'
    <2>1. Sound(stored')
      BY <1>5, MutatedIsSound DEF PlanInv, Commit
    <2>2. mutation' \in [Callers -> Mutations]
      BY <1>5, NothingIsAMutation DEF PlanInv, Commit, Return
    <2> QED
      BY <1>5, <2>1, <2>2 DEF PlanInv, Commit, Sound
  <1>6. ASSUME NEW c \in Callers, Reject(c) \/ ProjectTask(c) \/ ReadRecord(c) \/ WriteRecord(c)
        PROVE  PlanInv'
    <2>1. mutation' \in [Callers -> Mutations]
      BY <1>6, NothingIsAMutation
      DEF PlanInv, Reject, ProjectTask, ReadRecord, WriteRecord, Return
    <2>2. UNCHANGED <<stored, plan, copy>>
      BY <1>6 DEF Reject, ProjectTask, ReadRecord, WriteRecord, projectionUnchanged
    <2> QED
      BY <2>1, <2>2 DEF PlanInv, Sound
  <1>7. ASSUME NEW t, Claim(t) \/ Finish(t)
        PROVE  PlanInv'
    BY <1>7 DEF PlanInv, Claim, Finish, schedulerUnchanged, tools, Sound
  <1>17. ASSUME NEW t, TakeCopy(t) \/ PutBack(t)
         PROVE  PlanInv'
    BY <1>17 DEF PlanInv, TakeCopy, PutBack, Sound
  <1>8. CASE Refresh
    BY <1>8 DEF PlanInv, Refresh, Refreshed, schedulerUnchanged, tools, Sound
  <1>9. CASE Store
    BY <1>9 DEF PlanInv, Store, tools, Sound
  <1>10. CASE Checkpoint
    BY <1>10 DEF PlanInv, Checkpoint, tools, Sound
  <1>11. ASSUME NEW t, Repair(t)
         PROVE  PlanInv'
    <2>1. PICK r \in Ids \ (DOMAIN rows \cup Nodes(stored)) : stored' = Repaired(stored, t, r)
      BY <1>11 DEF Repair
    <2>2. Sound(stored')
      BY <1>11, <2>1, RepairIsSound DEF PlanInv, Repair
    <2> QED
      BY <1>11, <2>2 DEF PlanInv, Repair, tools, Sound
  <1>12. CASE FinishRepair
    BY <1>12 DEF PlanInv, FinishRepair, tools, Sound
  <1>13. CASE Replan
    <2>1. stored.edition \in Nat
      BY DEF PlanInv, Sound, IsGraph
    <2>2. Sound(plan')
      BY <1>13, <2>1, PlannedIsSound DEF Replan
    <2> QED
      BY <1>13, <2>2 DEF PlanInv, Replan, tools, Sound
  <1>14. CASE Route("choosing") \/ Route("registering") \/ StartRepair \/ End
    BY <1>14 DEF PlanInv, Route, StartRepair, End, tools, Sound
  <1>15. CASE Crash
    BY <1>15, EmptyIsSound, NothingIsAMutation DEF PlanInv, Crash, Sound
  <1>16. CASE UNCHANGED vars
    BY <1>16 DEF PlanInv, vars, tools, Sound
  <1> QED
    BY <1>1, <1>2, <1>3, <1>4, <1>5, <1>6, <1>7, <1>8, <1>9, <1>10, <1>11, <1>12,
       <1>13, <1>14, <1>15, <1>16, <1>17
    DEF Next, Graph, Tool, Scheduling

\* Whatever the planner, the agents, the repairs and the crashes do, no plan that
\* is stored, dispatched or checkpointed waits for a task it does not have or has
\* a cycle.  The repair needs no check of its own for it.
THEOREM SoundPlans == Spec => []PlanIsSound
  <1>1. PlanInv => PlanIsSound
    BY DEF PlanInv, PlanIsSound, Sound
  <1> QED
    BY <1>1, PlanInvInit, PlanInvStep, PTL DEF Spec

-----------------------------------------------------------------------------
(* What the plan, its copies, the board and the calls have to do with each  *)
(* other.                                                                  *)

Dispatching == pc \in {"dispatching", "ending"}

\* Tools work during a dispatch, and end with it.
ToolsAreOver == ~Dispatching => \A c \in Callers : Idle(c)

\* Only plans that are planned and not registered have no number.
Numbered ==
    /\ plan.version >= 1
    /\ stored.version = 0 => pc = "registering" /\ plan.skipped = {}
    /\ Dispatching \/ pc = "stored" => copy.version >= 1
    /\ \A g \in {stored, plan, copy} : g.skipped \subseteq Nodes(g)

\* The scheduler's copy is behind the stored plan by whole mutations.
Following ==
    Dispatching =>
        /\ copy.version <= stored.version
        /\ copy.version = stored.version => Signature(copy) = Signature(stored)
        /\ Nodes(copy) \subseteq Nodes(stored) /\ copy.skipped = stored.skipped

\* The cache lacks only what a tool has still to project.
Cached ==
    /\ DOMAIN cache \subseteq DOMAIN rows
    /\ \A t \in DOMAIN rows \ DOMAIN cache :
         \E c \in Callers : at[c] = "committed" /\ mutation[c].op = "create" /\ mutation[c].task = t
    /\ \A t \in DOMAIN cache : rows[t].superseded = cache[t].superseded

\* What has come to a result, and nothing has replaced.
IsDone(r) == ~r.superseded /\ r.status \in {"succeeded", "repair_required"}

Done(b) == {t \in DOMAIN b : IsDone(b[t])}

\* The plan that results are for.
Current == IF Dispatching THEN Nodes(copy) ELSE Nodes(stored)

\* Results are those of planned tasks, and so are the repairs that are due.
Known == Done(rows) \cup Done(cache) \subseteq Current

Chosen ==
    /\ todo # {} => pc = "repairing"
    /\ todo \subseteq Nodes(stored) /\ \A t \in todo : Live(t)

\* A call on its way from its transaction to the board.
Projects(c) ==
    LET m == mutation[c]
        t == m.task
    IN
    Projecting(c) =>
        /\ m.op = IF at[c] = "copied" THEN "depend" ELSE m.op
        /\ m.op \in {"create", "depend"} /\ t \in Nodes(result[c]) /\ t \in Nodes(stored)
        /\ t \notin tangled \cup reused =>
             IF m.op = "create"
             THEN t \notin DOMAIN cache /\ rows[t] = New(m.on) /\ stored.deps[t] = m.on
             ELSE result[c].deps[t] = stored.deps[t]
        /\ at[c] = "copied" =>
             /\ t \in DOMAIN cache /\ held[c].superseded = cache[t].superseded
             /\ IsDone(held[c]) => t \in Nodes(copy)

\* Two projections for one task make it tangled.
Untangled ==
    \A c, d \in Callers : c # d /\ Projecting(c) /\ Projecting(d) /\ mutation[c].task = mutation[d].task
        => mutation[c].task \in tangled

BoardInv ==
    /\ ToolsAreOver /\ Numbered /\ Following /\ Cached /\ Known /\ Chosen /\ Untangled
    /\ \A c \in Callers : Projects(c)
    /\ RowsMirrorPlan /\ BoardFollowsPlan

BoardTypes == IsBoard(rows) /\ IsBoard(cache)

ToolTypes ==
    /\ at \in [Callers -> {"idle", "called", "committed", "copied"}]
    /\ mutation \in [Callers -> Mutations]
    /\ DOMAIN result = Callers /\ \A c \in Callers : IsGraph(result[c])
    /\ held \in [Callers -> Records]

RestTypes ==
    /\ applied \subseteq Mutations
    /\ overwritten \in BOOLEAN
    /\ pc \in {"registering", "dispatching", "ending", "stored", "routing",
              "choosing", "repairing", "done"}
    /\ {todo, reused, tangled} \subseteq SUBSET Ids
    /\ taken \subseteq [task : Ids, record : Records]
    /\ calls \in 0..MaxCalls /\ revisions \in 0..MaxRevisions /\ crashes \in 0..MaxCrashes

LEMMA TypesByGroup ==
    PlanInv => (TypeOK <=> BoardTypes /\ ToolTypes /\ RestTypes)
  BY DEF PlanInv, Sound, TypeOK, BoardTypes, ToolTypes, RestTypes

TaskInv == TypeOK /\ PlanInv /\ BoardInv

\* Copies of records are held during a dispatch, of tasks that were claimed, and
\* have the superseded mark that the record still has.
CopyInv ==
    /\ ~Dispatching => taken = {}
    /\ \A k \in taken :
          /\ k.task \in DOMAIN cache /\ k.record.status = "claimed"
          /\ k.record.superseded = cache[k.task].superseded

-----------------------------------------------------------------------------
(* Helpers.                                                                *)

LEMMA BoardExtends ==
    ASSUME NEW b, IsBoard(b), NEW t \in Ids, NEW r \in Records
    PROVE  /\ IsBoard(Extend(b, t, r)) /\ DOMAIN Extend(b, t, r) = DOMAIN b \cup {t}
           /\ Extend(b, t, r)[t] = r
           /\ \A u \in DOMAIN b \ {t} : Extend(b, t, r)[u] = b[u]
  <1>1. Extend(b, t, r) = [u \in DOMAIN b \cup {t} |-> IF u = t THEN r ELSE b[u]]
    BY DEF Extend
  <1>2. DOMAIN b \subseteq Ids /\ \A u \in DOMAIN b : b[u] \in Records
    BY DEF IsBoard
  <1> QED
    BY <1>1, <1>2 DEF IsBoard

LEMMA NewIsARecord ==
    ASSUME NEW deps \in SUBSET Ids
    PROVE  New(deps) \in Records /\ New(deps).deps = deps /\ ~IsDone(New(deps))
           /\ New(deps).superseded = FALSE
  BY DEF New, Records, TaskStatus, IsDone

\* What a mutation does to a plan: its own task's dependencies, and the version.
LEMMA MutationIs ==
    ASSUME NEW g, Sound(g), NEW m \in Mutations, Accepts(m, g)
    PROVE  LET M == Mutated(m, g) IN
           /\ Nodes(M) = Nodes(g) \cup {m.task} /\ M.skipped = g.skipped
           /\ \A t \in Nodes(g) \ {m.task} : M.deps[t] = g.deps[t]
           /\ m.op = "create" => m.task \notin Nodes(g) /\ M.deps[m.task] = m.on
           /\ m.op # "create" => m.task \in Nodes(g)
           /\ m.op = "update" => M.deps = g.deps
           /\ M.version >= g.version
           /\ M.version = g.version => Signature(M) = Signature(g)
  <1> DEFINE D == g.deps
             M == Mutated(m, g)
  <1>1. /\ g = [deps |-> D, skipped |-> g.skipped, edition |-> g.edition,
                version |-> g.version]
        /\ g.edition \in Nat /\ g.version \in Nat
        /\ D = [t \in DOMAIN D |-> D[t]]
    BY DEF Sound, IsGraph, IsDeps
  <1>2. ASSUME NEW v
        PROVE  /\ DOMAIN Extend(D, m.task, v) = DOMAIN D \cup {m.task}
               /\ Extend(D, m.task, v)[m.task] = v
               /\ \A t \in DOMAIN D \ {m.task} : Extend(D, m.task, v)[t] = D[t]
               /\ m.task \in DOMAIN D /\ v = D[m.task] => Extend(D, m.task, v) = D
    <2>1. Extend(D, m.task, v) = [u \in DOMAIN D \cup {m.task} |-> IF u = m.task THEN v ELSE D[u]]
      BY DEF Extend
    <2>2. ASSUME m.task \in DOMAIN D, v = D[m.task] PROVE Extend(D, m.task, v) = D
      <3>1. DOMAIN D \cup {m.task} = DOMAIN D
        BY <2>2
      <3>2. \A u \in DOMAIN D : (IF u = m.task THEN v ELSE D[u]) = D[u]
        BY <2>2
      <3> QED
        BY <2>1, <3>1, <3>2, <1>1
    <2> QED
      BY <2>1, <2>2
  <1>3. CASE m.op = "create"
    <2>1. M = [deps |-> Extend(D, m.task, m.on), skipped |-> g.skipped,
               edition |-> g.edition, version |-> g.version + 1]
      BY <1>1, <1>3 DEF Mutated, Wired
    <2> QED
      BY <1>1, <1>2, <1>3, <2>1 DEF Accepts, Nodes
  <1>4. CASE m.op = "depend"
    <2> DEFINE n == IF m.on \subseteq D[m.task] THEN g.version ELSE g.version + 1
    <2>1. M = [deps |-> Extend(D, m.task, D[m.task] \cup m.on),
               skipped |-> g.skipped, edition |-> g.edition, version |-> n]
      BY <1>1, <1>4 DEF Mutated, Wired
    <2>2. m.task \in DOMAIN D
      BY <1>4 DEF Accepts, Nodes
    <2>3. n >= g.version /\ (n = g.version => D[m.task] \cup m.on = D[m.task])
      BY <1>1
    <2> HIDE DEF n
    <2>4. ASSUME n = g.version PROVE M.deps = D /\ M.edition = g.edition
      <3>1. D[m.task] \cup m.on = D[m.task]
        BY <2>3, <2>4
      <3>2. Extend(D, m.task, D[m.task]) = D
        BY <1>2, <2>2
      <3>3. Extend(D, m.task, D[m.task] \cup m.on) = D
        BY <3>1, <3>2
      <3> QED
        BY <2>1, <3>3
    <2>5. Nodes(M) = Nodes(g) \cup {m.task} /\ M.skipped = g.skipped /\ M.version = n
      BY <1>2, <2>1 DEF Nodes
    <2>6. \A t \in Nodes(g) \ {m.task} : M.deps[t] = g.deps[t]
      BY <1>2, <2>1 DEF Nodes
    <2> QED
      BY <1>4, <2>2, <2>3, <2>4, <2>5, <2>6 DEF Nodes, Signature
  <1>5. CASE m.op = "update"
    <2>1. M = [deps |-> D, skipped |-> g.skipped, edition |-> g.edition + 1,
               version |-> g.version + 1]
      BY <1>1, <1>5 DEF Mutated
    <2>2. m.task \in Nodes(g)
      BY <1>5 DEF Accepts
    <2> QED
      BY <1>1, <1>5, <2>1, <2>2 DEF Nodes
  <1> QED
    BY <1>3, <1>4, <1>5 DEF Mutations

LEMMA ReturnIs ==
    ASSUME ToolTypes, NEW c \in Callers, Return(c)
    PROVE  /\ ToolTypes' /\ at'[c] = "idle"
           /\ \A d \in Callers \ {c} :
                /\ at'[d] = at[d] /\ mutation'[d] = mutation[d]
                /\ result'[d] = result[d] /\ held'[d] = held[d]
  <1>1. IsGraph(NoGraph)
    BY EmptyIsSound DEF Sound
  <1>2. New({}) \in Records
    BY NewIsARecord
  <1> QED
    BY <1>1, <1>2, NothingIsAMutation DEF Return, ToolTypes

\* What BoardInv is about; it says nothing of the copies and the counters.
LEMMA BoardInvStays ==
    ASSUME BoardInv,
           UNCHANGED <<stored, rows, cache, plan, copy, pc, todo, at, mutation, result, held,
                       reused, tangled, overwritten>>
    PROVE  BoardInv'
  <1>1. \A c \in Callers : Projecting(c)' = Projecting(c)
    BY DEF Projecting
  <1>2. ToolsAreOver' /\ Numbered' /\ Following' /\ Cached' /\ Known' /\ Chosen' /\ Untangled'
    BY <1>1 DEF BoardInv, ToolsAreOver, Numbered, Following, Cached, Known, Chosen,
       Untangled, Dispatching, Idle, Current, Done, Live, Nodes
  <1>3. \A c \in Callers : Projects(c)'
    BY <1>1 DEF BoardInv, Projects, Nodes
  <1>4. RowsMirrorPlan' /\ BoardFollowsPlan'
    BY <1>1 DEF BoardInv, RowsMirrorPlan, BoardFollowsPlan, Nodes
  <1> QED
    BY <1>2, <1>3, <1>4 DEF BoardInv

-----------------------------------------------------------------------------
(* The root graph, between two dispatches.                                  *)

LEMMA GraphMoves ==
    ASSUME TaskInv, PlanInv', ~Dispatching, pc # "registering",
           UNCHANGED <<stored, applied, board, copy, tools, histories, calls, crashes>>,
           pc' \in {"registering", "routing", "choosing", "repairing", "done"},
           plan'.version >= 1, plan'.skipped \subseteq Nodes(plan'),
           todo' \subseteq Ids, revisions' \in 0..MaxRevisions, Chosen'
    PROVE  TaskInv'
  <1>1. UNCHANGED <<rows, cache, at, mutation, result, held, taken, reused, tangled, overwritten>>
    BY DEF board, tools, histories
  <1>2. BoardTypes /\ ToolTypes /\ RestTypes /\ BoardInv
    BY TypesByGroup DEF TaskInv
  <1>3. BoardTypes' /\ ToolTypes' /\ RestTypes'
    BY <1>1, <1>2 DEF BoardTypes, ToolTypes, RestTypes
  <1>4. TypeOK'
    BY <1>3 DEF PlanInv, Sound, TypeOK, BoardTypes, ToolTypes, RestTypes
  <1>5. ~Dispatching' /\ \A c \in Callers : ~Projecting(c)'
    BY <1>1, <1>2 DEF Dispatching, BoardInv, ToolsAreOver, Idle, Projecting
  <1>6. ToolsAreOver' /\ Following' /\ Cached' /\ Untangled'
    BY <1>1, <1>2, <1>5 DEF BoardInv, ToolsAreOver, Idle, Following, Cached, Untangled
  <1>7. Numbered'
    BY <1>2, <1>5 DEF BoardInv, Numbered, Nodes
  <1>8. Known'
    BY <1>1, <1>2, <1>5 DEF BoardInv, Known, Done, Current, Nodes
  <1>9. \A c \in Callers : Projects(c)'
    BY <1>5 DEF Projects
  <1>10. RowsMirrorPlan'
    BY <1>1, <1>2 DEF BoardInv, RowsMirrorPlan, Nodes
  <1>11. BoardFollowsPlan'
    <2>1. \A c \in Callers : ~Projecting(c)
      BY <1>2 DEF BoardInv, ToolsAreOver, Idle, Projecting
    <2> QED
      BY <1>1, <1>2, <2>1 DEF BoardInv, BoardFollowsPlan, Nodes
  <1> QED
    BY <1>4, <1>6, <1>7, <1>8, <1>9, <1>10, <1>11 DEF TaskInv, BoardInv

LEMMA RoutesKeep ==
    ASSUME TaskInv, PlanInv', NEW node \in {"choosing", "registering"}, Route(node)
    PROVE  TaskInv'
  <1>1. Numbered /\ Chosen /\ RestTypes
    BY TypesByGroup DEF TaskInv, BoardInv
  <1>2. todo = {} /\ revisions + 1 \in 0..MaxRevisions
    BY <1>1, TaskServiceAssumption DEF Route, Chosen, RestTypes
  <1> QED
    BY <1>1, <1>2, GraphMoves DEF Route, Dispatching, Numbered, Chosen

LEMMA StartRepairKeeps ==
    ASSUME TaskInv, PlanInv', StartRepair
    PROVE  TaskInv'
  <1>1. Numbered /\ Known /\ RestTypes /\ IsBoard(cache)
    BY TypesByGroup DEF TaskInv, BoardInv, BoardTypes
  <1>2. todo' \subseteq Candidates /\ Candidates \subseteq Done(cache)
    BY DEF StartRepair, Candidates, Done, IsDone, Live
  <1>3. Done(cache) \subseteq Nodes(stored)
    BY <1>1 DEF StartRepair, Known, Current, Dispatching
  <1>4. Done(cache) \subseteq Ids
    BY <1>1 DEF Done, IsBoard
  <1>5. \A t \in todo' : Live(t)
    BY <1>2 DEF Done, IsDone, Live
  <1>6. Chosen'
    BY <1>2, <1>3, <1>5 DEF StartRepair, Chosen, Live, board, Nodes
  <1> QED
    BY <1>1, <1>2, <1>4, <1>6, GraphMoves DEF StartRepair, Dispatching, Numbered, RestTypes

LEMMA FinishRepairKeeps ==
    ASSUME TaskInv, PlanInv', FinishRepair
    PROVE  TaskInv'
  <1>1. Numbered /\ RestTypes /\ stored.version \in Nat
    BY TypesByGroup DEF TaskInv, BoardInv, PlanInv, Sound, IsGraph
  <1>2. stored.version >= 1
    BY <1>1 DEF FinishRepair, Numbered
  <1> QED
    BY <1>1, <1>2, GraphMoves DEF FinishRepair, Dispatching, Numbered, RestTypes, Chosen

LEMMA ReplanKeeps ==
    ASSUME TaskInv, PlanInv', Replan
    PROVE  TaskInv'
  <1>1. Numbered /\ Chosen /\ RestTypes
    BY TypesByGroup DEF TaskInv, BoardInv
  <1>2. todo = {} /\ revisions + 1 \in 0..MaxRevisions
    BY <1>1, TaskServiceAssumption DEF Replan, Chosen, RestTypes
  <1>3. plan'.version >= 1 /\ plan'.skipped = {}
    BY DEF Replan, Planned
  <1> QED
    BY <1>1, <1>2, <1>3, GraphMoves DEF Replan, Dispatching, Chosen

LEMMA EndKeeps ==
    ASSUME TaskInv, PlanInv', End
    PROVE  TaskInv'
  <1>1. Numbered /\ Chosen /\ RestTypes
    BY TypesByGroup DEF TaskInv, BoardInv
  <1> QED
    BY <1>1, GraphMoves DEF End, Dispatching, Chosen, Numbered, RestTypes

LEMMA CheckpointKeeps ==
    ASSUME TaskInv, PlanInv', Checkpoint
    PROVE  TaskInv'
  <1>1. Numbered /\ Chosen /\ RestTypes
    BY TypesByGroup DEF TaskInv, BoardInv
  <1> QED
    BY <1>1, GraphMoves DEF Checkpoint, Dispatching, Chosen, Numbered, RestTypes

\* The dispatch is over, and the scheduler's copy becomes the plan.
LEMMA StoreKeeps ==
    ASSUME TaskInv, PlanInv', Store
    PROVE  TaskInv'
  <1>1. /\ pc = "ending" /\ \A c \in Callers : Idle(c)
        /\ stored' = copy /\ overwritten' = (overwritten \/ Signature(copy) # Signature(stored))
        /\ pc' = "stored"
        /\ UNCHANGED <<applied, rows, cache, plan, copy, todo, at, mutation, result, held, taken,
                       reused, tangled, calls, revisions, crashes>>
    BY DEF Store, board, tools
  <1>2. BoardTypes /\ ToolTypes /\ RestTypes /\ BoardInv
    BY TypesByGroup DEF TaskInv
  <1>3. BoardTypes' /\ ToolTypes' /\ RestTypes'
    BY <1>1, <1>2 DEF BoardTypes, ToolTypes, RestTypes
  <1>4. TypeOK'
    BY <1>3 DEF PlanInv, Sound, TypeOK, BoardTypes, ToolTypes, RestTypes
  <1>5. Dispatching /\ ~Dispatching' /\ \A c \in Callers : ~Projecting(c) /\ ~Projecting(c)'
    BY <1>1 DEF Dispatching, Idle, Projecting
  <1>6. /\ Nodes(copy) \subseteq Nodes(stored) /\ copy.skipped = stored.skipped
        /\ ~overwritten' => ~overwritten /\ copy.deps = stored.deps
    BY <1>1, <1>2, <1>5 DEF BoardInv, Following, Signature
  <1>7. ToolsAreOver' /\ Following' /\ Cached' /\ Untangled'
    BY <1>1, <1>2, <1>5 DEF BoardInv, ToolsAreOver, Idle, Following, Cached, Untangled
  <1>8. Numbered'
    <2>1. copy.version >= 1 /\ copy.version # 0 /\ copy.skipped \subseteq Nodes(copy)
      BY <1>2, <1>5 DEF BoardInv, Numbered
    <2> QED
      BY <1>1, <1>2, <1>5, <2>1 DEF BoardInv, Numbered, Nodes
  <1>9. Known' /\ Chosen'
    BY <1>1, <1>2, <1>5 DEF BoardInv, Known, Chosen, Done, Current, Nodes
  <1>10. \A c \in Callers : Projects(c)'
    BY <1>5 DEF Projects
  <1>11. RowsMirrorPlan'
    BY <1>1, <1>2, <1>6 DEF BoardInv, RowsMirrorPlan, Nodes
  <1>12. BoardFollowsPlan'
    BY <1>1, <1>2, <1>5, <1>6 DEF BoardInv, BoardFollowsPlan, Nodes
  <1> QED
    BY <1>4, <1>7, <1>8, <1>9, <1>10, <1>11, <1>12 DEF TaskInv, BoardInv

-----------------------------------------------------------------------------
(* Registration.                                                           *)

LEMMA DispatchKeeps ==
    ASSUME TaskInv, PlanInv', pc = "registering", NEW g, Dispatched(g),
           g.version >= 1, g.skipped \subseteq Nodes(g), BoardTypes',
           reused' \subseteq Ids, tangled' \subseteq Ids, overwritten' \in BOOLEAN,
           DOMAIN cache' = DOMAIN rows',
           \A t \in DOMAIN cache' : rows'[t].superseded = cache'[t].superseded,
           Done(rows') \cup Done(cache') \subseteq Nodes(g), Nodes(g) \subseteq DOMAIN rows',
           ~overwritten' => \A t \in DOMAIN rows' \ (reused' \cup tangled') :
               rows'[t].superseded <=> t \notin Nodes(g) \ g.skipped,
           ~overwritten' => \A t \in Nodes(g) \ (g.skipped \cup reused' \cup tangled') :
               rows'[t].deps = g.deps[t] /\ cache'[t].deps = g.deps[t]
    PROVE  TaskInv'
  <1>1. /\ stored' = g /\ copy' = g /\ pc' = "dispatching"
        /\ UNCHANGED <<applied, plan, todo, at, mutation, result, held, taken, calls, revisions, crashes>>
    BY DEF Dispatched, tools
  <1>2. BoardTypes /\ ToolTypes /\ RestTypes /\ BoardInv
    BY TypesByGroup DEF TaskInv
  <1>3. ToolTypes' /\ RestTypes'
    BY <1>1, <1>2 DEF ToolTypes, RestTypes
  <1>4. TypeOK'
    BY <1>3 DEF PlanInv, Sound, TypeOK, BoardTypes, ToolTypes, RestTypes
  <1>5. Dispatching' /\ \A c \in Callers : ~Projecting(c)'
    BY <1>1, <1>2 DEF Dispatching, BoardInv, ToolsAreOver, Idle, Projecting
  <1>6. g.version \in Nat
    BY <1>1 DEF PlanInv, Sound, IsGraph
  <1>7. ToolsAreOver' /\ Following' /\ Cached' /\ Untangled'
    BY <1>1, <1>5, <1>6 DEF ToolsAreOver, Following, Cached, Untangled
  <1>8. Numbered'
    BY <1>1, <1>2, <1>6 DEF BoardInv, Numbered, Nodes
  <1>9. Known' /\ Chosen'
    BY <1>1, <1>2, <1>5 DEF BoardInv, Known, Chosen, Done, Current, Nodes
  <1>10. \A c \in Callers : Projects(c)'
    BY <1>5 DEF Projects
  <1>11. RowsMirrorPlan'
    BY <1>1 DEF RowsMirrorPlan, Nodes
  <1>12. BoardFollowsPlan'
    BY <1>1 DEF BoardFollowsPlan, Nodes
  <1> QED
    BY <1>4, <1>7, <1>8, <1>9, <1>10, <1>11, <1>12 DEF TaskInv, BoardInv

LEMMA RegisterFirstKeeps ==
    ASSUME TaskInv, PlanInv', RegisterFirst
    PROVE  TaskInv'
  <1>1. /\ pc = "registering" /\ Dispatched(plan)
        /\ rows' = [t \in Nodes(plan) |-> New(plan.deps[t])] /\ cache' = rows'
        /\ UNCHANGED <<reused, tangled, overwritten>> /\ stored.version = 0
    BY DEF RegisterFirst, Registered, histories
  <1>2. /\ plan.version >= 1 /\ plan.skipped = {} /\ RestTypes
    BY <1>1, TypesByGroup DEF TaskInv, BoardInv, Numbered
  <1>3. Nodes(plan) \subseteq Ids /\ \A t \in Nodes(plan) : plan.deps[t] \in SUBSET Ids
    BY DEF TaskInv, PlanInv, Sound, IsGraph, IsDeps, Nodes
  <1>4. \A t \in Nodes(plan) :
            /\ rows'[t] \in Records /\ rows'[t].deps = plan.deps[t]
            /\ ~IsDone(rows'[t]) /\ rows'[t].superseded = FALSE
    BY <1>1, <1>3, NewIsARecord
  <1>5. DOMAIN rows' = Nodes(plan)
    BY <1>1
  <1>6. BoardTypes'
    BY <1>1, <1>3, <1>4, <1>5 DEF BoardTypes, IsBoard
  <1>7. Done(rows') = {} /\ Done(cache') = {}
    BY <1>1, <1>4, <1>5 DEF Done
  <1> QED
    BY <1>1, <1>2, <1>4, <1>5, <1>6, <1>7, DispatchKeeps DEF RestTypes

\* Outside a dispatch rows and cache have the same tasks.
LEMMA AllIsCached ==
    ASSUME TaskInv, ~Dispatching
    PROVE  DOMAIN cache = DOMAIN rows
  <1>1. ToolsAreOver /\ Cached
    BY DEF TaskInv, BoardInv
  <1>2. \A c \in Callers : at[c] # "committed"
    BY <1>1 DEF ToolsAreOver, Idle
  <1> QED
    BY <1>1, <1>2 DEF Cached

LEMMA RegisterAgainKeeps ==
    ASSUME TaskInv, PlanInv', RegisterAgain
    PROVE  TaskInv'
  <1>1. /\ pc = "registering" /\ Dispatched(stored) /\ stored.version # 0
        /\ cache' = [t \in DOMAIN rows \cup DOMAIN cache |->
                        IF t \in DOMAIN cache THEN cache[t] ELSE rows[t]]
        /\ UNCHANGED <<rows, reused, tangled, overwritten>>
    BY DEF RegisterAgain, Registered, histories
  <1>2. DOMAIN cache = DOMAIN rows
    BY <1>1, AllIsCached DEF Dispatching
  <1>3. BoardTypes /\ RestTypes /\ BoardInv /\ stored.version \in Nat
    BY TypesByGroup DEF TaskInv, PlanInv, Sound, IsGraph
  <1>4. cache' = cache
    <2>1. cache' = [t \in DOMAIN cache |-> cache[t]]
      BY <1>1, <1>2
    <2> QED
      BY <2>1, <1>3 DEF BoardTypes, IsBoard
  <1>5. stored.version >= 1 /\ stored.skipped \subseteq Nodes(stored)
    BY <1>1, <1>3 DEF BoardInv, Numbered
  <1>6. BoardTypes'
    BY <1>1, <1>3, <1>4 DEF BoardTypes
  <1>7. Done(rows') \cup Done(cache') \subseteq Nodes(stored)
    BY <1>1, <1>3, <1>4 DEF BoardInv, Known, Current, Dispatching
  <1>8. \A c \in Callers : ~Projecting(c)
    BY <1>1, <1>3 DEF BoardInv, ToolsAreOver, Dispatching, Idle, Projecting
  <1>9. Nodes(stored) \subseteq DOMAIN rows
    BY <1>3 DEF BoardInv, RowsMirrorPlan
  <1>10. \A t \in DOMAIN cache' : rows'[t].superseded = cache'[t].superseded
    BY <1>1, <1>3, <1>4 DEF BoardInv, Cached
  <1>11. ~overwritten => \A t \in DOMAIN rows \ (reused \cup tangled) :
               rows[t].superseded <=> t \notin Nodes(stored) \ stored.skipped
    BY <1>3 DEF BoardInv, RowsMirrorPlan
  <1>12. ~overwritten => \A t \in Nodes(stored) \ (stored.skipped \cup reused \cup tangled) :
               rows[t].deps = stored.deps[t] /\ cache[t].deps = stored.deps[t]
    BY <1>2, <1>3, <1>8, <1>9 DEF BoardInv, BoardFollowsPlan
  <1> QED
    BY <1>1, <1>2, <1>3, <1>4, <1>5, <1>6, <1>7, <1>9, <1>10, <1>11, <1>12, DispatchKeeps DEF RestTypes

LEMMA ReplaceKeeps ==
    ASSUME TaskInv, PlanInv', Replace
    PROVE  TaskInv'
  <1>1. PICK f \in Renamings(plan) :
          LET g == Rename(plan, f) IN
          /\ Dispatched(g)
          /\ cache' = [t \in DOMAIN cache \cup Nodes(g) |->
                          IF t \in Nodes(g) THEN New(g.deps[t]) ELSE Supersede(cache[t])]
          /\ rows' = [t \in DOMAIN rows \cup Nodes(g) |->
                          IF t \in DOMAIN cache' THEN cache'[t] ELSE rows[t]]
    BY DEF Replace
  <1> DEFINE g == Rename(plan, f)
  <1>2. pc = "registering" /\ reused' = {} /\ tangled' = {} /\ overwritten' = FALSE
    BY DEF Replace
  <1>3. DOMAIN cache = DOMAIN rows
    BY <1>2, AllIsCached DEF Dispatching
  <1>4. /\ BoardTypes /\ BoardInv
        /\ stored.version \in Nat /\ plan.version \in Nat /\ Sound(g)
    BY TypesByGroup, RenameIsSound DEF TaskInv, PlanInv, Sound, IsGraph
  <1>5. g.version >= 1 /\ g.skipped = {}
    BY <1>4 DEF Rename, BoardInv, Numbered
  <1>6. Nodes(g) \subseteq Ids /\ \A t \in Nodes(g) : g.deps[t] \in SUBSET Ids
    BY <1>4 DEF Sound, IsGraph, IsDeps, Nodes
  <1>7. Dispatched(g)
    BY <1>1
  <1>8. /\ DOMAIN cache' = DOMAIN cache \cup Nodes(g)
        /\ \A t \in Nodes(g) : cache'[t] = New(g.deps[t])
        /\ \A t \in DOMAIN cache \ Nodes(g) : cache'[t] = Supersede(cache[t])
    BY <1>1
  <1>9. rows' = [t \in DOMAIN cache' |-> cache'[t]]
    BY <1>1, <1>3, <1>8
  <1>10. cache' = [t \in DOMAIN cache' |-> cache'[t]]
    BY <1>1
  <1>11. rows' = cache'
    BY <1>9, <1>10
  <1> HIDE DEF g
  <1>12. \A t \in Nodes(g) : /\ cache'[t] \in Records /\ cache'[t].deps = g.deps[t]
                             /\ ~IsDone(cache'[t]) /\ cache'[t].superseded = FALSE
    <2> TAKE t \in Nodes(g)
    <2> DEFINE deps == g.deps[t]
    <2>1. deps \in SUBSET Ids
      BY <1>6
    <2>2. cache'[t] = New(deps)
      BY <1>8
    <2> HIDE DEF deps
    <2>3. /\ cache'[t] \in Records /\ cache'[t].deps = deps
          /\ ~IsDone(cache'[t]) /\ cache'[t].superseded = FALSE
      BY <2>1, <2>2, NewIsARecord
    <2> QED
      BY <2>3 DEF deps
  <1>13. \A t \in DOMAIN cache \ Nodes(g) : cache'[t] \in Records /\ cache'[t].superseded = TRUE
    <2> TAKE t \in DOMAIN cache \ Nodes(g)
    <2>1. cache[t] \in Records
      BY <1>4 DEF BoardTypes, IsBoard
    <2>2. cache'[t] = Supersede(cache[t])
      BY <1>8
    <2> QED
      BY <2>1, <2>2 DEF Supersede, Records
  <1>14. DOMAIN cache' \subseteq Ids
    BY <1>4, <1>6, <1>8 DEF BoardTypes, IsBoard
  <1>15. BoardTypes'
    BY <1>8, <1>10, <1>11, <1>12, <1>13, <1>14 DEF BoardTypes, IsBoard
  <1>16. Done(cache') = {}
    BY <1>8, <1>12, <1>13 DEF Done, IsDone
  <1> QED
    BY <1>2, <1>5, <1>7, <1>8, <1>11, <1>12, <1>13, <1>15, <1>16, DispatchKeeps

-----------------------------------------------------------------------------
(* Team tools.                                                             *)

LEMMA CallKeeps ==
    ASSUME TaskInv, PlanInv', NEW c \in Callers, NEW m \in Requests, Call(c, m)
    PROVE  TaskInv'
  <1>1. /\ pc = "dispatching" /\ at[c] = "idle" /\ calls < MaxCalls /\ calls' = calls + 1
        /\ at' = [at EXCEPT ![c] = "called"] /\ mutation' = [mutation EXCEPT ![c] = m]
        /\ UNCHANGED <<stored, applied, rows, cache, plan, copy, pc, todo, result, held,
                       taken, reused, tangled, overwritten, revisions, crashes>>
    BY DEF Call, board, histories, Idle
  <1>2. BoardTypes /\ ToolTypes /\ RestTypes /\ BoardInv /\ m \in Mutations
    BY TypesByGroup, TaskServiceAssumption DEF TaskInv
  <1>3. BoardTypes' /\ ToolTypes'
    BY <1>1, <1>2 DEF BoardTypes, ToolTypes
  <1>4. RestTypes'
    BY <1>1, <1>2, TaskServiceAssumption DEF RestTypes
  <1>5. TypeOK'
    BY <1>3, <1>4 DEF PlanInv, Sound, TypeOK, BoardTypes, ToolTypes, RestTypes
  <1>6. /\ at'[c] = "called" /\ mutation'[c] = m
        /\ \A d \in Callers \ {c} : at'[d] = at[d] /\ mutation'[d] = mutation[d]
    BY <1>1, <1>2 DEF ToolTypes
  <1>7. /\ ~Projecting(c) /\ ~Projecting(c)'
        /\ \A d \in Callers \ {c} : Projecting(d)' = Projecting(d)
    BY <1>1, <1>6 DEF Projecting
  <1>8. ToolsAreOver' /\ Numbered' /\ Following' /\ Known' /\ Chosen' /\ RowsMirrorPlan'
    BY <1>1, <1>2 DEF BoardInv, ToolsAreOver, Numbered, Following, Known, Chosen, RowsMirrorPlan,
       Dispatching, Nodes, Current, Done, Live
  <1>9. Cached'
    BY <1>1, <1>2, <1>6 DEF BoardInv, Cached
  <1>10. Untangled'
    BY <1>1, <1>2, <1>6, <1>7 DEF BoardInv, Untangled
  <1>11. \A d \in Callers : Projects(d)'
    BY <1>1, <1>2, <1>6, <1>7 DEF BoardInv, Projects, Nodes
  <1>12. BoardFollowsPlan'
    BY <1>1, <1>2, <1>6, <1>7 DEF BoardInv, BoardFollowsPlan, Nodes
  <1> QED
    BY <1>5, <1>8, <1>9, <1>10, <1>11, <1>12 DEF TaskInv, BoardInv

\* A call that returns leaves the board alone, or writes its task's record.
LEMMA ProjectionEnds ==
    ASSUME TaskInv, PlanInv', NEW c \in Callers, at[c] # "idle", Return(c), projectionUnchanged,
           NEW t, t = mutation[c].task, NEW r,
           \/ /\ UNCHANGED board
              /\ Projecting(c) =>
                   IF t \in DOMAIN cache THEN t \in tangled \cup reused ELSE mutation[c].op # "create"
           \/ /\ Add(t, r) /\ r \in Records /\ t \in DOMAIN rows /\ Projecting(c)
              /\ t \in DOMAIN cache \/ t \notin tangled \cup reused =>
                    r.superseded = rows[t].superseded
              /\ IsDone(r) => t \in Nodes(copy)
              /\ t \notin tangled \cup reused => r.deps = stored.deps[t]
    PROVE  TaskInv'
  <1>1. UNCHANGED <<stored, applied, plan, copy, pc, todo, taken, reused, tangled, overwritten,
                    calls, revisions, crashes>>
    BY DEF projectionUnchanged, histories
  <1>2. BoardTypes /\ ToolTypes /\ RestTypes /\ BoardInv
    BY TypesByGroup DEF TaskInv
  <1>3. /\ ToolTypes' /\ at'[c] = "idle"
        /\ \A d \in Callers \ {c} : /\ at'[d] = at[d] /\ mutation'[d] = mutation[d]
                                    /\ result'[d] = result[d] /\ held'[d] = held[d]
    BY <1>2, ReturnIs
  <1>4. t \in Ids
    BY <1>2 DEF ToolTypes, Mutations
  <1>5. /\ BoardTypes'
        /\ DOMAIN rows' = DOMAIN rows
        /\ DOMAIN cache' = DOMAIN cache \cup (IF UNCHANGED board THEN {} ELSE {t})
        /\ \A u \in DOMAIN rows \ {t} : rows'[u] = rows[u]
        /\ \A u \in DOMAIN cache \ {t} : cache'[u] = cache[u]
        /\ ~UNCHANGED board => rows'[t] = r /\ cache'[t] = r
    <2>1. CASE UNCHANGED board
      BY <1>2, <2>1 DEF board, BoardTypes
    <2>2. CASE ~UNCHANGED board
      <3>1. /\ rows' = Extend(rows, t, r) /\ cache' = Extend(cache, t, r)
            /\ r \in Records /\ t \in DOMAIN rows
        BY <2>2 DEF Add
      <3>2. DOMAIN rows \cup {t} = DOMAIN rows
        BY <3>1
      <3> QED
        BY <1>2, <1>4, <2>2, <3>1, <3>2, BoardExtends DEF BoardTypes
    <2> QED
      BY <2>1, <2>2
  <1>0. Add(t, r) /\ r \in Records => t \in DOMAIN cache' /\ rows'[t] = r /\ cache'[t] = r
    <2> SUFFICES ASSUME Add(t, r), r \in Records
                 PROVE  t \in DOMAIN cache' /\ rows'[t] = r /\ cache'[t] = r
      OBVIOUS
    <2>1. rows' = Extend(rows, t, r) /\ cache' = Extend(cache, t, r)
      BY DEF Add
    <2>2. IsBoard(rows) /\ IsBoard(cache)
      BY <1>2 DEF BoardTypes
    <2>3. Extend(rows, t, r)[t] = r
      BY <1>4, <2>2, BoardExtends
    <2>4. Extend(cache, t, r)[t] = r
      BY <1>4, <2>2, BoardExtends
    <2>5. DOMAIN Extend(cache, t, r) = DOMAIN cache \cup {t}
      BY DEF Extend
    <2> QED
      BY <2>1, <2>3, <2>4, <2>5
  <1>6. TypeOK'
    BY <1>1, <1>2, <1>3, <1>5 DEF PlanInv, Sound, TypeOK, BoardTypes, ToolTypes, RestTypes
  <1>7. Dispatching /\ Dispatching'
    BY <1>1, <1>2 DEF BoardInv, ToolsAreOver, Idle, Dispatching
  <1>8. /\ ~Projecting(c)' /\ \A d \in Callers \ {c} : Projecting(d)' = Projecting(d)
    BY <1>3 DEF Projecting
  <1>9. \A d \in Callers \ {c} : Projecting(c) /\ Projecting(d) /\ mutation[d].task = t => t \in tangled
    BY <1>2 DEF BoardInv, Untangled
  <1>10. ToolsAreOver' /\ Numbered' /\ Following'
    BY <1>1, <1>2, <1>7 DEF BoardInv, ToolsAreOver, Numbered, Following, Nodes
  <1>11. Chosen'
    BY <1>1, <1>2, <1>7 DEF BoardInv, Chosen, Dispatching
  <1>12. Known'
    <2>1. Done(rows) \cup Done(cache) \subseteq Nodes(copy)
      BY <1>2, <1>7 DEF BoardInv, Known, Current
    <2>2. ASSUME NEW u, u \in Done(rows') \cup Done(cache') PROVE u \in Nodes(copy)
      <3>1. CASE UNCHANGED board
        BY <2>1, <2>2, <3>1 DEF board
      <3>2. CASE ~UNCHANGED board /\ u = t
        BY <1>5, <2>2, <3>2 DEF Done
      <3>3. CASE u # t
        BY <1>5, <2>1, <2>2, <3>3 DEF Done
      <3> QED
        BY <3>1, <3>2, <3>3
    <2> QED
      BY <1>1, <1>7, <2>2 DEF Known, Current, Nodes
  <1>13. Cached'
    <2>1. DOMAIN cache' \subseteq DOMAIN rows'
      BY <1>2, <1>5 DEF BoardInv, Cached
    <2>2. \A u \in DOMAIN cache' : rows'[u].superseded = cache'[u].superseded
      BY <1>2, <1>5 DEF BoardInv, Cached, board
    <2>3. ASSUME NEW u \in DOMAIN rows' \ DOMAIN cache'
          PROVE  \E d \in Callers :
                    at'[d] = "committed" /\ mutation'[d].op = "create" /\ mutation'[d].task = u
      <3>1. PICK d \in Callers :
                    at[d] = "committed" /\ mutation[d].op = "create" /\ mutation[d].task = u
        BY <1>2, <1>5 DEF BoardInv, Cached
      <3>2. ASSUME d = c PROVE FALSE
        <4>1. Projecting(c) /\ t = u /\ u \notin DOMAIN cache'
          BY <2>3, <3>1, <3>2 DEF Projecting
        <4> QED
          BY <1>0, <3>1, <3>2, <4>1 DEF board
      <3> QED
        BY <1>3, <3>1, <3>2
    <2> QED
      BY <2>1, <2>2, <2>3 DEF Cached
  <1>14. Untangled'
    BY <1>1, <1>2, <1>3, <1>8 DEF BoardInv, Untangled
  <1>15. ASSUME NEW d \in Callers PROVE Projects(d)'
    <2>1. CASE d = c
      BY <1>8, <2>1 DEF Projects
    <2>2. CASE d # c /\ Projecting(d)
      <3>1. /\ at'[d] = at[d] /\ mutation'[d] = mutation[d]
            /\ result'[d] = result[d] /\ held'[d] = held[d]
        BY <1>3, <2>2
      <3>2. Projects(d)
        BY <1>2 DEF BoardInv
      <3> DEFINE w == mutation[d].task
      <3>3. ASSUME w \notin tangled \cup reused, mutation[d].op = "create"
            PROVE  w \notin DOMAIN cache' /\ rows'[w] = rows[w]
        <4>1. w \notin DOMAIN cache /\ w \in DOMAIN rows
          BY <1>2, <2>2, <3>2, <3>3 DEF Projects, BoardInv, RowsMirrorPlan
        <4>2. CASE UNCHANGED board
          BY <4>1, <4>2 DEF board
        <4>3. CASE ~UNCHANGED board
          <5>1. w # t
            BY <1>9, <2>2, <3>3, <4>3
          <5> QED
            BY <1>5, <4>1, <5>1
        <4> QED
          BY <4>2, <4>3
      <3>4. ASSUME at[d] = "copied"
            PROVE  w \in DOMAIN cache' /\ cache'[w].superseded = cache[w].superseded
        <4>1. w \in DOMAIN cache /\ rows[w].superseded = cache[w].superseded
          BY <1>2, <2>2, <3>2, <3>4 DEF Projects, BoardInv, Cached
        <4>2. CASE UNCHANGED board
          BY <4>1, <4>2 DEF board
        <4>3. CASE ~UNCHANGED board
          BY <1>5, <4>1, <4>3
        <4> QED
          BY <4>2, <4>3
      <3> HIDE DEF w
      <3>5. /\ mutation[d].op = IF at[d] = "copied" THEN "depend" ELSE mutation[d].op
            /\ mutation[d].op \in {"create", "depend"} /\ w \in Nodes(result[d]) /\ w \in Nodes(stored)
            /\ w \notin tangled \cup reused =>
                 IF mutation[d].op = "create"
                 THEN w \notin DOMAIN cache /\ rows[w] = New(mutation[d].on)
                         /\ stored.deps[w] = mutation[d].on
                 ELSE result[d].deps[w] = stored.deps[w]
            /\ at[d] = "copied" =>
                 /\ w \in DOMAIN cache /\ held[d].superseded = cache[w].superseded
                 /\ IsDone(held[d]) => w \in Nodes(copy)
        BY <2>2, <3>2 DEF Projects, w
      <3>6. /\ w \notin tangled \cup reused =>
                 IF mutation[d].op = "create"
                 THEN w \notin DOMAIN cache' /\ rows'[w] = New(mutation[d].on)
                         /\ stored.deps[w] = mutation[d].on
                 ELSE result[d].deps[w] = stored.deps[w]
        BY <3>3, <3>5
      <3>7. at[d] = "copied" => w \in DOMAIN cache' /\ held[d].superseded = cache'[w].superseded
        BY <3>4, <3>5
      <3> QED
        BY <1>1, <3>1, <3>5, <3>6, <3>7 DEF Projects, Nodes, w
    <2>3. CASE d # c /\ ~Projecting(d)
      BY <1>8, <2>3 DEF Projects
    <2> QED
      BY <2>1, <2>2, <2>3
  <1>16. RowsMirrorPlan'
    <2>1. ASSUME NEW u \in DOMAIN rows', ~overwritten, u \notin reused \cup tangled
          PROVE  rows'[u].superseded <=> u \notin Nodes(stored) \ stored.skipped
      <3>1. rows[u].superseded <=> u \notin Nodes(stored) \ stored.skipped
        BY <1>2, <1>5, <2>1 DEF BoardInv, RowsMirrorPlan
      <3>2. rows'[u].superseded = rows[u].superseded
        BY <1>5, <2>1 DEF board
      <3> QED
        BY <3>1, <3>2
    <2>2. Nodes(stored) \subseteq DOMAIN rows'
      BY <1>2, <1>5 DEF BoardInv, RowsMirrorPlan
    <2> QED
      BY <1>1, <2>1, <2>2 DEF RowsMirrorPlan, Nodes
  <1>17. BoardFollowsPlan'
    <2> SUFFICES ASSUME ~overwritten, NEW u \in Nodes(stored) \cap DOMAIN cache',
                        u \notin stored.skipped \cup reused \cup tangled,
                        \A d \in Callers : ~(Projecting(d)' /\ mutation'[d].task = u)
                 PROVE  rows'[u].deps = stored.deps[u] /\ cache'[u].deps = stored.deps[u]
      BY <1>1 DEF BoardFollowsPlan, Nodes
    <2>1. CASE ~UNCHANGED board /\ u = t
      BY <1>5, <2>1
    <2>2. CASE ~(Projecting(c) /\ t = u) /\ (UNCHANGED board \/ u # t)
      <3>1. \A d \in Callers : ~(Projecting(d) /\ mutation[d].task = u)
        BY <1>3, <1>8, <2>2
      <3>2. u \in DOMAIN cache /\ rows'[u] = rows[u] /\ cache'[u] = cache[u]
        BY <1>2, <1>5, <2>2 DEF board, BoardInv, Cached
      <3> QED
        BY <1>2, <3>1, <3>2 DEF BoardInv, BoardFollowsPlan
    <2>3. CASE Projecting(c) /\ t = u /\ UNCHANGED board
      <3>1. u \in DOMAIN cache /\ u \notin tangled \cup reused
        BY <2>3 DEF board
      <3> QED
        BY <1>0, <2>3, <3>1
    <2> QED
      BY <2>1, <2>2, <2>3
  <1> QED
    BY <1>6, <1>10, <1>11, <1>12, <1>13, <1>14, <1>15, <1>16, <1>17 DEF TaskInv, BoardInv

LEMMA RejectKeeps ==
    ASSUME TaskInv, PlanInv', NEW c \in Callers, Reject(c)
    PROVE  TaskInv'
  <1>1. at[c] = "called" /\ ~Projecting(c) /\ Return(c) /\ projectionUnchanged /\ UNCHANGED board
    BY DEF Reject, Projecting, projectionUnchanged, board, histories
  <1> QED
    BY <1>1, ProjectionEnds

LEMMA ProjectTaskKeeps ==
    ASSUME TaskInv, PlanInv', NEW c \in Callers, ProjectTask(c)
    PROVE  TaskInv'
  <1> DEFINE m == mutation[c]
             t == m.task
  <1>1. /\ at[c] = "committed" /\ m.op = "create" /\ Projecting(c) /\ Return(c) /\ projectionUnchanged
        /\ IF t \in DOMAIN cache THEN UNCHANGED board ELSE Add(t, New(m.on))
    BY DEF ProjectTask, Projecting
  <1>2. Projects(c) /\ Nodes(stored) \subseteq DOMAIN rows /\ m.on \in SUBSET Ids
    BY TypesByGroup DEF TaskInv, BoardInv, RowsMirrorPlan, ToolTypes, Mutations
  <1>3. t \in Nodes(stored) /\ (t \notin tangled \cup reused =>
            t \notin DOMAIN cache /\ rows[t] = New(m.on) /\ stored.deps[t] = m.on)
    BY <1>1, <1>2 DEF Projects
  <1>4. CASE t \in DOMAIN cache
    BY <1>1, <1>3, <1>4, ProjectionEnds
  <1>5. CASE t \notin DOMAIN cache
    <2> DEFINE r == New(m.on)
    <2>1. r \in Records /\ r.deps = m.on /\ ~IsDone(r)
      BY <1>2, NewIsARecord
    <2>2. Add(t, r) /\ t \in DOMAIN rows
      BY <1>1, <1>2, <1>3, <1>5
    <2>3. t \in DOMAIN cache \/ t \notin tangled \cup reused => r.superseded = rows[t].superseded
      BY <1>3, <1>5
    <2>4. t \notin tangled \cup reused => r.deps = stored.deps[t]
      BY <1>3, <2>1
    <2> HIDE DEF r
    <2> QED
      BY <1>1, <2>1, <2>2, <2>3, <2>4, ProjectionEnds
  <1> QED
    BY <1>4, <1>5

LEMMA WriteRecordKeeps ==
    ASSUME TaskInv, PlanInv', NEW c \in Callers, WriteRecord(c)
    PROVE  TaskInv'
  <1> DEFINE t == mutation[c].task
             deps == result[c].deps[t]
             r == [held[c] EXCEPT !.deps = deps]
  <1>1. at[c] = "copied" /\ Projecting(c) /\ Add(t, r) /\ Return(c) /\ projectionUnchanged
    BY DEF WriteRecord, Projecting
  <1>2. Projects(c) /\ ToolTypes /\ Cached
    BY TypesByGroup DEF TaskInv, BoardInv
  <1>3. /\ mutation[c].op = "depend" /\ t \in Nodes(result[c])
        /\ t \in DOMAIN cache /\ held[c].superseded = cache[t].superseded
        /\ IsDone(held[c]) => t \in Nodes(copy)
        /\ t \notin tangled \cup reused => deps = stored.deps[t]
    BY <1>1, <1>2 DEF Projects
  <1>4. t \in DOMAIN rows /\ rows[t].superseded = cache[t].superseded
    BY <1>2, <1>3 DEF Cached
  <1>5. IsGraph(result[c]) /\ held[c] \in Records
    BY <1>2 DEF ToolTypes
  <1>6. deps \in SUBSET Ids
    BY <1>3, <1>5 DEF IsGraph, IsDeps, Nodes
  <1>7. r \in Records /\ r.deps = deps /\ r.superseded = held[c].superseded /\ r.status = held[c].status
    BY <1>5, <1>6 DEF Records
  <1>8. IsDone(r) => t \in Nodes(copy)
    BY <1>3, <1>7 DEF IsDone
  <1> HIDE DEF r
  <1> QED
    BY <1>1, <1>3, <1>4, <1>7, <1>8, ProjectionEnds

LEMMA ReadRecordKeeps ==
    ASSUME TaskInv, PlanInv', NEW c \in Callers, ReadRecord(c)
    PROVE  TaskInv'
  <1> DEFINE t == mutation[c].task
  <1>1. /\ at[c] = "committed" /\ mutation[c].op = "depend" /\ Projecting(c)
        /\ projectionUnchanged /\ UNCHANGED board
    BY DEF ReadRecord, Projecting
  <1>2. CASE t \notin DOMAIN cache
    <2>1. Return(c)
      BY <1>2 DEF ReadRecord
    <2> QED
      BY <1>1, <1>2, <2>1, ProjectionEnds
  <1>3. CASE t \in DOMAIN cache
    <2>1. /\ held' = [held EXCEPT ![c] = cache[t]] /\ at' = [at EXCEPT ![c] = "copied"]
          /\ UNCHANGED <<stored, applied, rows, cache, plan, copy, pc, todo, mutation, result,
                         taken, reused, tangled, overwritten, calls, revisions, crashes>>
      BY <1>1, <1>3 DEF ReadRecord, projectionUnchanged, board, histories
    <2>2. BoardTypes /\ ToolTypes /\ RestTypes /\ BoardInv /\ cache[t] \in Records
      BY <1>3, TypesByGroup DEF TaskInv, BoardTypes, IsBoard
    <2>3. BoardTypes' /\ ToolTypes' /\ RestTypes'
      BY <2>1, <2>2 DEF BoardTypes, ToolTypes, RestTypes
    <2>4. TypeOK'
      BY <2>3 DEF PlanInv, Sound, TypeOK, BoardTypes, ToolTypes, RestTypes
    <2>5. /\ at'[c] = "copied" /\ held'[c] = cache[t]
          /\ \A d \in Callers \ {c} : at'[d] = at[d] /\ held'[d] = held[d]
      BY <2>1, <2>2 DEF ToolTypes
    <2>6. \A d \in Callers : Projecting(d)' = Projecting(d)
      BY <1>1, <2>5 DEF Projecting
    <2>7. Dispatching /\ Dispatching'
      BY <1>1, <2>1, <2>2 DEF BoardInv, ToolsAreOver, Idle, Dispatching
    <2>8. Numbered' /\ Following' /\ Known' /\ Chosen' /\ RowsMirrorPlan'
      BY <2>1, <2>2 DEF BoardInv, Numbered, Following, Known, Chosen, RowsMirrorPlan,
         Dispatching, Nodes, Current, Done, Live
    <2>9. Cached' /\ ToolsAreOver'
      BY <1>1, <2>1, <2>2, <2>5, <2>7 DEF BoardInv, Cached, ToolsAreOver
    <2>10. Untangled' /\ BoardFollowsPlan'
      BY <2>1, <2>2, <2>6 DEF BoardInv, Untangled, BoardFollowsPlan, Nodes
    <2>11. IsDone(cache[t]) => t \in Nodes(copy)
      BY <1>3, <2>2, <2>7 DEF BoardInv, Known, Done, Current
    <2>12. ASSUME NEW d \in Callers PROVE Projects(d)'
      <3>1. Projects(d)
        BY <2>2 DEF BoardInv
      <3>2. CASE d = c
        BY <1>1, <1>3, <2>1, <2>5, <2>6, <2>11, <3>1, <3>2 DEF Projects, Nodes
      <3>3. CASE d # c
        BY <2>1, <2>5, <2>6, <3>1, <3>3 DEF Projects, Nodes
      <3> QED
        BY <3>2, <3>3
    <2> QED
      BY <2>4, <2>8, <2>9, <2>10, <2>12 DEF TaskInv, BoardInv
  <1> QED
    BY <1>2, <1>3

\* A mutation is committed: the plan has it now, and the board may not yet.
LEMMA CommitKeeps ==
    ASSUME TaskInv, PlanInv', NEW c \in Callers, Commit(c)
    PROVE  TaskInv'
  <1> DEFINE m == mutation[c]
             g == Mutated(m, stored)
             t == m.task
  <1>1. /\ at[c] = "called" /\ Accepts(m, stored) /\ stored' = g
        /\ applied' = (IF m.named THEN applied \cup {m} ELSE applied)
        /\ rows' = IF m.op = "create" /\ t \notin DOMAIN rows THEN Extend(rows, t, New(m.on)) ELSE rows
        /\ reused' = IF m.op = "create" /\ t \in DOMAIN rows THEN reused \cup {t} ELSE reused
        /\ tangled' = IF \E d \in Callers \ {c} : Projecting(d) /\ mutation[d].task = t
                      THEN tangled \cup {t} ELSE tangled
        /\ UNCHANGED <<cache, plan, copy, pc, todo, taken, overwritten, calls, revisions, crashes>>
    BY DEF Commit
  <1>2. BoardTypes /\ ToolTypes /\ RestTypes /\ BoardInv /\ Sound(stored)
    BY TypesByGroup DEF TaskInv, PlanInv
  <1>3. m \in Mutations /\ t \in Ids /\ m.on \in SUBSET Ids
    BY <1>2 DEF ToolTypes, Mutations
  <1>4. /\ Nodes(g) = Nodes(stored) \cup {t} /\ g.skipped = stored.skipped
        /\ \A u \in Nodes(stored) \ {t} : g.deps[u] = stored.deps[u]
        /\ m.op = "create" => t \notin Nodes(stored) /\ g.deps[t] = m.on
        /\ m.op # "create" => t \in Nodes(stored)
        /\ m.op = "update" => g.deps = stored.deps
        /\ g.version >= stored.version
        /\ g.version = stored.version => Signature(g) = Signature(stored)
    BY <1>1, <1>2, <1>3, MutationIs
  <1>5. Sound(g)
    BY <1>1, <1>2, <1>3, MutatedIsSound
  <1>6. IF m.op = "update" THEN Return(c)
        ELSE /\ at' = [at EXCEPT ![c] = "committed"]
             /\ result' = [result EXCEPT ![c] = g]
             /\ UNCHANGED <<mutation, held>>
    BY DEF Commit
  <1>7. m.op \in {"create", "depend", "update"}
    BY <1>3 DEF Mutations
  <1> HIDE DEF g
  <1>8. /\ ToolTypes'
        /\ m.op = "update" => at'[c] = "idle"
        /\ m.op # "update" => at'[c] = "committed" /\ mutation'[c] = m /\ result'[c] = g
        /\ \A d \in Callers \ {c} : /\ at'[d] = at[d] /\ mutation'[d] = mutation[d]
                                    /\ result'[d] = result[d] /\ held'[d] = held[d]
    <2>1. CASE m.op = "update"
      BY <1>2, <1>6, <2>1, ReturnIs
    <2>2. CASE m.op # "update"
      <3>1. IsGraph(g)
        BY <1>5 DEF Sound
      <3> QED
        BY <1>2, <1>6, <2>2, <3>1 DEF ToolTypes
    <2> QED
      BY <2>1, <2>2
  <1>9. /\ BoardTypes' /\ DOMAIN rows \subseteq DOMAIN rows'
        /\ \A u \in DOMAIN rows : rows'[u] = rows[u]
        /\ \A u \in DOMAIN rows' \ DOMAIN rows : u = t /\ m.op = "create" /\ rows'[u] = New(m.on)
        /\ m.op = "create" => t \in DOMAIN rows'
    <2>1. CASE m.op = "create" /\ t \notin DOMAIN rows
      <3>1. rows' = Extend(rows, t, New(m.on))
        BY <1>1, <2>1
      <3> DEFINE r == New(m.on)
      <3>2. r \in Records
        BY <1>3, NewIsARecord
      <3> HIDE DEF r
      <3>3. /\ IsBoard(Extend(rows, t, r)) /\ DOMAIN Extend(rows, t, r) = DOMAIN rows \cup {t}
            /\ Extend(rows, t, r)[t] = r
            /\ \A u \in DOMAIN rows \ {t} : Extend(rows, t, r)[u] = rows[u]
        BY <1>2, <1>3, <3>2, BoardExtends DEF BoardTypes
      <3>4. rows' = Extend(rows, t, r)
        BY <3>1 DEF r
      <3>5. IsBoard(rows')
        BY <3>3, <3>4
      <3> QED
        BY <1>1, <1>2, <2>1, <3>3, <3>4, <3>5 DEF BoardTypes, r
    <2>2. CASE ~(m.op = "create" /\ t \notin DOMAIN rows)
      BY <1>1, <1>2, <2>2 DEF BoardTypes
    <2> QED
      BY <2>1, <2>2
  <1>10. RestTypes'
    BY <1>1, <1>2, <1>3 DEF RestTypes
  <1>11. TypeOK'
    BY <1>8, <1>9, <1>10 DEF PlanInv, Sound, TypeOK, BoardTypes, ToolTypes, RestTypes
  <1>12. Dispatching /\ Dispatching' /\ ~Projecting(c)
    BY <1>1, <1>2 DEF BoardInv, ToolsAreOver, Idle, Dispatching, Projecting
  <1>13. \A d \in Callers \ {c} : Projecting(d)' = Projecting(d)
    BY <1>8 DEF Projecting
  <1>14. reused \subseteq reused' /\ tangled \subseteq tangled'
    BY <1>1
  <1>15. \A d \in Callers \ {c} : Projecting(d) /\ mutation[d].task = t => t \in tangled'
    BY <1>1
  <1>16. New(m.on).superseded = FALSE /\ ~IsDone(New(m.on))
    BY <1>3, NewIsARecord
  <1>17. ToolsAreOver'
    BY <1>12 DEF ToolsAreOver
  <1>18. Numbered' /\ Following'
    <2>1. stored.version \in Nat /\ g.version \in Nat /\ copy.version \in Nat
      BY <1>2, <1>5 DEF Sound, IsGraph, TaskInv, PlanInv
    <2>2. stored.version # 0 /\ g.version # 0
      BY <1>2, <1>4, <1>12, <2>1 DEF BoardInv, Numbered, Dispatching
    <2>3. Numbered'
      BY <1>1, <1>2, <1>4, <1>12, <2>2 DEF BoardInv, Numbered, Nodes
    <2>4. /\ copy.version <= stored.version
          /\ copy.version = stored.version => Signature(copy) = Signature(stored)
          /\ Nodes(copy) \subseteq Nodes(stored) /\ copy.skipped = stored.skipped
      BY <1>2, <1>12 DEF BoardInv, Following
    <2>5. copy.version <= g.version /\ (copy.version = g.version => Signature(copy) = Signature(g))
      BY <1>4, <2>1, <2>4
    <2>6. Nodes(copy) \subseteq Nodes(g) /\ copy.skipped = g.skipped
      BY <1>4, <2>4
    <2> QED
      BY <1>1, <2>3, <2>5, <2>6 DEF Following, Signature, Nodes
  <1>19. Cached'
    <2>1. DOMAIN cache \subseteq DOMAIN rows
      BY <1>2 DEF BoardInv, Cached
    <2>2. \A u \in DOMAIN cache : rows'[u].superseded = cache[u].superseded
      BY <1>2, <1>9, <2>1 DEF BoardInv, Cached
    <2>3. ASSUME NEW u \in DOMAIN rows' \ DOMAIN cache
          PROVE  \E d \in Callers :
                    at'[d] = "committed" /\ mutation'[d].op = "create" /\ mutation'[d].task = u
      <3>1. CASE u \in DOMAIN rows
        <4>1. PICK d \in Callers :
                    at[d] = "committed" /\ mutation[d].op = "create" /\ mutation[d].task = u
          BY <1>2, <2>3, <3>1 DEF BoardInv, Cached
        <4>2. d # c
          BY <1>1, <4>1
        <4> QED
          BY <1>8, <4>1, <4>2
      <3>2. CASE u \notin DOMAIN rows
        BY <1>8, <1>9, <2>3, <3>2
      <3> QED
        BY <3>1, <3>2
    <2> QED
      BY <1>1, <1>9, <2>1, <2>2, <2>3 DEF Cached
  <1>20. Known' /\ Chosen'
    <2>1. ASSUME NEW u, u \in Done(rows') PROVE u \in Done(rows)
      BY <1>9, <1>16, <2>1 DEF Done
    <2>2. Known'
      BY <1>1, <1>2, <1>12, <2>1 DEF BoardInv, Known, Current, Nodes, Done
    <2>3. todo = {}
      BY <1>2, <1>12 DEF BoardInv, Chosen, Dispatching
    <2> QED
      BY <1>1, <2>2, <2>3 DEF Chosen
  <1>21. Untangled'
    <2> SUFFICES ASSUME NEW d \in Callers, NEW e \in Callers, d # e, Projecting(d)', Projecting(e)',
                        mutation'[d].task = mutation'[e].task
                 PROVE  mutation'[d].task \in tangled'
      BY DEF Untangled
    <2>1. CASE d # c /\ e # c
      BY <1>2, <1>8, <1>13, <1>14, <2>1 DEF BoardInv, Untangled
    <2>2. CASE d = c \/ e = c
      <3>1. m.op # "update" /\ mutation'[c] = m
        BY <1>8, <2>2 DEF Projecting
      <3> QED
        BY <1>8, <1>13, <1>15, <2>2, <3>1
    <2> QED
      BY <2>1, <2>2
  <1>22. ASSUME NEW d \in Callers PROVE Projects(d)'
    <2>1. CASE ~Projecting(d)'
      BY <2>1 DEF Projects
    <2>2. CASE d = c /\ Projecting(d)'
      <3>1. m.op \in {"create", "depend"} /\ at'[c] = "committed" /\ mutation'[c] = m /\ result'[c] = g
        BY <1>7, <1>8, <2>2 DEF Projecting
      <3>2. t \in Nodes(result'[c]) /\ t \in Nodes(stored')
        BY <1>1, <1>4, <3>1
      <3>3. ASSUME t \notin tangled' \cup reused', m.op = "create"
            PROVE  t \notin DOMAIN cache' /\ rows'[t] = New(m.on) /\ stored'.deps[t] = m.on
        <4>1. t \notin DOMAIN rows
          BY <1>1, <3>3
        <4>2. t \notin DOMAIN cache
          BY <1>2, <4>1 DEF BoardInv, Cached
        <4> QED
          BY <1>1, <1>4, <1>9, <3>3, <4>1, <4>2
      <3>4. result'[c].deps[t] = stored'.deps[t]
        BY <1>1, <3>1
      <3> QED
        BY <2>2, <3>1, <3>2, <3>3, <3>4 DEF Projects, Nodes
    <2>3. CASE d # c /\ Projecting(d)'
      <3> DEFINE w == mutation[d].task
      <3>1. /\ at'[d] = at[d] /\ mutation'[d] = mutation[d] /\ result'[d] = result[d]
            /\ held'[d] = held[d] /\ Projecting(d) /\ Projects(d)
        BY <1>2, <1>8, <1>13, <2>3 DEF BoardInv
      <3>2. /\ mutation[d].op = IF at[d] = "copied" THEN "depend" ELSE mutation[d].op
            /\ mutation[d].op \in {"create", "depend"} /\ w \in Nodes(result[d]) /\ w \in Nodes(stored)
            /\ w \notin tangled \cup reused =>
                 IF mutation[d].op = "create"
                 THEN w \notin DOMAIN cache /\ rows[w] = New(mutation[d].on)
                         /\ stored.deps[w] = mutation[d].on
                 ELSE result[d].deps[w] = stored.deps[w]
            /\ at[d] = "copied" =>
                 /\ w \in DOMAIN cache /\ held[d].superseded = cache[w].superseded
                 /\ IsDone(held[d]) => w \in Nodes(copy)
        BY <3>1 DEF Projects
      <3>3. w \notin tangled' => w # t
        BY <1>15, <2>3, <3>1
      <3>4. w \in DOMAIN rows
        BY <1>2, <3>2 DEF BoardInv, RowsMirrorPlan
      <3>5. w # t => rows'[w] = rows[w] /\ g.deps[w] = stored.deps[w]
        BY <1>4, <1>9, <3>2, <3>4
      <3>6. w \notin tangled' \cup reused' =>
                 IF mutation[d].op = "create"
                 THEN w \notin DOMAIN cache /\ rows'[w] = New(mutation[d].on)
                         /\ g.deps[w] = mutation[d].on
                 ELSE result[d].deps[w] = g.deps[w]
        BY <1>14, <3>2, <3>3, <3>5
      <3>7. w \in Nodes(stored')
        BY <1>1, <1>4, <3>2
      <3> HIDE DEF w
      <3>8. w = mutation'[d].task
        BY <3>1 DEF w
      <3> QED
        BY <1>1, <3>1, <3>2, <3>6, <3>7, <3>8 DEF Projects, Nodes
    <2> QED
      BY <2>1, <2>2, <2>3
  <1>23. RowsMirrorPlan'
    <2>1. Nodes(g) \subseteq DOMAIN rows'
      BY <1>2, <1>4, <1>9 DEF BoardInv, RowsMirrorPlan
    <2>2. ASSUME NEW u \in DOMAIN rows', ~overwritten, u \notin reused' \cup tangled'
          PROVE  rows'[u].superseded <=> u \notin Nodes(g) \ g.skipped
      <3>1. CASE u \in DOMAIN rows
        <4>1. rows[u].superseded <=> u \notin Nodes(stored) \ stored.skipped
          BY <1>2, <1>14, <2>2, <3>1 DEF BoardInv, RowsMirrorPlan
        <4>2. u \in Nodes(g) <=> u \in Nodes(stored)
          BY <1>1, <1>4, <2>2, <3>1
        <4> QED
          BY <1>4, <1>9, <3>1, <4>1, <4>2
      <3>2. CASE u \notin DOMAIN rows
        <4>1. u = t /\ m.op = "create" /\ rows'[u] = New(m.on)
          BY <1>9, <2>2, <3>2
        <4>2. t \notin stored.skipped
          BY <1>2, <1>4, <4>1 DEF BoardInv, Numbered
        <4> QED
          BY <1>4, <1>16, <4>1, <4>2
      <3> QED
        BY <3>1, <3>2
    <2> QED
      BY <1>1, <2>1, <2>2 DEF RowsMirrorPlan, Nodes
  <1>24. BoardFollowsPlan'
    <2> SUFFICES ASSUME ~overwritten, NEW u \in Nodes(g) \cap DOMAIN cache,
                        u \notin g.skipped \cup reused' \cup tangled',
                        \A d \in Callers : ~(Projecting(d)' /\ mutation'[d].task = u)
                 PROVE  rows'[u].deps = g.deps[u] /\ cache[u].deps = g.deps[u]
      BY <1>1 DEF BoardFollowsPlan, Nodes
    <2>1. u \in DOMAIN rows
      BY <1>2 DEF BoardInv, Cached
    <2>2. u = t => m.op = "update"
      BY <1>8 DEF Projecting
    <2>3. u \in Nodes(stored) /\ g.deps[u] = stored.deps[u]
      BY <1>4, <2>2
    <2>4. \A d \in Callers : ~(Projecting(d) /\ mutation[d].task = u)
      BY <1>8, <1>12, <1>13
    <2>5. rows[u].deps = stored.deps[u] /\ cache[u].deps = stored.deps[u]
      BY <1>2, <1>4, <1>14, <2>3, <2>4 DEF BoardInv, BoardFollowsPlan
    <2> QED
      BY <1>9, <2>1, <2>3, <2>5
  <1> QED
    BY <1>11, <1>17, <1>18, <1>19, <1>20, <1>21, <1>22, <1>23, <1>24 DEF TaskInv, BoardInv

-----------------------------------------------------------------------------
(* The scheduler.                                                          *)

\* What claims, results and copies put back have in common: one record, in the row
\* and in the cache, with the dependencies of one of them or of neither, and then
\* the task is tangled.
LEMMA SchedulerWrites ==
    ASSUME TaskInv, PlanInv', Dispatching, NEW t \in DOMAIN cache, NEW r \in Records,
           BoardTypes', DOMAIN rows' = DOMAIN rows, DOMAIN cache' = DOMAIN cache,
           \A u \in DOMAIN rows \ {t} : rows'[u] = rows[u],
           \A u \in DOMAIN cache \ {t} : cache'[u] = cache[u],
           rows'[t] = r, cache'[t] = r, r.superseded = cache[t].superseded,
           r.deps \in {rows[t].deps, cache[t].deps} \/ t \in tangled',
           IsDone(r) => t \in Nodes(copy),
           tangled' \in {tangled, tangled \cup {t}},
           taken' \subseteq taken,
           UNCHANGED <<stored, applied, plan, copy, pc, todo, at, mutation, result, held,
                       reused, overwritten, calls, revisions, crashes>>
    PROVE  TaskInv'
  <1>1. tangled \subseteq tangled'
    OBVIOUS
  <1>2. ToolTypes /\ RestTypes /\ BoardInv
    BY TypesByGroup DEF TaskInv
  <1>14. t \in Ids
    BY DEF TaskInv, TypeOK, IsBoard
  <1>3. ToolTypes' /\ RestTypes'
    BY <1>1, <1>2, <1>14 DEF ToolTypes, RestTypes
  <1>4. TypeOK'
    BY <1>3 DEF PlanInv, Sound, TypeOK, BoardTypes, ToolTypes, RestTypes
  <1>5. Dispatching /\ Dispatching' /\ \A d \in Callers : Projecting(d)' = Projecting(d)
    BY <1>1 DEF Dispatching, Projecting
  <1>6. t \in DOMAIN rows /\ rows[t].superseded = cache[t].superseded
    BY <1>2 DEF BoardInv, Cached
  <1>7. ToolsAreOver' /\ Numbered' /\ Following' /\ Untangled'
    BY <1>1, <1>2, <1>5 DEF BoardInv, ToolsAreOver, Numbered, Following, Untangled, Nodes
  <1>8. Cached'
    BY <1>1, <1>2 DEF BoardInv, Cached
  <1>9. Known'
    <2>1. ASSUME NEW u, u \in Done(rows') \cup Done(cache'), u # t
          PROVE  u \in Done(rows) \cup Done(cache)
      BY <2>1 DEF Done
    <2>2. t \in Done(rows') \cup Done(cache') => t \in Nodes(copy)
      BY DEF Done
    <2>3. Done(rows) \cup Done(cache) \subseteq Nodes(copy)
      BY <1>2, <1>5 DEF BoardInv, Known, Current
    <2> QED
      BY <1>1, <1>5, <2>1, <2>2, <2>3 DEF Known, Current, Nodes
  <1>10. Chosen'
    <2>1. todo = {}
      BY <1>2 DEF BoardInv, Chosen, Dispatching
    <2> QED
      BY <1>1, <2>1 DEF Chosen
  <1>11. ASSUME NEW d \in Callers PROVE Projects(d)'
    <2>1. CASE ~Projecting(d)
      BY <1>5, <2>1 DEF Projects
    <2>2. CASE Projecting(d)
      <3> DEFINE w == mutation[d].task
      <3>1. /\ mutation[d].op = IF at[d] = "copied" THEN "depend" ELSE mutation[d].op
            /\ mutation[d].op \in {"create", "depend"} /\ w \in Nodes(result[d]) /\ w \in Nodes(stored)
            /\ w \notin tangled \cup reused =>
                 IF mutation[d].op = "create"
                 THEN w \notin DOMAIN cache /\ rows[w] = New(mutation[d].on)
                         /\ stored.deps[w] = mutation[d].on
                 ELSE result[d].deps[w] = stored.deps[w]
            /\ at[d] = "copied" =>
                 /\ w \in DOMAIN cache /\ held[d].superseded = cache[w].superseded
                 /\ IsDone(held[d]) => w \in Nodes(copy)
        BY <1>2, <2>2 DEF BoardInv, Projects
      <3>2. w \notin DOMAIN cache => rows'[w] = rows[w]
        BY <1>2, <3>1 DEF BoardInv, RowsMirrorPlan
      <3>3. w \in DOMAIN cache => cache'[w].superseded = cache[w].superseded
        OBVIOUS
      <3> HIDE DEF w
      <3>4. w = mutation'[d].task
        BY <1>1 DEF w
      <3> QED
        BY <1>1, <1>5, <2>2, <3>1, <3>2, <3>3, <3>4 DEF Projects, Nodes
    <2> QED
      BY <2>1, <2>2
  <1>12. RowsMirrorPlan'
    <2>1. \A u \in DOMAIN rows : rows'[u].superseded = rows[u].superseded
      BY <1>6
    <2> QED
      BY <1>1, <1>2, <2>1 DEF BoardInv, RowsMirrorPlan, Nodes
  <1>13. BoardFollowsPlan'
    <2> SUFFICES ASSUME ~overwritten, NEW u \in Nodes(stored) \cap DOMAIN cache,
                        u \notin stored.skipped \cup reused \cup tangled',
                        \A d \in Callers : ~(Projecting(d) /\ mutation[d].task = u)
                 PROVE  rows'[u].deps = stored.deps[u] /\ cache'[u].deps = stored.deps[u]
      BY <1>1, <1>5 DEF BoardFollowsPlan, Nodes
    <2>1. rows[u].deps = stored.deps[u] /\ cache[u].deps = stored.deps[u]
      BY <1>2 DEF BoardInv, BoardFollowsPlan
    <2>2. u \in DOMAIN rows
      BY <1>2 DEF BoardInv, Cached
    <2> QED
      BY <2>1, <2>2
  <1> QED
    BY <1>4, <1>7, <1>8, <1>9, <1>10, <1>11, <1>12, <1>13 DEF TaskInv, BoardInv

LEMMA ClaimKeeps ==
    ASSUME TaskInv, PlanInv', NEW t, Claim(t)
    PROVE  TaskInv'
  <1>1. /\ pc = "dispatching" /\ t \in DOMAIN cache
        /\ rows' = [rows EXCEPT ![t].status = "claimed"] /\ cache' = [cache EXCEPT ![t] = rows'[t]]
        /\ UNCHANGED <<copy, pc, histories>> /\ schedulerUnchanged
    BY DEF Claim
  <1>9. /\ Dispatching /\ tangled' \in {tangled, tangled \cup {t}} /\ taken' \subseteq taken
        /\ UNCHANGED <<stored, applied, plan, copy, pc, todo, at, mutation, result, held,
                       reused, overwritten, calls, revisions, crashes>>
    BY <1>1 DEF Dispatching, schedulerUnchanged, tools, histories
  <1>2. /\ IsBoard(rows) /\ IsBoard(cache) /\ t \in DOMAIN rows
        /\ rows[t].superseded = cache[t].superseded
    BY <1>1 DEF TaskInv, TypeOK, BoardInv, Cached
  <1>3. rows[t] \in Records /\ "claimed" \in TaskStatus
    BY <1>2 DEF IsBoard, TaskStatus
  <1> DEFINE r == [rows[t] EXCEPT !.status = "claimed"]
  <1>4. /\ r \in Records /\ r.deps = rows[t].deps /\ r.status = "claimed"
        /\ r.superseded = rows[t].superseded
    BY <1>3 DEF Records
  <1>5. rows' = [rows EXCEPT ![t] = r]
    BY <1>1
  <1> HIDE DEF r
  <1>6. /\ rows'[t] = r /\ cache'[t] = r
        /\ DOMAIN rows' = DOMAIN rows /\ DOMAIN cache' = DOMAIN cache
        /\ \A u \in DOMAIN rows \ {t} : rows'[u] = rows[u]
        /\ \A u \in DOMAIN cache \ {t} : cache'[u] = cache[u]
    BY <1>1, <1>2, <1>5 DEF IsBoard
  <1>7. BoardTypes'
    BY <1>1, <1>2, <1>4, <1>5, <1>6 DEF BoardTypes, IsBoard
  <1>8. ~IsDone(r)
    BY <1>4 DEF IsDone
  <1> QED
    BY <1>1, <1>2, <1>4, <1>6, <1>7, <1>8, <1>9, SchedulerWrites

\* What SchedulerWrites asks of row and cache is what add() does to a record that
\* is there already.
LEMMA AddKeeps ==
    ASSUME TaskInv, PlanInv', Dispatching, NEW t \in DOMAIN cache, NEW r \in Records, Add(t, r),
           r.superseded = cache[t].superseded,
           r.deps = cache[t].deps \/ t \in tangled',
           IsDone(r) => t \in Nodes(copy),
           tangled' \in {tangled, tangled \cup {t}},
           taken' \subseteq taken,
           UNCHANGED <<stored, applied, plan, copy, pc, todo, at, mutation, result, held,
                       reused, overwritten, calls, revisions, crashes>>
    PROVE  TaskInv'
  <1>1. /\ IsBoard(rows) /\ IsBoard(cache) /\ t \in DOMAIN rows /\ t \in Ids
    BY DEF TaskInv, TypeOK, BoardInv, Cached, IsBoard
  <1>2. rows' = Extend(rows, t, r) /\ cache' = Extend(cache, t, r)
    BY DEF Add
  <1>3. /\ IsBoard(rows') /\ DOMAIN rows' = DOMAIN rows \cup {t} /\ rows'[t] = r
        /\ \A u \in DOMAIN rows \ {t} : rows'[u] = rows[u]
    <2>1. /\ IsBoard(Extend(rows, t, r)) /\ DOMAIN Extend(rows, t, r) = DOMAIN rows \cup {t}
          /\ Extend(rows, t, r)[t] = r
          /\ \A u \in DOMAIN rows \ {t} : Extend(rows, t, r)[u] = rows[u]
      BY <1>1, BoardExtends
    <2> QED
      BY <1>2, <2>1
  <1>4. /\ IsBoard(cache') /\ DOMAIN cache' = DOMAIN cache \cup {t} /\ cache'[t] = r
        /\ \A u \in DOMAIN cache \ {t} : cache'[u] = cache[u]
    <2>1. /\ IsBoard(Extend(cache, t, r)) /\ DOMAIN Extend(cache, t, r) = DOMAIN cache \cup {t}
          /\ Extend(cache, t, r)[t] = r
          /\ \A u \in DOMAIN cache \ {t} : Extend(cache, t, r)[u] = cache[u]
      BY <1>1, BoardExtends
    <2> QED
      BY <1>2, <2>1
  <1>5. DOMAIN rows' = DOMAIN rows /\ DOMAIN cache' = DOMAIN cache
    BY <1>1, <1>3, <1>4
  <1>6. BoardTypes'
    BY <1>3, <1>4 DEF BoardTypes
  <1> QED
    BY <1>3, <1>4, <1>5, <1>6, SchedulerWrites

LEMMA FinishKeeps ==
    ASSUME TaskInv, PlanInv', NEW t, Finish(t)
    PROVE  TaskInv'
  <1>1. /\ pc = "dispatching" /\ t \in DOMAIN cache
        /\ UNCHANGED <<copy, pc, histories>> /\ schedulerUnchanged
    BY DEF Finish
  <1>2. PICK s \in IF t \in Nodes(copy) THEN {"succeeded", "repair_required", "failed", "pending"}
                   ELSE {"failed", "pending"} :
           Add(t, [cache[t] EXCEPT !.status = s])
    BY DEF Finish
  <1>3. /\ Dispatching /\ tangled' \in {tangled, tangled \cup {t}} /\ taken' \subseteq taken
        /\ UNCHANGED <<stored, applied, plan, copy, pc, todo, at, mutation, result, held,
                       reused, overwritten, calls, revisions, crashes>>
    BY <1>1 DEF Dispatching, schedulerUnchanged, tools, histories
  <1>4. cache[t] \in Records /\ s \in TaskStatus
    BY <1>1 DEF TaskInv, TypeOK, IsBoard, TaskStatus
  <1> DEFINE r == [cache[t] EXCEPT !.status = s]
  <1>5. /\ r \in Records /\ r.deps = cache[t].deps /\ r.status = s
        /\ r.superseded = cache[t].superseded
    BY <1>4 DEF Records
  <1> HIDE DEF r
  <1>6. IsDone(r) => t \in Nodes(copy)
    BY <1>5 DEF IsDone
  <1>7. Add(t, r)
    BY <1>2 DEF r
  <1> QED
    BY <1>1, <1>3, <1>5, <1>6, <1>7, AddKeeps

\* A copy is a claimed record with the mark the record still has: nothing is
\* superseded while the scheduler dispatches.
LEMMA TakeCopyKeeps ==
    ASSUME TaskInv, PlanInv', NEW t, TakeCopy(t)
    PROVE  TaskInv'
  <1>1. /\ t \in DOMAIN cache /\ taken' = taken \cup {[task |-> t, record |-> cache[t]]}
        /\ UNCHANGED <<stored, applied, rows, cache, plan, copy, pc, todo, at, mutation, result,
                       held, reused, tangled, overwritten, calls, revisions, crashes>>
    BY DEF TakeCopy, board, histories
  <1>2. TypeOK /\ BoardInv
    BY DEF TaskInv
  <1>3. [task |-> t, record |-> cache[t]] \in [task : Ids, record : Records]
    BY <1>1, <1>2 DEF TypeOK, IsBoard
  <1>4. TypeOK'
    BY <1>1, <1>2, <1>3 DEF TypeOK
  <1> QED
    BY <1>1, <1>2, <1>4, BoardInvStays DEF TaskInv

LEMMA PutBackKeeps ==
    ASSUME TaskInv, CopyInv, PlanInv', NEW k, PutBack(k)
    PROVE  TaskInv'
  <1> DEFINE t == k.task
  <1>1. /\ k \in taken /\ t \in DOMAIN cache /\ k.record \in Records
        /\ k.record.superseded = cache[t].superseded /\ k.record.status = "claimed"
    BY DEF PutBack, CopyInv, TaskInv, TypeOK
  <1>2. PICK s \in {k.record.status} \cup
                   (IF t \in Nodes(copy) THEN {"repair_required"} ELSE {}) :
           Add(t, [k.record EXCEPT !.status = s])
    BY DEF PutBack
  <1>3. /\ Dispatching /\ tangled' \in {tangled, tangled \cup {t}} /\ taken' \subseteq taken
        /\ k.record.deps = cache[t].deps \/ t \in tangled'
        /\ UNCHANGED <<stored, applied, plan, copy, pc, todo, at, mutation, result, held,
                       reused, overwritten, calls, revisions, crashes>>
    BY <1>1 DEF PutBack, Dispatching
  <1> DEFINE r == [k.record EXCEPT !.status = s]
  <1>4. s \in TaskStatus /\ (s = "claimed" \/ t \in Nodes(copy))
    BY <1>1, <1>2 DEF TaskStatus
  <1>5. /\ r \in Records /\ r.deps = k.record.deps /\ r.status = s
        /\ r.superseded = k.record.superseded
    BY <1>1, <1>4 DEF Records
  <1>7. Add(t, r)
    BY <1>2
  <1> HIDE DEF r, t
  <1>6. IsDone(r) => t \in Nodes(copy)
    BY <1>4, <1>5 DEF IsDone
  <1> QED
    BY <1>1, <1>3, <1>5, <1>6, <1>7, AddKeeps

\* The scheduler goes on with the newer of its copy and the stored plan.
LEMMA RefreshKeeps ==
    ASSUME TaskInv, PlanInv', Refresh
    PROVE  TaskInv'
  <1>1. /\ pc \in {"dispatching", "ending"} /\ pc' \in {"dispatching", "ending"}
        /\ copy' = (IF stored.version > copy.version THEN stored ELSE copy)
        /\ UNCHANGED <<stored, applied, rows, cache, plan, todo, at, mutation, result, held, taken, reused,
                       tangled, overwritten, calls, revisions, crashes>>
    BY DEF Refresh, Refreshed, schedulerUnchanged, tools, histories, board
  <1>2. BoardTypes /\ ToolTypes /\ RestTypes /\ BoardInv
    BY TypesByGroup DEF TaskInv
  <1>3. BoardTypes' /\ ToolTypes' /\ RestTypes'
    BY <1>1, <1>2 DEF BoardTypes, ToolTypes, RestTypes
  <1>4. TypeOK'
    BY <1>3 DEF PlanInv, Sound, TypeOK, BoardTypes, ToolTypes, RestTypes
  <1>5. Dispatching /\ Dispatching' /\ \A d \in Callers : Projecting(d)' = Projecting(d)
    BY <1>1 DEF Dispatching, Projecting
  <1>6. stored.version \in Nat /\ copy.version \in Nat
    BY DEF TaskInv, PlanInv, Sound, IsGraph
  <1>7. Nodes(copy) \subseteq Nodes(copy') /\ Following'
    BY <1>1, <1>2, <1>5, <1>6 DEF BoardInv, Following, Nodes
  <1>8. Numbered'
    BY <1>1, <1>2, <1>5, <1>6 DEF BoardInv, Numbered, Dispatching, Nodes
  <1>9. ToolsAreOver' /\ Cached' /\ Untangled'
    BY <1>1, <1>2, <1>5 DEF BoardInv, ToolsAreOver, Cached, Untangled
  <1>10. Known' /\ Chosen'
    BY <1>1, <1>2, <1>5, <1>7 DEF BoardInv, Known, Chosen, Current, Done, Dispatching
  <1>11. ASSUME NEW d \in Callers PROVE Projects(d)'
    <2>1. Projects(d)
      BY <1>2 DEF BoardInv
    <2> QED
      BY <1>1, <1>5, <1>7, <2>1 DEF Projects, Nodes
  <1>12. RowsMirrorPlan' /\ BoardFollowsPlan'
    BY <1>1, <1>2, <1>5 DEF BoardInv, RowsMirrorPlan, BoardFollowsPlan, Nodes
  <1> QED
    BY <1>4, <1>7, <1>8, <1>9, <1>10, <1>11, <1>12 DEF TaskInv, BoardInv

-----------------------------------------------------------------------------
(* Repairs and crashes.                                                    *)

\* A repair takes its target's place: the target's record has the dependencies of
\* the plan, as it is live, and so the copy with the superseded mark is written.
LEMMA RepairKeeps ==
    ASSUME TaskInv, PlanInv', NEW t, Repair(t)
    PROVE  TaskInv'
  <1>1. PICK r \in Ids \ (DOMAIN rows \cup Nodes(stored)) :
          LET g == Repaired(stored, t, r)
              record(u) ==
                CASE u = r -> New(g.deps[r])
                  [] u # r /\ u \in Nodes(g) /\ cache[u].deps # g.deps[u] ->
                        [cache[u] EXCEPT !.deps = g.deps[u]]
                  [] u = t /\ cache[u].deps = g.deps[u] -> Supersede(cache[u])
                  [] OTHER -> cache[u]
          IN
          /\ stored' = g
          /\ cache' = [u \in DOMAIN cache \cup {r} |-> record(u)]
          /\ rows' = [u \in DOMAIN rows \cup {r} |->
                        IF u \in DOMAIN cache' THEN cache'[u] ELSE rows[u]]
    BY DEF Repair
  <1> DEFINE g == Repaired(stored, t, r)
  <1>2. /\ pc = "repairing" /\ t \in todo /\ t \in Nodes(stored) /\ todo' = todo \ {t}
        /\ UNCHANGED <<applied, plan, copy, pc, at, mutation, result, held, taken, reused, tangled,
                       overwritten, calls, revisions, crashes>>
    BY DEF Repair, tools, histories
  <1>3. BoardTypes /\ ToolTypes /\ RestTypes /\ BoardInv /\ Sound(stored)
    BY TypesByGroup DEF TaskInv, PlanInv
  <1>4. DOMAIN cache = DOMAIN rows
    BY <1>2, AllIsCached DEF Dispatching
  <1>5. /\ g.deps = [u \in Nodes(stored) \cup {r} |->
                        IF u = r THEN stored.deps[t]
                        ELSE {IF d = t THEN r ELSE d : d \in stored.deps[u]}]
        /\ g.skipped = stored.skipped \cup {t} /\ g.version = stored.version + 1
    BY DEF Repaired
  <1>6. g.deps[t] = stored.deps[t]
    <2>1. stored.deps[t] \subseteq Ids /\ t \notin stored.deps[t]
      <3>1. {t} \in SUBSET DOMAIN stored.deps /\ ~HasCycle(stored.deps)
        BY <1>2, <1>3 DEF Sound, Valid, Nodes
      <3>2. ~(stored.deps[t] \cap {t} # {})
        BY <3>1 DEF HasCycle
      <3> QED
        BY <1>2, <1>3, <3>2 DEF Sound, IsGraph, IsDeps, Nodes
    <2>2. g.deps[t] = {IF d = t THEN r ELSE d : d \in stored.deps[t]}
      BY <1>1, <1>2, <1>5
    <2>3. \A d \in stored.deps[t] : (IF d = t THEN r ELSE d) = d
      BY <2>1
    <2> QED
      BY <2>2, <2>3
  <1>7. Sound(g) /\ r \in Ids
    BY <1>2, <1>3, RepairIsSound
  <1>8. /\ stored' = g /\ DOMAIN cache' = DOMAIN cache \cup {r} /\ cache'[r] = New(g.deps[r])
        /\ \A u \in DOMAIN cache :
              /\ u \in Nodes(g) /\ cache[u].deps # g.deps[u] =>
                    cache'[u] = [cache[u] EXCEPT !.deps = g.deps[u]]
              /\ u = t /\ cache[u].deps = g.deps[u] => cache'[u] = Supersede(cache[u])
              /\ ~(u \in Nodes(g) /\ cache[u].deps # g.deps[u])
                 /\ ~(u = t /\ cache[u].deps = g.deps[u]) => cache'[u] = cache[u]
    <2> DEFINE record(u) ==
                CASE u = r -> New(g.deps[r])
                  [] u # r /\ u \in Nodes(g) /\ cache[u].deps # g.deps[u] ->
                        [cache[u] EXCEPT !.deps = g.deps[u]]
                  [] u = t /\ cache[u].deps = g.deps[u] -> Supersede(cache[u])
                  [] OTHER -> cache[u]
    <2>1. /\ stored' = g
          /\ cache' = [u \in DOMAIN cache \cup {r} |-> record(u)]
      BY <1>1
    <2>2. r \notin DOMAIN cache /\ r # t
      BY <1>1, <1>2, <1>4
    <2>3. record(r) = New(g.deps[r])
      BY <2>2
    <2>4. ASSUME NEW u \in DOMAIN cache
          PROVE  /\ u \in Nodes(g) /\ cache[u].deps # g.deps[u] =>
                       record(u) = [cache[u] EXCEPT !.deps = g.deps[u]]
                 /\ u = t /\ cache[u].deps = g.deps[u] => record(u) = Supersede(cache[u])
                 /\ ~(u \in Nodes(g) /\ cache[u].deps # g.deps[u])
                    /\ ~(u = t /\ cache[u].deps = g.deps[u]) => record(u) = cache[u]
      <3>1. u # r
        BY <2>2
      <3> QED
        BY <3>1
    <2> HIDE DEF record, g
    <2> QED
      BY <2>1, <2>3, <2>4
  <1>9. rows' = cache'
    <2>1. rows' = [u \in DOMAIN cache' |-> cache'[u]]
      BY <1>1, <1>4, <1>8
    <2>2. cache' = [u \in DOMAIN cache' |-> cache'[u]]
      BY <1>1
    <2> QED
      BY <2>1, <2>2
  <1>10. Nodes(g) = Nodes(stored) \cup {r}
    BY <1>5 DEF Nodes
  <1> HIDE DEF g
  <1>11. \A u \in Nodes(g) : g.deps[u] \in SUBSET Ids
    BY <1>7 DEF Sound, IsGraph, IsDeps, Nodes
  <1>12. /\ cache'[r] \in Records /\ cache'[r].deps = g.deps[r] /\ ~IsDone(cache'[r])
         /\ cache'[r].superseded = FALSE
    <2> DEFINE deps == g.deps[r]
    <2>1. deps \in SUBSET Ids /\ cache'[r] = New(deps)
      BY <1>8, <1>10, <1>11
    <2> HIDE DEF deps
    <2>2. /\ cache'[r] \in Records /\ cache'[r].deps = deps /\ ~IsDone(cache'[r])
          /\ cache'[r].superseded = FALSE
      BY <2>1, NewIsARecord
    <2> QED
      BY <2>2 DEF deps
  <1>13. ASSUME NEW u \in DOMAIN cache
         PROVE  /\ cache'[u] \in Records /\ cache'[u].status = cache[u].status
                /\ u # t => cache'[u].superseded = cache[u].superseded
                /\ cache[u].superseded => cache'[u].superseded
                /\ u \in Nodes(g) => cache'[u].deps = g.deps[u]
                /\ u = t /\ cache[u].deps = g.deps[u] => cache'[u].superseded
    <2>1. cache[u] \in Records
      BY <1>3 DEF BoardTypes, IsBoard
    <2>2. CASE u \in Nodes(g) /\ cache[u].deps # g.deps[u]
      <3>1. cache'[u] = [cache[u] EXCEPT !.deps = g.deps[u]]
        BY <1>8, <2>2
      <3>2. g.deps[u] \in SUBSET Ids
        BY <1>11, <2>2
      <3> QED
        BY <2>1, <2>2, <3>1, <3>2 DEF Records
    <2>3. CASE u = t /\ cache[u].deps = g.deps[u]
      <3>1. cache'[u] = Supersede(cache[u])
        BY <1>8, <2>3
      <3> QED
        BY <2>1, <2>3, <3>1 DEF Records, Supersede
    <2>4. CASE ~(u \in Nodes(g) /\ cache[u].deps # g.deps[u]) /\ ~(u = t /\ cache[u].deps = g.deps[u])
      <3>1. cache'[u] = cache[u]
        BY <1>8, <2>4
      <3> QED
        BY <2>1, <2>4, <3>1
    <2> QED
      BY <2>2, <2>3, <2>4
  <1>14. BoardTypes'
    <2>1. DOMAIN cache' \subseteq Ids
      BY <1>3, <1>7, <1>8 DEF BoardTypes, IsBoard
    <2>2. \A u \in DOMAIN cache' : cache'[u] \in Records
      BY <1>8, <1>12, <1>13
    <2>3. cache' = [u \in DOMAIN cache' |-> cache'[u]]
      BY <1>1
    <2> QED
      BY <1>9, <2>1, <2>2, <2>3 DEF BoardTypes, IsBoard
  <1>15. TypeOK'
    <2>1. ToolTypes' /\ RestTypes'
      BY <1>2, <1>3 DEF ToolTypes, RestTypes
    <2> QED
      BY <1>14, <2>1 DEF PlanInv, Sound, TypeOK, BoardTypes, ToolTypes, RestTypes
  <1>16. ~Dispatching /\ ~Dispatching' /\ \A d \in Callers : ~Projecting(d) /\ ~Projecting(d)'
    BY <1>2, <1>3 DEF Dispatching, BoardInv, ToolsAreOver, Idle, Projecting
  <1>17. ToolsAreOver' /\ Following' /\ Untangled' /\ Cached'
    BY <1>2, <1>3, <1>9, <1>16 DEF BoardInv, ToolsAreOver, Idle, Following, Untangled, Cached
  <1>18. Numbered'
    <2>1. stored.version \in Nat /\ g.version # 0
      BY <1>3, <1>5 DEF Sound, IsGraph
    <2>2. g.skipped \subseteq Nodes(g)
      BY <1>2, <1>3, <1>5, <1>10 DEF BoardInv, Numbered
    <2> QED
      BY <1>2, <1>3, <1>8, <1>16, <2>1, <2>2 DEF BoardInv, Numbered, Nodes
  <1>19. Known'
    <2>1. Done(rows) \cup Done(cache) \subseteq Nodes(stored)
      BY <1>3, <1>16 DEF BoardInv, Known, Current
    <2>2. ASSUME NEW u, u \in Done(cache') PROVE u \in Nodes(stored)
      <3>1. u \in DOMAIN cache /\ IsDone(cache'[u])
        BY <1>8, <1>12, <2>2 DEF Done
      <3>2. u \in Done(cache)
        BY <1>13, <3>1 DEF IsDone, Done
      <3> QED
        BY <2>1, <3>2
    <2> QED
      BY <1>8, <1>9, <1>10, <1>16, <2>2 DEF Known, Current, Nodes
  <1>20. Chosen'
    <2>1. \A u \in todo' : u \in DOMAIN cache /\ u # t /\ ~cache[u].superseded
      BY <1>2, <1>3 DEF BoardInv, Chosen, Live
    <2>2. \A u \in todo' : u \in DOMAIN cache' /\ ~cache'[u].superseded
      BY <1>8, <1>13, <2>1
    <2>3. todo' \subseteq Nodes(g)
      BY <1>2, <1>3, <1>10 DEF BoardInv, Chosen
    <2> QED
      BY <1>2, <1>8, <2>2, <2>3 DEF Chosen, Live, Nodes
  <1>21. \A d \in Callers : Projects(d)'
    BY <1>16 DEF Projects
  <1>22. RowsMirrorPlan'
    <2>1. Nodes(g) \subseteq DOMAIN rows'
      BY <1>3, <1>4, <1>8, <1>9, <1>10 DEF BoardInv, RowsMirrorPlan
    <2>2. ASSUME NEW u \in DOMAIN rows', ~overwritten, u \notin reused \cup tangled
          PROVE  rows'[u].superseded <=> u \notin Nodes(g) \ g.skipped
      <3>1. CASE u = r
        <4>1. r \notin stored.skipped /\ r # t
          BY <1>1, <1>2, <1>3 DEF BoardInv, Numbered
        <4> QED
          BY <1>5, <1>9, <1>10, <1>12, <3>1, <4>1
      <3>2. CASE u = t
        <4>1. t \in DOMAIN cache /\ ~cache[t].superseded /\ ~rows[t].superseded
          BY <1>2, <1>3 DEF BoardInv, Chosen, Live, Cached
        <4>2. t \notin stored.skipped
          BY <1>3, <1>4, <2>2, <3>2, <4>1 DEF BoardInv, RowsMirrorPlan
        <4>3. cache[t].deps = stored.deps[t]
          BY <1>2, <1>3, <1>16, <2>2, <3>2, <4>1, <4>2 DEF BoardInv, BoardFollowsPlan
        <4>4. rows'[t].superseded
          BY <1>6, <1>9, <1>13, <4>1, <4>3
        <4>5. t \in g.skipped
          BY <1>5
        <4> QED
          BY <3>2, <4>4, <4>5
      <3>3. CASE u # r /\ u # t
        <4>1. u \in DOMAIN rows /\ u \in DOMAIN cache
          BY <1>4, <1>8, <1>9, <2>2, <3>3
        <4>2. rows[u].superseded <=> u \notin Nodes(stored) \ stored.skipped
          BY <1>3, <2>2, <4>1 DEF BoardInv, RowsMirrorPlan
        <4>3. rows'[u].superseded = rows[u].superseded
          BY <1>3, <1>9, <1>13, <3>3, <4>1 DEF BoardInv, Cached
        <4> QED
          BY <1>5, <1>10, <3>3, <4>2, <4>3
      <3> QED
        BY <3>1, <3>2, <3>3
    <2> QED
      BY <1>2, <1>8, <2>1, <2>2 DEF RowsMirrorPlan, Nodes
  <1>23. BoardFollowsPlan'
    <2>1. \A u \in Nodes(g) \cap DOMAIN cache' : cache'[u].deps = g.deps[u]
      BY <1>8, <1>12, <1>13
    <2> QED
      BY <1>8, <1>9, <2>1 DEF BoardFollowsPlan, Nodes
  <1> QED
    BY <1>15, <1>17, <1>18, <1>19, <1>20, <1>21, <1>22, <1>23 DEF TaskInv, BoardInv

\* A crash empties the memory; the rows are as the last transaction left them.
LEMMA CrashKeeps ==
    ASSUME TaskInv, PlanInv', Crash
    PROVE  TaskInv'
  <1>1. /\ crashes < MaxCrashes /\ crashes' = crashes + 1
        /\ pc' = CASE pc \in {"choosing", "repairing"} -> "choosing"
                   [] pc = "routing" -> "routing"
                   [] OTHER -> "registering"
        /\ rows' = [t \in DOMAIN rows |->
                      IF rows[t].status = "claimed" THEN [rows[t] EXCEPT !.status = "pending"]
                      ELSE rows[t]]
        /\ cache' = rows' /\ copy' = NoGraph /\ todo' = {}
        /\ at' = [c \in Callers |-> "idle"] /\ mutation' = [c \in Callers |-> Nothing]
        /\ result' = [c \in Callers |-> NoGraph] /\ held' = [c \in Callers |-> New({})]
        /\ taken' = {}
        /\ tangled' = tangled \cup {mutation[c].task :
                        c \in {d \in Callers : Projecting(d) /\ mutation[d].op = "depend"}}
        /\ UNCHANGED <<stored, applied, plan, reused, overwritten, calls, revisions>>
    BY DEF Crash
  <1>2. BoardTypes /\ ToolTypes /\ RestTypes /\ BoardInv
    BY TypesByGroup DEF TaskInv
  <1>3. /\ DOMAIN rows' = DOMAIN rows
        /\ \A u \in DOMAIN rows :
              /\ rows'[u] \in Records /\ rows'[u].deps = rows[u].deps
              /\ rows'[u].superseded = rows[u].superseded
              /\ IsDone(rows'[u]) => IsDone(rows[u])
    <2>1. ASSUME NEW u \in DOMAIN rows
          PROVE  /\ rows'[u] \in Records /\ rows'[u].deps = rows[u].deps
                 /\ rows'[u].superseded = rows[u].superseded
                 /\ IsDone(rows'[u]) => IsDone(rows[u])
      <3>1. rows[u] \in Records
        BY <1>2 DEF BoardTypes, IsBoard
      <3>2. CASE rows[u].status = "claimed"
        <4>1. rows'[u] = [rows[u] EXCEPT !.status = "pending"]
          BY <1>1, <3>2
        <4> QED
          BY <3>1, <4>1 DEF Records, TaskStatus, IsDone
      <3>3. CASE rows[u].status # "claimed"
        <4>1. rows'[u] = rows[u]
          BY <1>1, <3>3
        <4> QED
          BY <3>1, <4>1
      <3> QED
        BY <3>2, <3>3
    <2> QED
      BY <1>1, <2>1
  <1>4. BoardTypes'
    BY <1>1, <1>2, <1>3 DEF BoardTypes, IsBoard
  <1>5. ToolTypes'
    <2>1. IsGraph(NoGraph) /\ New({}) \in Records
      BY EmptyIsSound, NewIsARecord DEF Sound
    <2> QED
      BY <1>1, <2>1, NothingIsAMutation DEF ToolTypes
  <1>6. RestTypes'
    <2>1. tangled' \subseteq Ids
      BY <1>1, <1>2 DEF RestTypes, ToolTypes, Mutations
    <2>2. crashes' \in 0..MaxCrashes
      BY <1>1, <1>2, TaskServiceAssumption DEF RestTypes
    <2>3. pc' \in {"registering", "routing", "choosing"}
      BY <1>1
    <2> QED
      BY <1>1, <1>2, <2>1, <2>2, <2>3 DEF RestTypes
  <1>7. TypeOK'
    BY <1>4, <1>5, <1>6 DEF PlanInv, Sound, TypeOK, BoardTypes, ToolTypes, RestTypes
  <1>8. ~Dispatching' /\ pc' # "stored" /\ \A d \in Callers : Idle(d)' /\ ~Projecting(d)'
    BY <1>1 DEF Dispatching, Idle, Projecting
  <1>9. ToolsAreOver' /\ Following' /\ Untangled' /\ Cached' /\ Chosen'
    BY <1>1, <1>8 DEF ToolsAreOver, Following, Untangled, Cached, Chosen
  <1>10. Numbered'
    <2>1. copy'.skipped \subseteq Nodes(copy')
      BY <1>1 DEF NoGraph
    <2>2. pc = "registering" => pc' = "registering"
      BY <1>1
    <2> QED
      BY <1>1, <1>2, <1>8, <2>1, <2>2 DEF BoardInv, Numbered, Nodes
  <1>11. Known'
    <2>1. Done(rows) \subseteq Nodes(stored)
      BY <1>2 DEF BoardInv, Known, Current, Following
    <2>2. Done(rows') \subseteq Done(rows)
      BY <1>3 DEF Done
    <2> QED
      BY <1>1, <1>8, <2>1, <2>2 DEF Known, Current, Nodes
  <1>12. \A d \in Callers : Projects(d)'
    BY <1>8 DEF Projects
  <1>13. RowsMirrorPlan'
    BY <1>1, <1>2, <1>3 DEF BoardInv, RowsMirrorPlan, Nodes
  <1>14. BoardFollowsPlan'
    <2> SUFFICES ASSUME ~overwritten, NEW u \in Nodes(stored) \cap DOMAIN rows,
                        u \notin stored.skipped \cup reused \cup tangled'
                 PROVE  rows[u].deps = stored.deps[u]
      BY <1>1, <1>3 DEF BoardFollowsPlan, Nodes
    <2>1. u \notin tangled
      BY <1>1
    <2>2. CASE u \in DOMAIN cache
      <3>1. ASSUME NEW d \in Callers, Projecting(d), mutation[d].task = u
            PROVE  FALSE
        <4>1. mutation[d].op # "depend"
          BY <1>1, <3>1
        <4> QED
          BY <1>2, <2>1, <2>2, <3>1, <4>1 DEF BoardInv, Projects
      <3> QED
        BY <1>2, <2>1, <2>2, <3>1 DEF BoardInv, BoardFollowsPlan
    <2>3. CASE u \notin DOMAIN cache
      <3>1. PICK d \in Callers :
                at[d] = "committed" /\ mutation[d].op = "create" /\ mutation[d].task = u
        BY <1>2, <2>3 DEF BoardInv, Cached
      <3> DEFINE on == mutation[d].on
      <3>2. rows[u] = New(on) /\ stored.deps[u] = on
        BY <1>2, <2>1, <3>1 DEF BoardInv, Projects, Projecting
      <3> HIDE DEF on
      <3> QED
        BY <3>2 DEF New
    <2> QED
      BY <2>2, <2>3
  <1> QED
    BY <1>7, <1>9, <1>10, <1>11, <1>12, <1>13, <1>14 DEF TaskInv, BoardInv

-----------------------------------------------------------------------------
(* The theorems.                                                           *)

LEMMA TaskInvInit == Init => TaskInv
  <1> SUFFICES ASSUME Init PROVE TaskInv
    OBVIOUS
  <1>1. PlanInv
    BY PlanInvInit
  <1>2. IsGraph(NoGraph) /\ New({}) \in Records
    BY EmptyIsSound, NewIsARecord DEF Sound
  <1>3. Nodes(NoGraph) = {} /\ NoGraph.skipped = {} /\ NoGraph.version = 0
    BY DEF NoGraph, Nodes
  <1>4. plan.version = 1 /\ plan.skipped = {}
    BY DEF Init, Planned
  <1>5. DOMAIN NoGraph.deps = {} /\ IsBoard(NoGraph.deps)
    BY DEF NoGraph, IsBoard
  <1>6. BoardTypes /\ ToolTypes /\ RestTypes
    <2>1. BoardTypes
      BY <1>5 DEF Init, BoardTypes
    <2>2. ToolTypes
      BY <1>2, NothingIsAMutation DEF Init, ToolTypes
    <2>3. RestTypes
      <3>1. calls = 0 /\ revisions = 0 /\ crashes = 0
        BY DEF Init
      <3>2. calls \in 0..MaxCalls /\ revisions \in 0..MaxRevisions /\ crashes \in 0..MaxCrashes
        BY <3>1, TaskServiceAssumption
      <3> QED
        BY <3>2 DEF Init, RestTypes
    <2> QED
      BY <2>1, <2>2, <2>3
  <1>7. TypeOK
    BY <1>1, <1>6, TypesByGroup
  <1>8. ~Dispatching /\ \A c \in Callers : Idle(c) /\ ~Projecting(c)
    BY DEF Init, Dispatching, Idle, Projecting
  <1>9. ToolsAreOver /\ Following /\ Untangled /\ Chosen
    BY <1>8 DEF Init, ToolsAreOver, Following, Untangled, Chosen
  <1>10. Numbered
    BY <1>3, <1>4, <1>8 DEF Init, Numbered
  <1>11. Cached /\ Known
    BY <1>5 DEF Init, Cached, Known, Done
  <1>12. \A c \in Callers : Projects(c)
    BY <1>8 DEF Projects
  <1>13. RowsMirrorPlan /\ BoardFollowsPlan
    BY <1>3, <1>5 DEF Init, RowsMirrorPlan, BoardFollowsPlan
  <1> QED
    BY <1>1, <1>7, <1>9, <1>10, <1>11, <1>12, <1>13 DEF TaskInv, BoardInv

LEMMA TaskInvStep == TaskInv /\ CopyInv /\ [Next]_vars => TaskInv'
  <1> SUFFICES ASSUME TaskInv, CopyInv, [Next]_vars PROVE TaskInv'
    OBVIOUS
  <1>1. PlanInv'
    BY PlanInvStep DEF TaskInv
  <1>2. CASE RegisterFirst \/ RegisterAgain \/ Replace
    BY <1>1, <1>2, RegisterFirstKeeps, RegisterAgainKeeps, ReplaceKeeps
  <1>3. CASE Store \/ Checkpoint \/ StartRepair \/ FinishRepair \/ Replan \/ End
    BY <1>1, <1>3, StoreKeeps, CheckpointKeeps, StartRepairKeeps, FinishRepairKeeps,
       ReplanKeeps, EndKeeps
  <1>4. CASE Route("choosing") \/ Route("registering")
    BY <1>1, <1>4, RoutesKeep
  <1>5. ASSUME NEW t, Repair(t) PROVE TaskInv'
    BY <1>1, <1>5, RepairKeeps
  <1>6. ASSUME NEW c \in Callers, NEW m \in Requests, Call(c, m) PROVE TaskInv'
    BY <1>1, <1>6, CallKeeps
  <1>7. ASSUME NEW c \in Callers,
               Commit(c) \/ Reject(c) \/ ProjectTask(c) \/ ReadRecord(c) \/ WriteRecord(c)
        PROVE  TaskInv'
    BY <1>1, <1>7, CommitKeeps, RejectKeeps, ProjectTaskKeeps, ReadRecordKeeps, WriteRecordKeeps
  <1>8. ASSUME NEW t, Claim(t) \/ Finish(t) PROVE TaskInv'
    BY <1>1, <1>8, ClaimKeeps, FinishKeeps
  <1>12. ASSUME NEW t, TakeCopy(t) \/ PutBack(t) PROVE TaskInv'
    BY <1>1, <1>12, TakeCopyKeeps, PutBackKeeps
  <1>9. CASE Refresh
    BY <1>1, <1>9, RefreshKeeps
  <1>10. CASE Crash
    BY <1>1, <1>10, CrashKeeps
  <1>11. CASE UNCHANGED vars
    <2>1. UNCHANGED <<stored, applied, rows, cache, plan, copy, pc, todo, at, mutation, result, held,
                      taken, reused, tangled, overwritten, calls, revisions, crashes>>
      BY <1>11 DEF vars
    <2>2. TypeOK /\ BoardInv
      BY DEF TaskInv
    <2>3. TypeOK'
      BY <2>1, <2>2 DEF TypeOK
    <2> QED
      BY <1>1, <2>1, <2>2, <2>3, BoardInvStays DEF TaskInv
  <1> QED
    BY <1>2, <1>3, <1>4, <1>5, <1>6, <1>7, <1>8, <1>9, <1>10, <1>11, <1>12
    DEF Next, Graph, Tool, Scheduling

\* No step of a dispatch changes a superseded mark, and none outside of it holds
\* a copy.
LEMMA CopyStep ==
    ASSUME TaskInv, CopyInv, [Next]_vars
    PROVE  CopyInv'
  <1>1. BoardInv /\ IsBoard(rows) /\ IsBoard(cache)
    BY DEF TaskInv, TypeOK
  <1>2. ASSUME taken' = {} PROVE CopyInv'
    BY <1>2 DEF CopyInv
  <1>3. ASSUME taken' = taken, Dispatching => Dispatching',
               \A u \in DOMAIN cache :
                  u \in DOMAIN cache' /\ cache'[u].superseded = cache[u].superseded
        PROVE  CopyInv'
    BY <1>3 DEF CopyInv
  <1>4. ASSUME \/ RegisterFirst \/ RegisterAgain \/ Replace \/ Checkpoint
               \/ Route("choosing") \/ Route("registering")
               \/ StartRepair \/ (\E t \in todo : Repair(t)) \/ FinishRepair \/ Replan \/ End
        PROVE  CopyInv'
    <2>1. ~Dispatching
      BY <1>4 DEF Dispatching, RegisterFirst, RegisterAgain, Replace, Checkpoint, Route,
         StartRepair, Repair, FinishRepair, Replan, End
    <2>2. taken' = taken
      BY <1>4 DEF Dispatched, tools, RegisterFirst, RegisterAgain, Replace, Checkpoint, Route,
         StartRepair, Repair, FinishRepair, Replan, End
    <2> QED
      BY <1>2, <2>1, <2>2 DEF CopyInv
  <1>5. CASE Store \/ Crash
    BY <1>2, <1>5 DEF Store, tools, Crash
  <1>6. ASSUME \/ Refresh \/ UNCHANGED vars
               \/ \E c \in Callers : \/ \E m \in Requests : Call(c, m)
                                     \/ Commit(c) \/ Reject(c) \/ ReadRecord(c)
        PROVE  CopyInv'
    <2>1. taken' = taken /\ cache' = cache /\ (Dispatching => Dispatching')
      BY <1>6 DEF Refresh, Call, Commit, Reject, ReadRecord, vars, Dispatching,
         schedulerUnchanged, projectionUnchanged, tools, board
    <2> QED
      BY <1>3, <2>1
  <1>7. ASSUME NEW t \in Ids, NEW r \in Records, cache' = Extend(cache, t, r), pc' = pc,
               taken' = taken, t \in DOMAIN cache => r.superseded = cache[t].superseded
        PROVE  CopyInv'
    <2>1. /\ DOMAIN cache' = DOMAIN cache \cup {t} /\ cache'[t] = r
          /\ \A u \in DOMAIN cache \ {t} : cache'[u] = cache[u]
      BY <1>1, <1>7, BoardExtends
    <2> QED
      BY <1>3, <1>7, <2>1 DEF Dispatching
  <1>8. ASSUME NEW c \in Callers, ProjectTask(c) \/ WriteRecord(c) PROVE CopyInv'
    <2> DEFINE t == mutation[c].task
    <2>1. pc' = pc /\ taken' = taken
      BY <1>8 DEF ProjectTask, WriteRecord, projectionUnchanged
    <2>2. mutation[c] \in Mutations /\ held[c] \in Records /\ t \in Ids /\ IsGraph(result[c])
      BY DEF TaskInv, TypeOK, Mutations
    <2>3. CASE cache' = cache
      BY <1>3, <2>1, <2>3 DEF Dispatching
    <2>4. CASE ProjectTask(c) /\ cache' # cache
      <3> DEFINE r == New(mutation[c].on)
      <3>1. t \notin DOMAIN cache /\ cache' = Extend(cache, t, r)
        BY <2>4 DEF ProjectTask, Add, board
      <3>2. r \in Records
        BY <2>2, NewIsARecord DEF Mutations
      <3> HIDE DEF r
      <3> QED
        BY <1>7, <2>1, <2>2, <3>1, <3>2
    <2>5. CASE WriteRecord(c)
      <3> DEFINE r == [held[c] EXCEPT !.deps = result[c].deps[t]]
      <3>1. at[c] = "copied" /\ cache' = Extend(cache, t, r)
        BY <2>5 DEF WriteRecord, Add
      <3>2. held[c].superseded = cache[t].superseded /\ t \in Nodes(result[c])
        BY <1>1, <3>1 DEF BoardInv, Projects, Projecting
      <3>3. result[c].deps[t] \in SUBSET Ids
        BY <2>2, <3>2 DEF IsGraph, IsDeps, Nodes
      <3>4. r \in Records /\ r.superseded = held[c].superseded
        BY <2>2, <3>3 DEF Records
      <3> HIDE DEF r
      <3> QED
        BY <1>7, <2>1, <2>2, <3>1, <3>2, <3>4
    <2> QED
      BY <1>8, <2>3, <2>4, <2>5
  <1>9. ASSUME NEW t, Claim(t) PROVE CopyInv'
    <2>1. /\ pc' = pc /\ taken' = taken /\ t \in DOMAIN cache
          /\ rows' = [rows EXCEPT ![t].status = "claimed"]
          /\ cache' = [cache EXCEPT ![t] = rows'[t]]
      BY <1>9 DEF Claim, schedulerUnchanged, tools
    <2>2. t \in DOMAIN rows /\ rows[t] \in Records /\ rows[t].superseded = cache[t].superseded
      BY <1>1, <2>1 DEF BoardInv, Cached, IsBoard
    <2>3. rows'[t].superseded = rows[t].superseded
      BY <1>1, <2>1, <2>2 DEF Records, IsBoard
    <2> QED
      BY <1>1, <1>3, <2>1, <2>2, <2>3 DEF Dispatching, IsBoard
  <1>10. ASSUME NEW t, Finish(t) PROVE CopyInv'
    <2>1. pc' = pc /\ taken' = taken /\ t \in DOMAIN cache
      BY <1>10 DEF Finish, schedulerUnchanged, tools
    <2>2. PICK s \in TaskStatus : Add(t, [cache[t] EXCEPT !.status = s])
      BY <1>10 DEF Finish, TaskStatus
    <2>3. t \in Ids /\ cache[t] \in Records
      BY <1>1, <2>1 DEF IsBoard
    <2> DEFINE r == [cache[t] EXCEPT !.status = s]
    <2>4. r \in Records /\ r.superseded = cache[t].superseded
      BY <2>3 DEF Records
    <2>5. cache' = Extend(cache, t, r)
      BY <2>2 DEF Add
    <2> HIDE DEF r
    <2> QED
      BY <1>7, <2>1, <2>3, <2>4, <2>5
  <1>11. ASSUME NEW t, TakeCopy(t) PROVE CopyInv'
    <2>1. /\ pc = "dispatching" /\ pc' = pc /\ cache' = cache
          /\ t \in DOMAIN cache /\ cache[t].status = "claimed"
          /\ taken' = taken \cup {[task |-> t, record |-> cache[t]]}
      BY <1>11 DEF TakeCopy, board
    <2> QED
      BY <2>1 DEF CopyInv, Dispatching
  <1>12. ASSUME NEW k, PutBack(k) PROVE CopyInv'
    <2>1. /\ k \in taken /\ pc' = pc /\ taken' \subseteq taken
          /\ k.task \in Ids /\ k.record \in Records /\ k.record.status = "claimed"
          /\ k.record.superseded = cache[k.task].superseded
      BY <1>12 DEF PutBack, CopyInv, TaskInv, TypeOK
    <2>2. PICK s \in TaskStatus : Add(k.task, [k.record EXCEPT !.status = s])
      BY <1>12, <2>1 DEF PutBack, TaskStatus
    <2> DEFINE r == [k.record EXCEPT !.status = s]
    <2>3. r \in Records /\ r.superseded = k.record.superseded
      BY <2>1 DEF Records
    <2>4. cache' = Extend(cache, k.task, r)
      BY <2>2 DEF Add
    <2> HIDE DEF r
    <2>5. /\ DOMAIN cache' = DOMAIN cache \cup {k.task} /\ cache'[k.task] = r
          /\ \A u \in DOMAIN cache \ {k.task} : cache'[u] = cache[u]
      <3> DEFINE w == k.task
      <3>1. w \in Ids
        BY <2>1
      <3> HIDE DEF w
      <3>2. /\ DOMAIN Extend(cache, w, r) = DOMAIN cache \cup {w} /\ Extend(cache, w, r)[w] = r
            /\ \A u \in DOMAIN cache \ {w} : Extend(cache, w, r)[u] = cache[u]
        BY <1>1, <2>3, <3>1, BoardExtends
      <3> QED
        BY <2>4, <3>2 DEF w
    <2> QED
      BY <2>1, <2>3, <2>5 DEF CopyInv, Dispatching
  <1> QED
    BY <1>4, <1>5, <1>6, <1>8, <1>9, <1>10, <1>11, <1>12 DEF Next, Graph, Tool, Scheduling

LEMMA PlanAndBoardAgree == Spec => [](TaskInv /\ CopyInv)
  <1>1. Init => CopyInv
    BY DEF Init, CopyInv
  <1>2. TaskInv /\ CopyInv /\ [Next]_vars => CopyInv'
    BY CopyStep
  <1> QED
    BY <1>1, <1>2, TaskInvInit, TaskInvStep, PTL DEF Spec

\* Repairs are asked of planned tasks alone, and the scheduler may trust a version
\* (_repair, refresh_task_graph): the tasks with results are always tasks of the
\* plan the results are for, and a mutation that changes the plan has a new number.
THEOREM ServiceIsSafe == Spec => []Safety
  <1>1. TaskInv => Safety
    <2> SUFFICES ASSUME TaskInv PROVE RepairsArePlanned /\ VersionsIdentify
      BY DEF TaskInv, Safety
    <2>1. RepairsArePlanned
      BY DEF TaskInv, BoardInv, Chosen, RepairsArePlanned
    <2>2. VersionsIdentify
      <3>1. stored.version \in Nat /\ copy.version \in Nat
        BY DEF TaskInv, PlanInv, Sound, IsGraph
      <3>2. Following
        BY DEF TaskInv, BoardInv
      <3> QED
        BY <3>1, <3>2 DEF Following, Dispatching, VersionsIdentify
    <2> QED
      BY <2>1, <2>2
  <1> QED
    BY <1>1, PlanAndBoardAgree, PTL

\* Wherever a crash, a repair or a new plan comes, the rows of task_board_tasks and
\* the stored plan name the same work (register_initial_graph, apply, _apply_mutation).
THEOREM RowsNameThePlan == Spec => []RowsMirrorPlan
  <1>1. TaskInv => RowsMirrorPlan
    BY DEF TaskInv, BoardInv
  <1> QED
    BY <1>1, PlanAndBoardAgree, PTL

\* What a tool has committed reaches row and record, though the projection is a
\* step of its own, after the commit, and writes back a copy it has read earlier
\* (apply, from conn.commit to its end), unless another copy of the same record,
\* of a tool or of the scheduler, is added back over it.
THEOREM ProjectionsArrive == Spec => []BoardFollowsPlan
  <1>1. TaskInv => BoardFollowsPlan
    BY DEF TaskInv, BoardInv
  <1> QED
    BY <1>1, PlanAndBoardAgree, PTL

=============================================================================
