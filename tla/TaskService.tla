----------------------------- MODULE TaskService -----------------------------
(***************************************************************************)
(* The stored plan and its projection on the task board                    *)
(* (multiagent/transactional_task_service.py, multiagent/task_graph.py).   *)
(*                                                                         *)
(* The planner's graph is registered as the stored plan with one row for   *)
(* each task.  While the scheduler dispatches, tools of the agents change  *)
(* the stored plan, each in one transaction (BEGIN IMMEDIATE), and after   *)
(* the commit carry the change to the board in a step of their own.  The   *)
(* root graph registers, repairs, replans and stores the scheduler's copy  *)
(* of the plan back when a dispatch is over.  A crash may come anywhere.   *)
(*                                                                         *)
(* The board is seen through what the service reads and writes of it: the  *)
(* dependencies, the status and the superseded mark of a record, in the    *)
(* row and in the cache.  Module TaskBoard has its methods in detail, and  *)
(* module RootGraph the choice between repair, replan and the end.         *)
(***************************************************************************)
EXTENDS Naturals, FiniteSets

CONSTANTS
    Ids,            \* every task id of the run
    Plans,          \* the dependencies a planner may answer with
    Callers,        \* the threads a team tool may run in
    Requests,       \* what the agents ask the tools for
    MaxCalls,       \* bound: calls of a team tool
    MaxTaken,       \* bound: copies of records the scheduler holds at a time
    MaxRevisions,   \* bound: repairs and new plans
    MaxCrashes      \* bound: crashes of the process

VARIABLES
    stored,     \* task_graph_snapshots: the plan and its version
    applied,    \* task_graph_mutations: ids of the mutations carried out
    rows,       \* task_board_tasks
    cache,      \* the records in memory
    plan,       \* the checkpointed state["task_graph_json"]
    copy,       \* the scheduler's task_graph
    pc,         \* where the root graph is
    todo,       \* tasks the repair node has still to repair
    at,         \* at[c]: where a call is
    mutation,   \* mutation[c]: what it asks for
    result,     \* result[c]: the plan it has committed
    held,       \* held[c]: the copy of the record it has read
    taken,      \* the copies of records the scheduler holds, to be added back
    reused,     \* ids that were created over an old record (history)
    tangled,    \* tasks whose projected dependencies met another projection
                \* or an older copy of the record (history)
    overwritten,\* a stale copy was stored over a newer plan (history)
    calls, revisions, crashes

board == <<rows, cache>>
tools == <<at, mutation, result, held, taken>>
histories == <<reused, tangled, overwritten>>
vars == <<stored, applied, rows, cache, plan, copy, pc, todo, at,
          mutation, result, held, taken, reused, tangled, overwritten,
          calls, revisions, crashes>>

-----------------------------------------------------------------------------
(* Graphs *)

\* The dependencies of a graph are a function on its nodes.
IsDeps(deps) == DOMAIN deps \subseteq Ids /\ deps \in [DOMAIN deps -> SUBSET Ids]

IsGraph(g) ==
    /\ g \in [deps : {g.deps}, skipped : SUBSET Ids, edition : Nat, version : Nat]
    /\ IsDeps(g.deps)

Nodes(g) == DOMAIN g.deps

NoGraph == [deps |-> [t \in {} |-> {}], skipped |-> {}, edition |-> 0, version |-> 0]

\* Kahn's algorithm takes a node away when everything it waits for is gone; what
\* it cannot take away waits for itself.  MCTaskService compares the two.
HasCycle(deps) ==
    \E S \in SUBSET DOMAIN deps : S # {} /\ \A t \in S : deps[t] \cap S # {}

Closed(deps) == \A t \in DOMAIN deps : deps[t] \subseteq DOMAIN deps

Valid(deps) == Closed(deps) /\ ~HasCycle(deps)

Kahn(deps) ==
    LET removed[n \in 0..Cardinality(DOMAIN deps)] ==
            IF n = 0 THEN {}
            ELSE {t \in DOMAIN deps : deps[t] \subseteq removed[n - 1]}
    IN  removed[Cardinality(DOMAIN deps)]

\* What a plan is compared by: its structure and texts, not the counters.
Signature(g) == <<g.deps, g.edition>>

Extend(f, t, v) == [u \in DOMAIN f \cup {t} |-> IF u = t THEN v ELSE f[u]]

-----------------------------------------------------------------------------
(* Records *)

\* "claimed" stands for every status of a task in an agent's hands, "failed" for
\* every end that is neither success nor a request for repair.
TaskStatus == {"pending", "claimed", "succeeded", "repair_required", "failed"}

Records == [deps : SUBSET Ids, status : TaskStatus, superseded : BOOLEAN]

IsBoard(b) == DOMAIN b \subseteq Ids /\ b \in [DOMAIN b -> Records]

New(deps) == [deps |-> deps, status |-> "pending", superseded |-> FALSE]

\* Mutant: only what has not run yet is superseded.
SupersedeIdle(r) == [r EXCEPT !.superseded = (r.status = "pending")]

Supersede(r) == [r EXCEPT !.superseded = TRUE]

Mutations == [op : {"create", "depend", "update"}, task : Ids, on : SUBSET Ids,
              named : BOOLEAN]

ASSUME TaskServiceAssumption ==
    /\ Ids # {}
    /\ \A d \in Plans : IsDeps(d) /\ Valid(d)
    /\ Requests \subseteq Mutations
    /\ MaxCalls \in Nat /\ MaxTaken \in Nat
    /\ MaxRevisions \in Nat /\ MaxCrashes \in Nat

Nothing == [op |-> "update", task |-> CHOOSE t \in Ids : TRUE, on |-> {}, named |-> FALSE]

Idle(c) == at[c] = "idle"

TypeOK ==
    /\ IsGraph(stored) /\ IsGraph(plan) /\ IsGraph(copy)
    /\ applied \subseteq Mutations
    /\ IsBoard(rows) /\ IsBoard(cache)
    /\ overwritten \in BOOLEAN
    /\ pc \in {"registering", "dispatching", "ending", "stored", "routing",
              "choosing", "repairing", "done"}
    /\ {todo, reused, tangled} \subseteq SUBSET Ids
    /\ at \in [Callers -> {"idle", "called", "committed", "copied"}]
    /\ mutation \in [Callers -> Mutations]
    /\ DOMAIN result = Callers /\ \A c \in Callers : IsGraph(result[c])
    /\ held \in [Callers -> Records]
    /\ taken \subseteq [task : Ids, record : Records]
    /\ calls \in 0..MaxCalls /\ revisions \in 0..MaxRevisions /\ crashes \in 0..MaxCrashes

-----------------------------------------------------------------------------
(* Registration: the first node of a dispatch *)

Planned(d, edition) == [deps |-> d, skipped |-> {}, edition |-> edition, version |-> 1]

Init ==
    /\ stored = NoGraph /\ copy = NoGraph
    /\ applied = {}
    /\ rows = NoGraph.deps /\ cache = NoGraph.deps
    /\ plan \in {Planned(d, 0) : d \in Plans}
    /\ pc = "registering"
    /\ todo = {} /\ reused = {} /\ tangled = {}
    /\ at = [c \in Callers |-> "idle"]
    /\ mutation = [c \in Callers |-> Nothing]
    /\ result = [c \in Callers |-> NoGraph]
    /\ held = [c \in Callers |-> New({})]
    /\ taken = {}
    /\ overwritten = FALSE
    /\ calls = 0 /\ revisions = 0 /\ crashes = 0

Registered == stored.version # 0

Dispatched(g) ==
    /\ stored' = g
    /\ copy' = g
    /\ pc' = "dispatching"
    /\ UNCHANGED <<applied, plan, todo, tools, calls, revisions, crashes>>

RegisterFirst ==
    /\ pc = "registering" /\ ~Registered
    /\ Dispatched(plan)
    /\ rows' = [t \in Nodes(plan) |-> New(plan.deps[t])]
    /\ cache' = rows'
    /\ UNCHANGED histories

\* restore_run adds the rows that are not in memory.
RegisterAgain ==
    /\ pc = "registering" /\ Registered
    /\ Signature(plan) = Signature(stored)
    /\ Dispatched(stored)
    /\ cache' = [t \in DOMAIN rows \cup DOMAIN cache |->
                    IF t \in DOMAIN cache THEN cache[t] ELSE rows[t]]
    /\ UNCHANGED <<rows, histories>>

\* An id that is on the board already is prefixed with the revision.
Renamings(g) ==
    {f \in [Nodes(g) -> Ids] :
        /\ \A t, u \in Nodes(g) : f[t] = f[u] => t = u
        /\ \A t \in Nodes(g) :
              IF t \in DOMAIN cache THEN f[t] \notin DOMAIN cache \cup Nodes(g)
              ELSE f[t] = t}

Rename(g, f) ==
    [deps |-> [u \in {f[t] : t \in Nodes(g)} |->
                 UNION {{f[d] : d \in g.deps[t]} : t \in {t \in Nodes(g) : f[t] = u}}],
     skipped |-> {},
     edition |-> g.edition,
     version |-> IF g.version > stored.version THEN g.version ELSE stored.version + 1]

\* Any other plan supersedes everything on the board, in memory and in the rows.
Replace ==
    /\ pc = "registering" /\ Registered
    /\ Signature(plan) # Signature(stored)
    /\ \E f \in Renamings(plan) :
          LET g == Rename(plan, f) IN
          /\ Dispatched(g)
          /\ cache' = [t \in DOMAIN cache \cup Nodes(g) |->
                          IF t \in Nodes(g) THEN New(g.deps[t]) ELSE Supersede(cache[t])]
          /\ rows' = [t \in DOMAIN rows \cup Nodes(g) |->
                          IF t \in DOMAIN cache' THEN cache'[t] ELSE rows[t]]
    /\ reused' = {} /\ tangled' = {} /\ overwritten' = FALSE

-----------------------------------------------------------------------------
(* Team tools *)

\* TransactionalTaskService.apply returns at once when the id of the mutation is
\* in the log; only an agent at work calls a tool.
Call(c, m) ==
    /\ pc = "dispatching" /\ Idle(c) /\ calls < MaxCalls
    /\ \E t \in DOMAIN cache : cache[t].status = "claimed"
    /\ ~(m.named /\ m \in applied)
    /\ at' = [at EXCEPT ![c] = "called"]
    /\ mutation' = [mutation EXCEPT ![c] = m]
    /\ calls' = calls + 1
    /\ UNCHANGED <<stored, applied, board, plan, copy, pc, todo, result,
                   held, taken, histories, revisions, crashes>>

Wired(g, t, on, version) ==
    [deps |-> Extend(g.deps, t, on), skipped |-> g.skipped,
     edition |-> g.edition, version |-> version]

\* Mutant: add_dependency leaves the version alone.
MutatedUntouched(m, g) ==
    CASE m.op = "create" ->
            Wired(g, m.task, m.on, g.version + 1)
      [] m.op = "depend" ->
            Wired(g, m.task, g.deps[m.task] \cup m.on, g.version)
      [] m.op = "update" ->
            [g EXCEPT !.edition = @ + 1, !.version = @ + 1]

Mutated(m, g) ==
    CASE m.op = "create" ->
            Wired(g, m.task, m.on, g.version + 1)
      [] m.op = "depend" ->
            Wired(g, m.task, g.deps[m.task] \cup m.on,
                  IF m.on \subseteq g.deps[m.task] THEN g.version ELSE g.version + 1)
      [] m.op = "update" ->
            [g EXCEPT !.edition = @ + 1, !.version = @ + 1]

\* Mutant: a mutation is checked for unknown tasks and not for cycles.
AcceptsCycles(m, g) ==
    /\ m.named => m \notin applied
    /\ m.op = "create" => m.task \notin Nodes(g)
    /\ m.op # "create" => {m.task} \cup m.on \subseteq Nodes(g)
    /\ Closed(Mutated(m, g).deps)

Accepts(m, g) ==
    /\ m.named => m \notin applied
    /\ m.op = "create" => m.task \notin Nodes(g)
    /\ m.op # "create" => {m.task} \cup m.on \subseteq Nodes(g)
    /\ Valid(Mutated(m, g).deps)

Projecting(c) == at[c] \in {"committed", "copied"}

\* A call returns, and its variables are gone.
Return(c) ==
    /\ at' = [at EXCEPT ![c] = "idle"]
    /\ mutation' = [mutation EXCEPT ![c] = Nothing]
    /\ result' = [result EXCEPT ![c] = NoGraph]
    /\ held' = [held EXCEPT ![c] = New({})]

\* One transaction: the snapshot is read, changed and checked under the lock.
Commit(c) ==
    LET m == mutation[c]
        g == Mutated(m, stored)
    IN
    /\ at[c] = "called" /\ Accepts(m, stored)
    /\ stored' = g
    /\ applied' = IF m.named THEN applied \cup {m} ELSE applied
    /\ rows' = IF m.op = "create" /\ m.task \notin DOMAIN rows
               THEN Extend(rows, m.task, New(m.on)) ELSE rows
    /\ IF m.op = "update" THEN Return(c)
       ELSE /\ at' = [at EXCEPT ![c] = "committed"]
            /\ result' = [result EXCEPT ![c] = g]
            /\ UNCHANGED <<mutation, held>>
    /\ reused' = IF m.op = "create" /\ m.task \in DOMAIN rows
                 THEN reused \cup {m.task} ELSE reused
    /\ tangled' = IF \E d \in Callers \ {c} : Projecting(d) /\ mutation[d].task = m.task
                  THEN tangled \cup {m.task} ELSE tangled
    /\ UNCHANGED <<cache, plan, copy, pc, todo, taken, overwritten, calls,
                   revisions, crashes>>

\* The transaction is rolled back and the tool returns the error.
Reject(c) ==
    /\ at[c] = "called" /\ ~Accepts(mutation[c], stored)
    /\ Return(c)
    /\ UNCHANGED <<stored, applied, board, plan, copy, pc, todo, taken, histories,
                   calls, revisions, crashes>>

projectionUnchanged == UNCHANGED <<stored, applied, plan, copy, pc, todo, taken,
    histories, calls, revisions, crashes>>

\* add() writes the record in memory and upserts its row.
Add(t, r) == cache' = Extend(cache, t, r) /\ rows' = Extend(rows, t, r)

ProjectTask(c) ==
    LET m == mutation[c] IN
    /\ at[c] = "committed" /\ m.op = "create"
    /\ IF m.task \in DOMAIN cache THEN UNCHANGED board ELSE Add(m.task, New(m.on))
    /\ Return(c) /\ projectionUnchanged

\* board.get returns a copy of the record, or None ...
ReadRecord(c) ==
    LET t == mutation[c].task IN
    /\ at[c] = "committed" /\ mutation[c].op = "depend"
    /\ IF t \in DOMAIN cache
       THEN /\ held' = [held EXCEPT ![c] = cache[t]]
            /\ at' = [at EXCEPT ![c] = "copied"]
            /\ UNCHANGED <<mutation, result>>
       ELSE Return(c)
    /\ UNCHANGED board /\ projectionUnchanged

\* Mutant: the copy is changed in memory and not added.
WriteCache(c) ==
    LET t == mutation[c].task IN
    /\ at[c] = "copied"
    /\ cache' = Extend(cache, t, [held[c] EXCEPT !.deps = result[c].deps[t]])
    /\ UNCHANGED rows
    /\ Return(c) /\ projectionUnchanged

\* ... and the copy goes back with the dependencies of the plan committed.
WriteRecord(c) ==
    LET t == mutation[c].task IN
    /\ at[c] = "copied"
    /\ Add(t, [held[c] EXCEPT !.deps = result[c].deps[t]])
    /\ Return(c) /\ projectionUnchanged

-----------------------------------------------------------------------------
(* The scheduler, seen from the service *)

schedulerUnchanged == UNCHANGED <<stored, applied, plan, todo, tools,
    calls, revisions, crashes>>

Satisfied(b, t) ==
    \A d \in b[t].deps : d \in DOMAIN b /\ b[d].status = "succeeded"

\* The scheduler selects by the cache, superseded records included; claim()
\* decides by the rows.
Claim(t) ==
    /\ pc = "dispatching" /\ t \in DOMAIN cache
    /\ cache[t].status = "pending" /\ Satisfied(cache, t)
    /\ rows[t].status = "pending" /\ Satisfied(rows, t)
    /\ rows' = [rows EXCEPT ![t].status = "claimed"]
    /\ cache' = [cache EXCEPT ![t] = rows'[t]]
    /\ UNCHANGED <<copy, pc, histories>> /\ schedulerUnchanged

\* What the board's own methods do with a claimed task, in one step: an executor
\* fails a task that is not in the scheduler's copy of the plan.
Finish(t) ==
    /\ pc = "dispatching" /\ t \in DOMAIN cache /\ cache[t].status = "claimed"
    /\ \E s \in IF t \in Nodes(copy)
                THEN {"succeeded", "repair_required", "failed", "pending"}
                ELSE {"failed", "pending"} :
          Add(t, [cache[t] EXCEPT !.status = s])
    /\ UNCHANGED <<copy, pc, histories>> /\ schedulerUnchanged

\* Coroutines and verifier threads also work on a whole record: the one claim()
\* returned, or a copy got later, ...
TakeCopy(t) ==
    /\ pc = "dispatching" /\ t \in DOMAIN cache /\ cache[t].status = "claimed"
    /\ Cardinality(taken) < MaxTaken
    /\ taken' = taken \cup {[task |-> t, record |-> cache[t]]}
    /\ UNCHANGED <<stored, applied, board, plan, copy, pc, todo, at, mutation,
                   result, held, histories, calls, revisions, crashes>>

\* ... to which they add a verdict, a plan, an approval to wait for or a merge
\* conflict, and which they add back with the status and dependencies it had.
PutBack(k) ==
    /\ pc \in {"dispatching", "ending"} /\ k \in taken
    /\ \E s \in {k.record.status} \cup
              (IF k.task \in Nodes(copy) THEN {"repair_required"} ELSE {}) :
          Add(k.task, [k.record EXCEPT !.status = s])
    /\ taken' = taken \ {k}
    /\ tangled' = IF k.task \in DOMAIN cache /\ k.record.deps # cache[k.task].deps
                  THEN tangled \cup {k.task} ELSE tangled
    /\ UNCHANGED <<stored, applied, plan, copy, pc, todo, at, mutation, result,
                   held, reused, overwritten, calls, revisions, crashes>>

Refreshed == IF stored.version > copy.version THEN stored ELSE copy

\* Every turn of the loop begins by looking for a newer plan; the last one finds
\* nobody at work.
Refresh ==
    /\ pc \in {"dispatching", "ending"}
    /\ copy' = Refreshed
    /\ pc' \in {"dispatching", "ending"}
    /\ pc' = "ending" => \A t \in DOMAIN cache : cache[t].status # "claimed"
    /\ UNCHANGED <<board, histories>> /\ schedulerUnchanged

\* asyncio.run waits for the threads; then the copy is stored ...
Store ==
    /\ pc = "ending" /\ taken = {} /\ \A c \in Callers : Idle(c)
    /\ stored' = copy
    /\ overwritten' = (overwritten \/ Signature(copy) # Signature(stored))
    /\ pc' = "stored"
    /\ UNCHANGED <<applied, board, plan, copy, todo, tools, reused, tangled,
                   calls, revisions, crashes>>

\* ... and checkpointed with the result of the node.
Checkpoint ==
    /\ pc = "stored"
    /\ plan' = copy
    /\ pc' = "routing"
    /\ UNCHANGED <<stored, applied, board, copy, todo, tools, histories,
                   calls, revisions, crashes>>

-----------------------------------------------------------------------------
(* Repair, replan, end, crash *)

Live(t) == t \in DOMAIN cache /\ ~cache[t].superseded

Candidates ==
    LET failed == {t \in DOMAIN cache : Live(t) /\ cache[t].status = "repair_required"}
        leaves == {t \in DOMAIN cache :
                      /\ Live(t) /\ cache[t].status = "succeeded"
                      /\ \A u \in Nodes(plan) : t \notin plan.deps[u]}
    IN  IF failed # {} THEN failed ELSE leaves

\* What follows a dispatch is RootGraph's choice: the repair node, or, once a
\* human has answered, another dispatch of the same plan.
Route(node) ==
    /\ pc = "routing" /\ revisions < MaxRevisions
    /\ pc' = node
    /\ revisions' = revisions + 1
    /\ UNCHANGED <<stored, applied, board, plan, copy, todo, tools, histories,
                   calls, crashes>>

\* Those whose chain of repairs is used up are left out; with none the run fails.
StartRepair ==
    /\ pc = "choosing"
    /\ todo' \in SUBSET Candidates
    /\ pc' = IF todo' = {} THEN "done" ELSE "repairing"
    /\ UNCHANGED <<stored, applied, board, plan, copy, tools, histories,
                   calls, revisions, crashes>>

Repaired(g, t, r) ==
    [deps |-> [u \in Nodes(g) \cup {r} |->
                 IF u = r THEN g.deps[t]
                 ELSE {IF d = t THEN r ELSE d : d \in g.deps[u]}],
     skipped |-> g.skipped \cup {t},
     edition |-> g.edition,
     version |-> g.version + 1]

\* add_repair_task and the rows that change with it.  The target's record gets its
\* mark first; if its dependencies differ too, the second copy has no mark.
Repair(t) ==
    /\ pc = "repairing" /\ t \in todo /\ t \in Nodes(stored)
    /\ \E r \in Ids \ (DOMAIN rows \cup Nodes(stored)) :
          LET g == Repaired(stored, t, r)
              record(u) ==
                CASE u = r -> New(g.deps[r])
                  [] u # r /\ u \in Nodes(g) /\ cache[u].deps # g.deps[u] ->
                        [cache[u] EXCEPT !.deps = g.deps[u]]
                  [] u = t /\ cache[u].deps = g.deps[u] -> Supersede(cache[u])
                  [] OTHER -> cache[u]
          IN
          /\ stored' = g
          /\ cache' = [u \in DOMAIN cache \cup {r} |-> record(u)]
          /\ rows' = [u \in DOMAIN rows \cup {r} |->
                        IF u \in DOMAIN cache' THEN cache'[u] ELSE rows[u]]
    /\ todo' = todo \ {t}
    /\ UNCHANGED <<applied, plan, copy, pc, tools, histories, calls,
                   revisions, crashes>>

FinishRepair ==
    /\ pc = "repairing" /\ todo = {}
    /\ plan' = stored
    /\ pc' = "registering"
    /\ UNCHANGED <<stored, applied, board, copy, todo, tools, histories,
                   calls, revisions, crashes>>

\* The planner's next answer, with other texts or with the same.
Replan ==
    /\ pc = "routing" /\ revisions < MaxRevisions
    /\ \E d \in Plans, e \in {stored.edition, stored.edition + 1} : plan' = Planned(d, e)
    /\ pc' = "registering"
    /\ revisions' = revisions + 1
    /\ UNCHANGED <<stored, applied, board, copy, todo, tools, histories, calls, crashes>>

End ==
    /\ pc = "routing"
    /\ pc' = "done"
    /\ UNCHANGED <<stored, applied, board, plan, copy, todo, tools,
                   histories, calls, revisions, crashes>>

\* The memory is lost, the graph goes on from its checkpoint, and the resume
\* coordinator restores the records and requeues what was in flight.
Crash ==
    /\ crashes < MaxCrashes /\ pc # "done"
    /\ crashes' = crashes + 1
    /\ pc' = CASE pc \in {"choosing", "repairing"} -> "choosing"
               [] pc = "routing" -> "routing"
               [] OTHER -> "registering"
    /\ rows' = [t \in DOMAIN rows |->
                  IF rows[t].status = "claimed" THEN [rows[t] EXCEPT !.status = "pending"]
                  ELSE rows[t]]
    /\ cache' = rows'
    /\ copy' = NoGraph
    /\ todo' = {}
    /\ at' = [c \in Callers |-> "idle"]
    /\ mutation' = [c \in Callers |-> Nothing]
    /\ result' = [c \in Callers |-> NoGraph]
    /\ held' = [c \in Callers |-> New({})]
    /\ taken' = {}
    /\ tangled' = tangled \cup {mutation[c].task :
                    c \in {d \in Callers : Projecting(d) /\ mutation[d].op = "depend"}}
    /\ UNCHANGED <<stored, applied, plan, reused, overwritten, calls,
                   revisions>>

-----------------------------------------------------------------------------

Tool(c) ==
    \/ \E m \in Requests : Call(c, m)
    \/ Commit(c) \/ Reject(c) \/ ProjectTask(c) \/ ReadRecord(c) \/ WriteRecord(c)

Graph ==
    \/ RegisterFirst \/ RegisterAgain \/ Replace \/ Store \/ Checkpoint
    \/ Route("choosing") \/ Route("registering")
    \/ StartRepair \/ (\E t \in todo : Repair(t)) \/ FinishRepair \/ Replan \/ End

Scheduling ==
    \/ Refresh
    \/ \E t \in DOMAIN cache : Claim(t) \/ Finish(t) \/ TakeCopy(t)
    \/ \E k \in taken : PutBack(k)

Next == Graph \/ (\E c \in Callers : Tool(c)) \/ Scheduling \/ Crash

Spec == Init /\ [][Next]_vars

-----------------------------------------------------------------------------
(* Properties *)

\* The stored plan, and every copy of it that may be stored again, waits only for
\* tasks of its own and has no cycle, though two tools add dependencies at once
\* and a repair rewires the graph without checking it.
PlanIsSound == \A g \in {stored, copy, plan} : Valid(g.deps)

\* The repair node asks for repairs of tasks that the stored plan knows: it
\* chooses them on the board, where what a replaced or lost plan left behind is
\* still to be found, and add_repair_task raises for any other.
RepairsArePlanned == todo \subseteq Nodes(stored)

\* Plan and rows name the same work: a task of the plan has a row that is not
\* superseded unless a repair has replaced it, and every other row is superseded.
\* Exempt are tasks created over an old record, tasks whose projection met
\* another one or an older copy of the record, and everything after a dispatch
\* stored a stale copy of the plan.
RowsMirrorPlan ==
    /\ Nodes(stored) \subseteq DOMAIN rows
    /\ ~overwritten =>
          \A t \in DOMAIN rows \ (reused \cup tangled) :
             rows[t].superseded <=> t \notin Nodes(stored) \ stored.skipped

\* The board waits for what the plan waits for: once the projection of a
\* dependency is done, row and record have the plan's dependencies, whatever
\* claims, results and calls for other tasks came between.  The exemptions are
\* those of RowsMirrorPlan: a record that the scheduler copied before and adds
\* back after the projection has the old dependencies again.
BoardFollowsPlan ==
    ~overwritten =>
        \A t \in (Nodes(stored) \cap DOMAIN cache) \ (stored.skipped \cup reused \cup tangled) :
            (\A c \in Callers : ~(Projecting(c) /\ mutation[c].task = t))
                => rows[t].deps = stored.deps[t] /\ cache[t].deps = stored.deps[t]

\* The scheduler looks at versions alone: while it dispatches, a copy with the
\* version of the stored plan is the stored plan.
VersionsIdentify ==
    pc \in {"dispatching", "ending"} /\ copy.version >= stored.version
        => Signature(copy) = Signature(stored)

\* What the stored plan, the scheduler's copy and the repair node take for granted
\* of each other (_dispatch, refresh_task_graph, _repair).
Safety == TypeOK /\ RepairsArePlanned /\ VersionsIdentify

=============================================================================
