# Verification of the MegaDeepagents team runtime

MegaDeepagents plans a request into a graph of tasks, hands the tasks to a team
of LLM agents, verifies what they produce, and repairs or replans until the
result passes. These TLA+ modules model the control of that machinery: the
persistent task board, the parallel scheduler, the stored plan and its projection
on the board, the governed run graph, the lifecycle of a run over several API
workers, the gate every tool call of an agent passes, the way of a file from a
worker to a verified and merged artifact, the messages between agents, the event
log with its readers in the browser, the staffing of a plan, and the legacy
discussion room. TLC checks
them on small instances, and TLAPS proves the central properties for every
instance.

Paths below are relative to `src/app/` (`docs/` and `tests/` to `src/`);
`multiagent/` is left out of the names of its files.

## The system

| Part | State it keeps | Operations | Talks to |
| --- | --- | --- | --- |
| Task board (`task_board.py`) | a cache of task records and one SQLite row each; status, claimant, attempts, limits | create, get and add, claim, start, produce, complete, verdict, fail, release, block, unblock, requeue, replan, cancel, restore, prepare_for_resume, purge | scheduler, graph, team tools, API |
| Scheduler (`parallel_scheduler.py`) | a round counter, the running futures, a barrier event, one coroutine per task, one verifier thread per produced task | claim ready tasks, run them, wait, resolve an idle board, end | board, registry, runtime manager, verifier, hooks, git queue |
| Agent registry, instance, runtime manager | the status of each agent, its task, its heartbeat, a cancellation token | reserve, release, stop, pause, resume, reap | scheduler, API |
| Resume coordinator | none of its own | requeue tasks, rebuild agents, restore mailbox and tool journal | board, registry, run store |
| Root graph (`runtime/root_graph/graph.py`) | the checkpointed state of a LangGraph: plan, counters, status | plan, dispatch, collect, verify, repair, replan, ask a human, finalize | scheduler, task service, verifier |
| Task service and task graph | the stored plan, the log of mutations | register, replace, create_task, add_dependency, update_task, repair | board, event store |
| Team runtime, run service, run store | the row of a run, its lease, the worker's active entries and cancel events | create, start, pause, resume, cancel, retry, recover | root graph, API, the other workers |
| Worker executor, tool journal, permission broker, shell runner (`executor.py`, `tool_runtime.py`, `permission.py`, `shell_policy.py`) | a counter per attempt, one row per side-effecting command, one row per permission request, a cancellation token per attempt | execute, count, authorize, decide, begin, complete, fail, recover | scheduler, control plane, hooks, resume coordinator |
| Artifact store, git worktrees, verifier (`artifact.py`, `git_workspace.py`, `verifier.py`) | a registry and a table of artifacts, the bytes at their paths, one worktree per agent and one for integration | create, verify, reject, reload, commit, integrate, validate | executor, scheduler, root graph |
| Mailbox and sessions (`mailbox.py`, `teammate_session.py`) | an inbox per agent and a row per message; a command queue and a session row per teammate | send, receive, restore, put, pending, ack, persist | team tools, API, resume coordinator |
| Event log and its readers (`run_store.py`, `api/v1/router.py`, `frontend/src/`) | numbered rows per run, a cursor per stream, a page in the browser | append, list, stream, reconnect, merge, switch, refresh | every part that emits events |
| Legacy discussion room (`team_runner.py`, `team_graph.py` and what they call) | the shared state of a room, its row, inboxes | take a turn, deliver, apply, judge, cancel, inject | API |
| Planner, supervisor, team builder, dynamic team (`planner.py`, `runtime/supervisor/agent.py`, `team_builder.py`, `dynamic_team.py`, `agent_profile.py`) | profiles and agents of the process, a row per parent and child | normalise a plan, match, build a team, spawn, restrict, veto | root graph, scheduler, registry, executor, team tools |
| Complexity router, lead coordinator, memory, skills, legacy task runner, most of the front end | text, files, model calls | - | - |

What is hard about it:

* **Concurrency.** API handlers, the event loop, executor threads, verifier
  threads and team tools called by agents write one board. Hooks suspend a
  coroutine between any two of its steps. Python threads cannot be killed: a
  timed-out executor lives on.
* **Two copies.** Most state lives in memory and in SQLite. An upsert may raise
  after the memory has changed; `claim` decides on the row, everything else on
  the cache. Artifacts, messages, sessions and discussion rooms live twice as well.
* **Copies of copies.** Readers of the board get copies, and many of them change
  a copy and `add` it back: whatever happened in between is undone.
* **Late threads.** An attempt that timed out goes on with its tools, its files and
  its results while its successor runs.
* **Crash and resume.** A worker restarts, finds the rows and the last
  checkpoint of the graph, requeues what was in flight and goes on. A lease keeps
  a second worker out until it expires.
* **Budgets.** Attempts, a grace for rate limits, manual retries, repair rounds
  per task and in total, replans, rounds of the scheduler, and LangGraph's
  recursion limit bound the work together.
* **Human waits.** A blocked task, a pending approval or an unavailable check
  ends the loop or interrupts the graph, to be taken up later by another call.

`PROJECT.json` lists every part under `components`, with the reason where one is
not modelled, and every place the code is exposed to one of these under
`hazards`.

## Modules

| Module | Models |
| --- | --- |
| `TaskLedger` | what the board promises of a durable row: posted, held by one worker, handed back |
| `TaskBoard` | the task board, cache and rows; implements `TaskLedger` |
| `AssignmentProofs` | theorems about `TaskBoard` and `Staffing`: who may hold a task, and who there is to take it |
| `Scheduler` | scheduler, registry, runtime manager, the resume path and the API calls that reach a running loop |
| `SchedulerProofs` | theorems about `Scheduler` |
| `TaskService` | the stored plan, the mutations of team tools and repairs, and their projection on the board |
| `TaskServiceProofs` | theorems about `TaskService` |
| `RootGraph` | the graph that plans, dispatches, verifies, repairs and replans |
| `RootGraphProofs` | theorems about `RootGraph` |
| `RunLifecycle` | a run's row, its lease, and the workers that execute it |
| `ToolGate` | the calls of one task's attempts: budget, permission, journal, effect |
| `ToolGateProofs` | theorems about `ToolGate` |
| `Verdict` | what the verifier and the run-level checks say, as functions |
| `Evidence` | artifacts, worktrees, merges and the completion of tasks and of the run; extends `Verdict` |
| `EvidenceProofs` | theorems about `Evidence` and `Verdict` |
| `Messages` | a message's ways to a teammate: mailbox and command queue |
| `EventLog` | the events of a run from the writing thread to the page |
| `DeliveryProofs` | theorems about `Messages` and `EventLog` |
| `Staffing` | from the plan a model answered to the profile an assignment runs under |
| `Discussion` | the legacy discussion room under both of its drivers |
| `RunProofs` | theorems about `RunLifecycle` and `Discussion` |
| `MC*` | small instances for TLC |

Each module abstracts the one below it to what it reads. `Scheduler` sees the
board as one record per task (what `TaskBoard` calls the cache, with no lost
upsert). `RootGraph` takes a whole scheduler run in one step and sees the status
of the newest record of each task. `RunLifecycle` sees a graph as a thread that
ends with one of its result statuses. `ToolGate` has what happens inside the
worker thread that `Scheduler` awaits, `Evidence` the completion half of that
coroutine with the stores it commits to; both see the rest of the scheduler as the
start, the timeout and the end of an attempt.

### TaskBoard

`mem[t]` and `row[t]` are the record in memory and in SQLite. Every method of the
board that changes state is an action; the lock makes a method atomic. Each action
computes the new record and then saves it (`Save`): the memory changes, and `Persist`
either stores the row or, at most `LostWriteCap` times, loses it, because `_persist`
re-raises after the cache has changed. `Claim` reads the row in its own transaction
and replaces the cached record by it. `Complete` settles a task whatever its status, as
`complete()` does, and looks at the claimant alone. `PurgeRun` empties the cache, as a
crash does; `RestoreRun` and `PrepareForResume` fill it again, row by row. `AttemptCap`
bounds the attempts the environment may charge.

`get()` returns a copy, and the callers that want a change the board has no method
for make it on a copy and `add()` it back: the approval path of the coroutine, the
verifier's thread, a merge conflict, the resume coordinator, the team tools. `Get`
takes a copy at any time (`copies`, at most `CopyCap` of them), `Add` replaces cache and
row by what its caller made of it (`Edited`), whatever the board holds by then. The
same step covers a coroutine that changes the record `claim()` returned to it, and the
rows that a transaction of the task service updates beside the board. `revived`
remembers the tasks to which such a record brought back a worker that the row does not
name; from then on nothing is promised of who holds them.

*Properties.* `Safety` has the types and `OwnersAgree`: cache and row never name two different
agents, but for revived tasks. `CacheIsDurable`: they differ only after an upsert was lost.
`NoStolenClaim`: no step gives a task from one agent to another directly, completions
and copies added back included, unless it revives a former worker; that the code has no
such exception in mind is among the promises below (`ClaimsAreExclusive`).
`RetryBudget`: no task is queued, worked on or blocked with its limit, its grace
and its overdraft used up; the overdraft counts the paths of the code that
charge an attempt without a comparison. `ImplementsLedger`: the rows refine
`TaskLedger` under *phase = status class, holder = claimed_by*; the ledger's third
variable is `revived`, and `Drift` is what becomes of those rows.

### Scheduler

One action per await-to-await segment of the loop (`Loop`) and of the coroutine
of a task (`Coroutine`), because asyncio switches only at an await. The verifier
runs in a thread, so its read, its verdict and its write are steps of their own.
The environment has the API calls that reach a running loop (cancel a run, pause
it, stop an agent, mark a task), the reaper of agents without heartbeat and the
team tools; `MaxInterventions` bounds them. The team tools act at once here; that they work on copies
of records is `TaskBoard`'s (`Add`) and `TaskService`'s (`ReadRecord`, `WriteRecord`). `Hooks` says whether lifecycle hooks
are installed: with them the coroutine suspends, and may be refused, at the claim
and at the start. `ResumeRun` rebuilds a paused run at most `MaxResumes` times, with
verifier threads of the first execution still alive. `EmptyHanded` are the tasks whose
results may come without artifacts, `Demanding` those whose contract names one. A failure
may be rate limited. Which retries are not due yet is the clock's choice: the loop's view
of the board (`Ready`, `Waves`) takes the set of those that are late as a parameter.

*Properties.* `Safety` has the types and two invariants. `ReservationHeld`: while
the loop runs, an agent that is not idle is reserved for exactly one task that
knows it; `LeftBehind` is the one exception the code has (see *Proofs*).
`Barrier`: an exclusive task runs alone. `UndisturbedRunsResolve`: a run nobody
intervened in ends with every task settled, or for a reason the loop names; the
instances meet its two conditions, `Staffed` (every task has an agent that covers
it: what `Staffing` calls `TeamsServe`) and `Acyclic` (what the compiler of plans
checks, see `TaskService!PlanIsSound`). `SucceededHasEvidence`: no task is
SUCCEEDED over artifacts of its latest attempt that are unverified or rejected, and none
without any artifact in the store if its contract names one. It does not say that a
success has an artifact: a result without one is judged like any other where the contract
asks for none (`parallel_scheduler.py:1568`), and then the success rests on the verdict
alone (`Evidence!SuccessNeedsEvidence` below). `LoopEnds`: every loop terminates.
`AgentsComeBack`: after the loop no agent stays busy; it is checked without hooks,
and with them it does not hold, because a coroutine that is suspended at a hook when
the loop is left gives its agent back to nobody.

*Fairness.* The loop, each coroutine, and each cancellation go on: an executor
has a timeout per capability, LLM calls, check commands and git commands have
their own, hooks are called synchronously and their exceptions absorbed, and the
loop polls once a second. A retry that was deferred is due in the end: as long as a task
could be dispatched with no retry late (`Ready({})`), the loop dispatches or waits, and it
does not wait for good. Nothing is assumed of operators or agents.

### TaskService

`stored` is the snapshot of the task graph with its version, `rows` and `cache`
the board as the service reads and writes it, `plan` the graph in the checkpoint
and `copy` the scheduler's. A graph is a function from tasks to the tasks they
wait for; `edition` stands for all other text that `_plan_signature` compares. A
call of a tool is four steps: `Call` looks for its mutation id outside the
transaction, `Commit` or `Reject` is the transaction (BEGIN IMMEDIATE, so
atomic), and `ProjectTask`, or `ReadRecord` and `WriteRecord`, carry the result
to the board afterwards, with claims, results and other calls in between. The scheduler
does the same without a transaction: its coroutines and verifier threads take a copy of a
record (`TakeCopy`) and add it back (`PutBack`) with the status and the dependencies it had.
`Refresh` is the scheduler's look for a newer version, `Store` the root graph's
save of the scheduler's copy over the snapshot; before it `asyncio.run` has
joined the threads the tools run in, which is why no call survives a dispatch.
`Repair` rewires the graph and changes all affected rows in one transaction.
`Crash` empties the memory, drops the calls and goes back to the node that was
running. `HasCycle` is the definition, *some tasks wait for each other*; `Kahn` is
the algorithm of the code, and TLC compares the two on every graph of three
nodes.

*Properties.* `PlanIsSound`: the stored, the dispatched and the checkpointed plan
wait only for tasks of their own and have no cycle. `RowsMirrorPlan`: plan and
rows name the same current work. `BoardFollowsPlan`: when the projections of a
task are done, row and record have the plan's dependencies. `Safety` has the types and two more. `RepairsArePlanned`:
what the repair node picks from the board is in the stored plan.
`VersionsIdentify`: the version test of the refresh misses no change. Three
histories exempt what the code does not keep up, each listed as a hazard: a task
created over the id of an old record (`reused`: the insert does nothing, the old
row stays superseded), a task whose projections were cut off, overlapped, or undone by an
older copy of the record that the scheduler put back (`tangled`: a repeated call does not
project again), and everything after a copy
that missed a change was stored over it (`overwritten`).

### RootGraph

One action per node of the graph; the conditional edge that follows belongs to
the action, as in LangGraph. `current` is the status of the newest record of
each task of the stored plan; `leftover` holds the statuses of superseded
records that the routes still look at. A crash loses the update of the running
node and keeps what it wrote to the database. Histories (`made`, `replans`,
`cause`, `overtaken`, `startRound`) only record what happened. `HumanAnswers` is
the graph's own `invoke(resume=...)`; the run lifecycle makes a run resumable
only from `paused`, see the promises below.

*Properties.* `Safety` has the types and `BoundedWork`, which has three. `RepairBudget`: a task is repaired at most `max_repair_rounds`
times, plus once per crash between the new record and the checkpoint.
`RoundsBounded`: the global net holds, plus one for every replan the board asks
for. `StepsPerRound`: an invocation that has begun *k* rounds has taken at most
*10 + 6k* super-steps, so the limit of 200 of `graph.py:158` does not cut a run
short within its 3 x `max_repair_rounds` repairs. `SucceededRunsAreDone`: a run
is finalised as succeeded only with every task succeeded, unless a replan
request overtook the verifier. There is no liveness property: the planner may be
asked again and again, and that runs into the recursion limit.

### RunLifecycle

The state is the row of one run (`status` and lease) and, for each worker, its
active entry with its cancel event. `Executions` is a fixed set: the starts and
resumes that may ever be made. A start takes no lease (`team_runtime.py:142`), a
resume does, and keeps it with a heartbeat; `lapsed` says a heartbeat stalled
long enough for the lease to expire. An API request is admitted by the service
against the row (`Request`), then carried out by the worker (`Perform`): between
the two anything may happen. The event loop of a worker runs one handler at a
time (`LoopFree`); what the code does between two awaits is one action. `refused`
remembers that a recovery met a lease that nobody was going to use: the code does
not try again, so the row waits for an operator. The requests are those of the
`/api/v1` routes; the deprecated `/team-runs` routes reach the runtime without
the service's status checks and are left out.

*Properties.* `Safety` has the types and `LeasedExecutionsExclude`: two executions that
took the lease do not overlap unless one let it expire. `NoGhostRun` (a row that says the run is
under way has an execution, or a worker whose restart recovers it, or a refused
recovery), `RunsSettle` (such a row comes to rest), `ClosedRunsStayClosed` (a
completed or cancelled run at rest is never opened again).

*Fairness.* Hooks, graph threads and the event loop go on, an admitted call is
carried out, a crashed worker is restarted (`docker-compose.yml`: `restart:
unless-stopped`) and an abandoned lease expires.

### ToolGate

One task, over its attempts. An attempt is an `execute()` in a worker thread; a
call is one tool in a thread of its own, so several calls of one attempt, and the
calls of an attempt that the scheduler gave up, run at once. `pc[t]` is where a
call stands: counted (it holds the guard's lock), at the gate, reading or saving
its journal row, asking for, requesting or marking a permission, ready, running.
`used[a]` is the counter of an attempt's guard, `consumed` the stored budget
events that the next attempt starts from. `Gate` is `_tool_boundary` with the
token and the hook; `ReadRow` and `SaveRow` are the two halves of
`ToolSideEffectJournal.begin`, which has no transaction around them; `Ask`, `Mark`
and `Requested` are `authorize`, `_mark_used` and the hook that may deny.
`Return`, `Reprompts` and `Swallowed` are the end of an `invoke` with the
exceptions the code absorbs. `Crash` ends all threads; `Resume` settles every
started row, also in a process that still runs. A lost budget event, or a count
that cannot be read, costs one of `MaxFaults`.

*Properties.* `Safety` has the types and `WithinBudget`: all attempts together pass at most `max_tool_calls`
calls, and one for every event a count has missed. The calls of a re-prompt are not among
them: the executor counts those by a guard of their own, up to ten in an attempt. `EffectsStayInAttempt`: a
journaled command starts in one attempt only (two calls of one attempt may both
start it, because `begin` reads and then writes). `StartedRowsAreAttended`: while
the process runs, a row that says *started* has a call that will close it.

### Verdict and Evidence

`Verdict` has the verifier as functions: a contract is the kinds of artifacts and
criteria it asks for, an answer of the model is what the rules look at, and
`Judgements` are the verdicts that `validate` may return for them. The strictest
of the five ranks wins; a command that cannot run, a missing file, an exhausted
rate limit or an answer that cannot be parsed each have the verdict of the code.

`Evidence` follows a task from the file its worker wrote to SUCCEEDED. `pc[t]` is
where the completion half of `_run_one` stands: it publishes, verifies, commits to
the worktree, merges, marks evidence, writes the board. `row[a]` and `mem[a]` are
the status of an artifact in the table and in the registry, `hash[a]` what its row
says it contains and `disk` what its path contains; `landed` is what the
integration branch has. A task delivers one file, which two agents edit: the
worst case for a merge. A late thread of a stopped attempt may still publish, and
write its bytes over the path. `Repair` and `Replan` reject evidence artifact by
artifact, next to the board. `MaxTroubles` bounds failing writes and Git commands,
crashes, stopped workers, cancellations and replan requests together.

*Properties.* `SucceededIsBacked`: a task that counts as done has its artifacts
verified in table and registry, and what they contain was merged. `Safety` has
the types and `VerifiedHasItsTask`: nothing stays verified for a completion that
was refused or taken back. `SuccessIsEarned`: no task, and not the run, succeeds
on a judgement without evidence, with a failed check, or to which neither the
model consented nor a command ran.

### Messages

One teammate, its two queues. A send is three steps, because the message is in
the inbox before its row is written: `Deliver`, `Evaluate` (the status that the
row is going to have), `Write`. A reader takes messages and writes their rows
afterwards, one by one. `Rebuild` and `RestoreStep` read the rows back, in a resume
or in any listing over HTTP, over an inbox that may still hold them. The safety
points of two tools take pending commands, put them into the conversation,
acknowledge each, and write the session row, the last writer winning. A crash ends
all of them and keeps the two tables.

*Properties.* `Safety` has the types and `NoMessageIsLost`: what `send` confirmed was given to the model, or
waits in the inbox, with a reader or in its row, unless the inbox overflowed, the
row could not be written or its reader died. `ConversationKeepsAcked`: what was
acknowledged is in the conversation, but for what a crash found unwritten.

### EventLog

Writers append events to runs in transactions (`Begin`, `AppendEvent`, `Commit`,
`Rollback`); BEGIN IMMEDIATE admits one at a time. A page, the chat or the details
of a run, asks for the history in pages (`FetchPage`, `Arrive`, `Fail`), opens the
stream at its cursor, and merges what arrives. Every request carries the
generation it was made in, as in the stores, so a late answer of another run can
be told; `Switch` and `Refresh` are the user's. `Poll` and `OnMessage` are the server's
generator and what arrives of it, `Broken`, `Online` and `Reconnect` the browser's connection.
The details keep `TrimAt` events and drop the `TrimBy` oldest when there are more;
`TrimBy <= TrimAt` (2 000 and 20 000 in `stores/runs.ts:154`) is what keeps the newest
event on the page. The names of the module (`LogInit`, `LogSpec`, `LogTypes`) differ
from those of `Messages` because one module of proofs extends both.

*Properties.* `LogIsSound`: the numbers of a run are 1, 2, 3... in the order of the
commits, and an idempotency key is used once. `PageSafety` has the types and
`PageIsComplete`: the page has every event of its run up to its cursor, once and
in order. `ChatCatchesUp`: the chat shows everything stored again and again,
however often connections break.

*Fairness.* Transactions end, requests are answered or fail, the stream is polled,
what is on the wire arrives, and the reconnect timer fires. Nothing is assumed of
the user.

### Staffing

The runs of one process share its profiles and agents. A run is planned
(`TeamSupervisor`, `SinglePlan`), staffed (`BuildTeam`, `BuildFails`) and worked on
(`Assign`, `Begin`, `Return`) until the scheduler gives it up or it ends; a `Repair`
takes it back to the builder, as the edge of the graph does. Needs are sets of
capabilities, and each of the four places that compares them with what an agent has
is an operator of its own: `Matches` (builder), `CanServe` (scheduler), `Reservable`
(registry), `Profiles` (executor). Scores are left to choice. `spawn` runs in the
thread of a tool call, so `SpawnChecks`, `SpawnCreates`, `SpawnLinks` and
`SpawnAnnounces` are steps between which everything else may happen. A profile is a
role and the chain of agents whose tools it was cut down to; `registered` says what
is left of them. `StopAgent`, `PauseAgent` and
`ResumeAgent` are the operator's. `Restart` forgets profiles and calls and restores agents
from their rows, up to `MaxRestarts` times. `create_agent` saves every agent it restores as
idle, and the status it had is set afterwards in memory only (`resume_coordinator.py:117`,
`:141`), so an agent that was stopping or paused is idle after the next restart: `unsaved`
are the agents whose row says so. `ReapStopping` ends one that was restored as stopping,
once its lease is over.

*Properties.* `RolesAreStaffed` is about both ends of a plan. A run fails in the builder only
over roles its team does not have, never over the tools or labels a model adds
(`BuilderStaffs`); and an agent reserved for a task that some profile covers passes the
executor's own test (`WorkersBegin`). A task that no profile covers is the exception in
the second part, and there the code does refuse reserved agents (`ReservedAgentsMayBegin`
below). `TeamsServe`: a run is given up for want of a worker only if an agent was stopped
or paused or a label is unknown to the code; what an unknown label does is
`SchedulerMirrorsRegistry` below. `ChildrenAreRestricted`: until a restart no spawned agent
works with a tool one of its ancestors lacks. `NoLookalikes`: rebuilding a team creates no
more agents of a profile than tasks that could run side by side. `StaffSafety` has the
types and `VetoedChildrenEnd`: a child that a hook refused takes no further task before
the second restart after the refusal (`vetoed` keeps how many there had been); the second
one gives it back, against the code's intent (`VetoIsFinal` below).
(`StaffInit`, `StaffNext`, `StaffSpec`: the names leave room for `TaskBoard` in the
module of proofs. No answer of a model names a task `"none"`, which stands for the
code's `None`.)

### Discussion

One room. The runner thread takes turns, as the loop of `team_runner.py` or as the
LangGraph of `team_graph.py`; a step is what it does between two points where a
request could get in: choose a speaker, ask the model, publish and process one
action after the other, mark read, judge. `MCTurns` are the answers a model may
give; the guard turns what a role may not do into a `no_op`, as in
`action_guard.py`. A request loads the row into an object of its own and writes
it back later.

*Properties.* `RoomSafety` has the types and `OwnCancelHolds`: a room cancelled through
its runner is reported as cancelled. (`RoomInit`, `RoomNext`, `RoomSpec`: the names
leave room for `RunLifecycle` in the module of proofs.) `DoneByItsRole`: a final result is written in
the Finalizer's turn only and a review passes in the reviewer's only.
`OnlyShownIsRead`: a message leaves an inbox only if it was in
the prompt of the agent whose turn it was. `RunEnds`: every
started run ends.

*Fairness.* The runner goes on: a model call has a timeout and its errors are
answers.

## Runs

| Run | Instance | Shows |
| --- | --- | --- |
| `task_board` | 2 tasks in a chain, 2 agents, a limit of 1 attempt, grace 1, up to 2 attempts charged, 1 lost upsert, 1 copy held | all board properties |
| `scheduler` | 3 tasks, one dependent and exclusive, 2 agents, 2 attempts, hooks, 1 intervention | reservations, the barrier, and that an undisturbed run ends for a reason |
| `scheduler_ends` | 2 tasks, one with a contract for an artifact and results without, a limit of 1 attempt, grace 1, no hooks, 2 interventions, 1 resume | evidence and liveness |
| `task_service` | plans of 1 or 2 tasks, 2 spare ids, 2 tool threads, 2 calls, 1 copy held by the scheduler, 1 revision, 1 crash | soundness of the plan and agreement of plan, rows, records and versions |
| `root_graph` | plans over 2 tasks, 1 repair round, 1 disturbance | budgets, and what a success means |
| `run_lifecycle` | 2 workers, 1 start, 2 resumes, 2 requests, 1 crash, 1 stall | all lifecycle properties |
| `tool_gate` | 2 attempts, 2 calls at a time, a shell command, a file and a team tool, 1 lost event, 1 restart | budget, effects and journal |
| `evidence` | 1 task and its repair, 2 agents, 2 contents, 3 artifacts, 1 retry, 1 trouble | evidence, merges and verdicts |
| `messages` | 2 messages, inbox of 1, 1 reader, 2 safety points, 1 restore, 1 lost row, 1 crash | no message and no acknowledged command is lost |
| `event_log` | 2 writers, 2 runs, 3 events, 1 switch, 1 refresh, 1 fault | numbering, the page and the chat |
| `discussion` | 4 roles, 3 rounds, 1 review cycle, 15 kinds of answers, 1 request, both drivers | all discussion properties |
| `staffing` | 2 runs of 2 teams, 5 answers of the planner, 2 requests for teammates, 2 events (spawn, stop, pause, repair) or restarts, or 1 vetoed spawn and 2 restarts | all staffing properties |

**Why these bounds are enough to mean something.** The hazards are races of two:
two agents over one task, one lost upsert between two methods, one intervention
inside a wave, one crash between two nodes, two workers over one lease, two calls
over one journal row, two agents over one file, a reader and a restore over one
inbox, two loads over one page. Every run has one actor more than the race needs
or a disturbance at every point. A chain of two tasks gives a dependency that is
not met; a third task gives the exclusive barrier something to drain. An attempt
with a grace of one tells retry, grace, overdraft and exhaustion apart; 
`AttemptCap` is 2, so that failures are reported after the budget was spent. The
constraint `OneIsFollowed` lets only the first task of `task_board` go further than its
claim, be held as a copy, and lose its row; the second is there to be claimed and to
wait. An outdated copy is added once, before a second attempt is charged.
`FirstDispatchCopies` keeps the copies of `task_service` to the dispatch before a repair or
a crash: a later dispatch meets them with the same guards.
`RecursionLimit` is 16 in `root_graph` and 200 in the code: 16 is one round of
repair beyond what the budgets of the instance can use, and `StepsPerRound` says
how steps grow with rounds. In `tool_gate` a budget of one is the boundary: the
second call, of the same or of the next attempt, is over it. In `evidence` the
third artifact is the repair's after a retry; `MaxTries` is the code's. In
`event_log` three events over pages of one and two give a second page, a full
answer and a remainder, and a trim. In `discussion` three rounds leave one round
after two stale ones. In `staffing` the answers hold a tool the role lacks, two
tasks side by side, two roles in one task, an unknown label and no role at all; two
events give a child of a child, a repair beside a child, and a restart after either;
`TwoThings` admits two events or restarts together, and one spawn that is vetoed with two
restarts, which is what it takes to give the child back.
Agents are symmetric where no liveness is checked. Only
stopped systems deadlock: `CHECK_DEADLOCK FALSE` is set where a run ends.

## Promises the code does not keep

The modules state promises of the repository that the code does not keep. Each is
a definition beside the properties, with the history one edit of a configuration
away: replace the properties by the named one and set the constants.

| Definition | Configuration | What the history shows |
| --- | --- | --- |
| `Scheduler!CancelledIsFinal` | `MCScheduler.cfg`, `Hooks = FALSE`, as a property | a coroutine that asks for approval (`parallel_scheduler.py:867`), `fail` (`task_board.py:373`) or a verifier thread brings a cancelled task back; `docs/architecture.md:48` says that the cancelled state takes precedence over a late result |
| `Scheduler!ResumedRunsHaveWorkers` | `MCScheduler.cfg`, `MaxResumes = 1`, `Hooks = FALSE` | `resume_coordinator.py:141` restores the status an agent had; `pause_run` had made it BLOCKED, nothing makes it idle again, and the run that `team_runtime.py:518` says continues ends for want of a worker |
| `TaskBoard!ClaimsAreExclusive` | `MCTaskBoard.cfg`, as a property | `add` (`task_board.py:109`) compares the record with nothing: a copy got while one agent had the task, and added after it failed and another claimed it, puts the first back; `task_board.py:6` promises that claims exclude each other, and the comment at `:640` that changes may go through `add` |
| `RootGraph!SucceededWorkIsKept` | `MCRootGraph.cfg`, `MaxRepairRounds = 2`, `RecursionLimit = 30`, `MaxDisturbances = 0` | `graph.py:800` looks at all records, superseded ones included: after one repair, a wait for a human is routed to repair and redoes leaves that succeeded, against the comment at `graph.py:552` |
| `RunLifecycle!LateSuccessIsBlocked` | `MCRunLifecycle.cfg`, `Spec`, `MaxRequests = 1` | `team_runtime.py:249` writes the result without looking at the row: a cancelled run ends as completed; `docs/api.md:16` says that a cancel blocks a late success |
| `RunLifecycle!HumanWaitIsStored` | `MCRunLifecycle.cfg`, `MaxRequests = 0`, no crash, no stall | `team_runtime.py:242`: a graph that waits for a human is stored as cancelled; `docs/repository-verification.md:51` says `waiting_human`, to be resumed |
| `ToolGate!ApprovedCommandsRun` | `MCToolGate.cfg`, only `deploy` and `spawn`, `MaxCalls = 2`, no fault, no restart | a command that was refused for want of a permission leaves a failed row, and after the approval the journal answers the repeated call with it (`executor.py:1097`); `resume_coordinator.py:171` and `tests/test_agent_team_runtime_v2.py:161` treat the approval as what lets it run |
| `Messages!ReadOnce` | `MCMessages.cfg`, `MaxRestores = 2` | `mailbox.py:432` appends unconsumed rows to inboxes that hold them: a message is read twice, against `mailbox.py:399` |
| `Messages!StoredConversation` | `MCMessages.cfg` | two safety points write one session row, and the later write lacks what the other acknowledged |
| `Evidence!SuccessNeedsEvidence` | `MCEvidence.cfg` | with no artifact of its own a task is judged on the artifacts of the whole run, and succeeds without one (`parallel_scheduler.py:1538`), against the comment at `verifier.py:883` |
| `Staffing!SchedulerMirrorsRegistry` | `MCStaffing.cfg` | the scheduler sets tool capabilities aside but not unknown labels (`parallel_scheduler.py:519` says it mirrors the registry, which does): a run whose team was built ends for want of a worker |
| `Staffing!ReservedAgentsMayBegin` | `MCStaffing.cfg` | the executor looks for a profile as `agent_registry.py:157` says, then refuses it unless it has all capabilities after all (`executor.py:1529`): a reserved agent cannot begin |
| `Staffing!FallbackIsStaffed` | `MCStaffing.cfg` | the plan that "can be assigned" (`planner.py:472`) needs a coder, and the research team has none |
| `Staffing!VetoIsFinal` | `MCStaffing.cfg` | a restart saves a child that a hook refused as idle (`resume_coordinator.py:117`), and a second one gives it back to the team; `dynamic_team.py:112` stops it |
| `Staffing!ChildrenStayRestricted` | `MCStaffing.cfg` | a restart forgets the profile of a child, and the executor takes the best that matches, with all its tools, against the comment at `executor.py:1509` |
| `Discussion!CancelHolds` | `MCDiscussion.cfg` | a request cancels the object it loaded, at which the loop never looks, although `team_runner.py:233` says it reads the stored request |

Other observations made on the way, none of them promised otherwise: the entries
a run-level judgement is built from carry no status, so rejected artifacts are not
filtered from it; a criterion `test:` without a command is neither run nor
reviewed; `git status --porcelain` names a new directory and not its files
(`executor.py:1944`); rows of the merge queue are never updated; a final message of
any role completes a discussion without an output (`termination.py:81`);
`update_state` to *completed* jumps over finalising.

## Proofs

The theorems hold for every value of the constants, under the assumptions the
modules declare next to them: a dependency relation over the tasks, limits that
are natural numbers (positive where the code's settings are), a host for every
execution, finitely many calls at a time, a trim that keeps something, one resume
of a paused scheduler, a team that is not empty, plans that are finite and acyclic. For
every module a theorem puts the types and the main invariants together (`BoardIsSafe`, `SchedulerIsSafe`,
`ServiceIsSafe`, `GraphIsSafe`, `LeaseIsSafe`, `GateIsSafe`,
`NothingVerifiedIsOutOfPlace`, `MailIsSafe`, `PagesAreComplete`,
`CancelledRoomsAreReported`, `StaffIsSafe`).

* **AssignmentProofs**, the board. `BoardInvariant` proves types, owner discipline and
  agreement together: `OwnersAgree` alone is not inductive, because what a method
  writes depends on the status of the cached record, and the row keeps its owner
  only while that status says so. `ClaimsAreNotStolen` and `RowsImplementLedger`
  follow step by step, and so does `RecordsAreDurable`. A copy that is held is a record
  like the others (its owner and status belong together, its attempts are ranked), so a
  task is either agreed on or in `revived`, and only an `Add` puts it there. `RetryBudgetHolds` needs a stronger invariant that ranks a
  record's attempts by status: an attempt is charged when work ends, so a record
  at work must have one to spare.
* **RootGraphProofs.** `TypeCorrect`; `RepairsAreBudgeted` from an invariant that
  ties the records made to the checkpointed counters (they differ by the crashes)
  and resets both with a new plan; `RoundsAreBounded`; `StepsArePaid`, a potential
  argument with one constant per node (what is left to pay until the next round
  begins); `WorkIsBounded` is the three together; `SuccessIsComplete`, from what
  each node between verification and finalisation knows of the board.
* **SchedulerProofs.** Records, agents and coroutines are three questions, and a lemma
  per step answers each. `NoReservationIsLeaked` from `Reservations`: a coroutine that
  holds an agent is the one in the agent's record, and its status says how far it is.
  Proving it found the one leak: a coroutine cut off at a hook leaves its agent
  CLAIMING; stopped while the run is paused, it is restored as STOPPING
  (`resume_coordinator.py:141`) and no coroutine is left to end it. `LeftBehind` names
  that state, which needs hooks and a resume, and `ReservationHeld` allows nothing
  else. `BarrierHolds` is stronger than `Barrier`: `Exclusion`
  speaks of every task that has a coroutine, whether it holds an agent yet or not. `SuccessHasEvidence`
  from `Settled` (what a task that is about to succeed rests on) and `Tracing`: as long as a coroutine works on a task, nobody, no verifier thread
  with an old copy included, knows of a success of it; after a resume a task that
  succeeded is not queued again. `UndisturbedRunsAreExplained` assumes `Staffed` and
  `Acyclic`, which the planner and the builder establish before the loop starts. Without an
  intervention board and coroutine agree task by task (`InStep`), so an idle loop finds
  a task that is ready, one that waits, or a failure, by the least element that `Acyclic`
  gives.
* **TaskServiceProofs.** `SoundPlans`. A tool's transaction validates the plan, a
  repair and a renaming do not, so the proof shows that neither can close a
  cycle: a set of tasks that wait for each other in the new plan gives one in the
  old, with the target in the place of its repair, or the old names in the place
  of the new. `PlanInv` adds the types of the graphs and of the requests. `ServiceIsSafe`,
  `RowsNameThePlan` and `ProjectionsArrive` rest on `TaskInv`, which adds `BoardInv`:
  tools end with their dispatch (`ToolsAreOver`), during which the scheduler's copy is
  behind the stored plan by whole mutations and differs when its version does
  (`Following`); the cache lacks only records a tool has still to project (`Cached`);
  results and repairs are those of planned tasks (`Known`, `Chosen`); and a call between
  its commit and the board carries the dependencies of the stored plan, unless another
  projection for the task, or an older copy of its record, got in its way (`Projects`,
  `Untangled`). The scheduler's copies have records of the board (`Copied`). Rows and plan depend
  on each other in `Repair`: it takes the dependencies of the record, which are those of
  the plan because the record is live and its dispatch is over.
* **RunProofs**, the runs. `TypeCorrect`; `LeaseFences`, from *a leased execution
  that has not lapsed is the holder in the row*; `NoGhosts`, from an invariant that
  says where the recovery of an unattended row is; `ClosedForGood`.
* **RunProofs**, the discussion. `CancelledRoomsAreReported` from `RoomInv`: what the
  runner's own `cancel` stopped is in phase *cancelled*, a terminal phase is never
  left (`PhaseUpdates`, `FailedStep`, `SaidStep`, `AppliedStep`), and the driver has no outcome before it is through
  (`Turned`). That rounds stay within their budget, which is part of the types, needs
  that the loop goes on only while `Check` says so, and that `Check` looks at the budget
  first (`GoingOnIsWithinBudget`); that a speaker is one of the team, that the last
  group of the selector is never empty (`SpeakerIsAnAgent`). `RolesWriteResults` and
  `UnshownStaysUnread` follow step by step: every handler that sets the result or passes
  a review looks at the role, and the inbox holds at least the prompt.
* **ToolGateProofs.** `GateInvariant` proves five parts together. `Threads`: the
  only attempt that may run with its token unset is the one the scheduler waits
  for, so the calls of any other neither pass the gate nor start a command. `Counted`: what was passed, and what is counted and
  on its way to the gate, fits into the events stored and those lost. `Rows`
  says which calls stand behind a started row, `Effects` that a command whose row
  exists has started in no attempt but those of calls past the journal. From it
  `BudgetIsShared`, `EffectsAreNotRepeated`, `NoRowIsForgotten` and `TypeCorrect`.
* **EvidenceProofs.** `NothingPassesUnearned` and `SuccessesAreEarned`. The proof
  follows `validate` through its judges: a merged verdict is the strictest of its
  parts (the five ranks), so one that passes has no part that did not, and only
  `Judge` and `Finalize` decide anything. The rest of the module is framed away.
  `SuccessIsBacked` and `NothingVerifiedIsOutOfPlace` need `EvidenceInv`: a task and its
  coroutine agree on who works (`Placed`), what the coroutine holds is in the worktree,
  then in the branch, then verified (`Carried`), every artifact belongs to one task and
  registry and table agree (`Attributed`), and while a repair or a replan rejects evidence nobody else works
  (`Suspended`). A step of a coroutine touches only what is its own, which one lemma
  per part says (`BoardStep`, `FlowStep`, `StoreStep`, `GitStep`, `OtherStep`), so the
  proof of an action looks at its own task.
* **AssignmentProofs**, the staffing. All five properties from `StaffInv`. A veto is remembered
  with the restarts before it, so a vetoed agent is either at its end, or unsaved after one
  restart, or two restarts have passed. What may
  become of an agent in one step is said once (`Moved`: it stays who it is, and an end
  is an end); a step either only moves agents (`RowsMove`) or only brings some
  (`Grows`), and the parts of the invariant are shown of these. `Serving` is why a team
  that was built is enough: its first build finds no agents, so `CreatedStep` makes one
  of the profile matched to every task; later builds may count a spawned child instead of
  creating an agent, but the first ones are still there, because built agents end only
  where somebody was stopped; the three cases of `Matches` are three of `CanServe`
  once labels are known (`FitsCanServe`). `Cut` is why the shared registry
  does no harm: a name tells the base and the parent it was cut from
  (`ProfileIsRead`), so whoever registers it again registers the same tools, and
  tools only get fewer from parent to child; `Ancestors` is then the least set closed
  under parents, and the agents with at least those tools are such a set. `Sparse` is
  `NoLookalikes` for all profiles, the forgotten ones too, and depths
  are left uninterpreted: nothing depends on how they are computed.
* **DeliveryProofs**, the messages. `MessagesAreKept` from `MailInv`, which says where a
  message can be. What is called consumed in memory or in a row was in a reader's hand
  (`Readings`); what was sent has a row unless the write failed (`Written`); and a
  message that nobody has was sent, no resume has ended, and a lister that is
  reading has it in its list (`Waiting`). The last is what makes a crash harmless:
  the row that is left says *delivered*, because saying *consumed* takes a reader.
  `AckedIsKept` looks at the command queue alone: a safety point puts a command into
  the conversation before it acknowledges it, and never takes one out.
* **DeliveryProofs**, the events. `NumbersFollowCommits`. With one transaction open at a
  time, what it sees (committed rows, then its own) is sound, so a commit makes a sound
  view the table; the highest number of a sound sequence is its length, which is
  why MAX + 1 leaves no gap. `PagesAreComplete` from `PageInv`. Rows are numbered by
  their places, so all that is in transit are intervals: `Complete` (the page has
  1 .. `cursor`, but for what was trimmed), `Joined` (the wire is an interval that ends at
  the server's position and begins at the cursor or before), `Requests` (a request has
  the first rows of its run, and only the newest is current), `ChatWaits` (the chat,
  which replaces its list by the answer, shows and streams nothing before it). That
  ORDER BY and the merges sort is proved without induction: the rank of a number in
  a finite set, the number of smaller ones, grows with the number, so ranks are
  distinct, and distinct values in an interval as large as the set take all of it.

Model-checked only: the comparison of `Kahn` with `HasCycle`, an induction over the
algorithm; and everything under fairness
(`LoopEnds`, `AgentsComeBack`, `RunsSettle`, `ChatCatchesUp`, `RunEnds`): the provers at
hand do not reason about liveness, ENABLED or induction over data.

## Not modelled

Model calls, prompts, the text of results and feedback, planner output beyond
its shape and capabilities, file contents, git itself, HTTP, logging and metrics: a
nondeterministic outcome stands for each where control depends on it. The legacy
task runner wraps one agent call, memory and skills are text stores, and nothing in
the runtime calls the lead coordinator.

Of modelled parts, these are left out: two executions of one run sharing a board
(possible through a start without a lease); database errors at the steps of a
coroutine that neither `TaskBoard` nor `Evidence` has; the deprecated routes of
the runtime; runs without a repository, in which nothing is merged; the expiry of
worktree leases (`git_workspace.py:134`); plan approval, which `Scheduler` has as
an outcome, although `decide` (`plan_approval.py:78`) does not look at the status and
a plan can be decided twice; the calls of a re-prompt, which a guard of their own counts;
database errors in `complete` and `fail` of the tool journal; policies, block lists and rate limits of the mailbox;
the policies `all_steps_completed` and `manual_only` of a discussion, the rule of its
selector for an agent that `reply_to` names (`speaker_selector.py:103`), exceptions of its handlers other
than an unknown severity, and a cancel that falls between the check and the assignment of
`update_phase` (`state.py:164`), which takes no lock; events that are not JSON, and readers of
the stream that raise (`useRunStream.ts:43`). In `Evidence` a coroutine runs without
another between two of its awaits, and the thread of a timed-out attempt edits the worktree no
more once it is given up, although it may still publish. `Staffing` has neither the reaping of
agents at work nor the executor's end of a task after refused attempts
(`no_matching_worker`); both are failures of an attempt in `Scheduler`. A coroutine
that is suspended at a hook when the loop is left keeps its agent CLAIMING
(`parallel_scheduler.py:1334`); the module has it, and `ReservationHeld` allows what it
leaves after a resume (`LeftBehind`). A one-time permission grant is looked up and
marked in two transactions (`permission.py:151`); `ToolGate` has both steps, and two
calls may spend one grant.

## Plan

1. An abstract log, append-only with readers that see a prefix, which `EventLog`
   refines, and an abstract mailbox for `Messages`.
2. Plan approval, and the composition of `ToolGate` with the scheduler's approval
   of blocked tasks.
