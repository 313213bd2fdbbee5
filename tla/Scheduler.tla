------------------------------ MODULE Scheduler ------------------------------
(***************************************************************************)
(* ParallelTeamScheduler (src/app/multiagent/parallel_scheduler.py) run    *)
(* against the task board, with the actors that reach into it:             *)
(*                                                                         *)
(*   - the event loop: the dispatch loop _run_loop and one coroutine       *)
(*     _run_one per dispatched task.  They interleave only where a         *)
(*     coroutine really suspends (Suspended below);                        *)
(*   - worker threads: an executor per assignment, and the verifier of a   *)
(*     task, which reads a board record, works, and writes the copy back;  *)
(*   - the API thread (cancel_run, pause_run, resume_run, stop_agent) and  *)
(*     the team tools agents call from their executors.                    *)
(*                                                                         *)
(* The board is TaskBoard with a cache that equals its rows, which         *)
(* TaskBoard shows of every board whose upserts succeed (CacheIsDurable).  *)
(***************************************************************************)
EXTENDS Integers, FiniteSets

CONSTANTS
    Tasks, Agents, NoAgent, Deps, MaxAttempts, AttemptCap,  \* as in TaskBoard
    NoTask,           \* AgentInstance.current_task_id = None
    NoCopy,           \* a verifier that has not read the board yet
    CanServe,         \* the agents whose capabilities cover a task
    Exclusive,        \* the tasks with output_contract.allow_parallel = False
    Demanding,        \* the tasks with an output_contract.artifact_type but "any"
    RateLimitGrace,   \* _RATE_LIMIT_GRACE
    MaxConcurrency,   \* settings.max_concurrency
    MaxRounds,        \* max_rounds
    EmptyHanded,      \* bound: the tasks whose results may come without artifacts
    Hooks,            \* TRUE: lifecycle hooks are registered, so emit_async suspends
    MaxInterventions, \* bound: calls of the API and of team tools
    MaxResumes        \* bound: calls of resume_run; a second one would read rows
                      \* that the first one's registration has rewritten as idle

ASSUME SchedulerAssumption ==
    /\ IsFiniteSet(Tasks) /\ Deps \in [Tasks -> SUBSET Tasks]
    /\ NoTask \notin Tasks /\ NoAgent \notin Agents
    /\ MaxAttempts \in Nat \ {0} /\ AttemptCap \in Nat
    /\ CanServe \in [Tasks -> SUBSET Agents]
    /\ Exclusive \subseteq Tasks /\ Demanding \subseteq Tasks /\ EmptyHanded \subseteq Tasks
    /\ RateLimitGrace \in Nat
    /\ MaxConcurrency \in Nat \ {0} /\ MaxRounds \in Nat
    /\ Hooks \in BOOLEAN
    /\ MaxInterventions \in Nat /\ MaxResumes \in 0..1

VARIABLES
    mem, overdraft, \* the board (see TaskBoard)
    agent,          \* AgentRegistry: status and current_task_id of each agent
    pc,             \* where the coroutine of each task stands
    worker,         \* the agent the coroutine of each task reserved
    copy,           \* the record a coroutine's verifier thread, or the coroutine
                    \* itself, holds apart from the board's
    strays,         \* verifier threads whose coroutine is gone
    evidence,       \* the artifacts of the latest attempt of each task: "without" if
                    \* it handed in none, and "none" if in addition its contract names
                    \* one and the store has none of an earlier attempt either
    sched,          \* "running", or what _run_loop returned
    round,          \* round_n
    cancelEvent,    \* the run's cancel_event
    toCancel,       \* cancel_run in progress: the tasks it has still to cancel
    paused,         \* the stored run status is "paused"
    asked,          \* the tasks whose metadata names a permission request or a plan
    interventions, resumes

board == <<mem, overdraft>>
verifiers == <<copy, strays, evidence>>
control == <<cancelEvent, toCancel, paused, asked, interventions, resumes>>
vars == <<board, agent, pc, worker, verifiers, sched, round, control>>

Board == INSTANCE TaskBoard WITH
    row <- mem, cached <- Tasks, stored <- Tasks,
    copies <- {}, revived <- {}, CopyCap <- 0,  \* its copies are in copy and strays
    lost <- 0, LostWriteCap <- 0

Results ==
    {"completed", "gated", "waiting_human", "failed", "no_worker", "deadlock",
     "cancelled", "paused", "incomplete"}

AgentStatus ==
    {"idle", "claiming", "running", "blocked", "failed", "stopping", "stopped"}

\* A coroutine after its claim: it holds a reservation in each of these.  It is
\* halting when it executes an assignment whose own token stop_agent has set.
Holding == {"claimed", "started", "executing", "halting", "produced", "verifying",
            "passed", "rejected", "committing", "ending"}

TypeOK ==
    /\ mem \in [Tasks -> Board!BoardTask]
    /\ overdraft \in [Tasks -> Nat]
    /\ agent \in [Agents -> [status : AgentStatus, task : Tasks \cup {NoTask}]]
    /\ pc \in [Tasks -> Holding \cup {"none", "queued", "leaving", "finished"}]
    /\ worker \in [Tasks -> Agents \cup {NoAgent}]
    /\ copy \in [Tasks -> Board!BoardTask \cup {NoCopy}]
    /\ strays \subseteq [task : Tasks, copy : Board!BoardTask \cup {NoCopy}]
    /\ evidence \in [Tasks -> {"none", "without", "produced", "verified", "rejected"}]
    /\ sched \in Results \cup {"running"}
    /\ round \in 0..MaxRounds
    /\ cancelEvent \in BOOLEAN /\ paused \in BOOLEAN
    /\ toCancel \subseteq Tasks /\ asked \subseteq Tasks
    /\ interventions \in 0..MaxInterventions /\ resumes \in 0..MaxResumes

-----------------------------------------------------------------------------
\* The event loop.  A coroutine gives it up while it waits for a thread or for
\* its heartbeat to stop, and at an emit_async only when hooks are registered;
\* elsewhere it runs on.
HookPoints == {"claimed", "started", "produced", "passed", "leaving"}

Suspended(t) ==
    \/ pc[t] \in {"none", "queued", "executing", "halting", "verifying", "ending", "finished"}
    \/ Hooks /\ pc[t] \in HookPoints

\* The coroutine of t is at p, and no other one is in the middle of a stretch.
At(t, p) ==
    /\ sched = "running"
    /\ pc[t] = p
    /\ \A u \in Tasks \ {t} : Suspended(u)

LoopIsFree == sched = "running" /\ \A t \in Tasks : Suspended(t)

GoTo(t, p) == pc' = [pc EXCEPT ![t] = p]

-----------------------------------------------------------------------------
\* AgentRegistry: an agent as it is created, and one reserved for t.
NewAgent == [status |-> "idle", task |-> NoTask]

Reserved(t) == [status |-> "claiming", task |-> t]

\* The only legal way to RUNNING starts at CLAIMING.
MayRun(a) == agent[a].status = "claiming"

\* stop(): an agent that works is asked to end, any other has ended.
Halted(s) == IF s \in {"claiming", "running"} THEN "stopping" ELSE "stopped"

\* release_reservation by the coroutine of t.
Released(a, t) ==
    IF agent[a].task # t \/ agent[a].status \notin {"claiming", "running", "stopping"}
    THEN agent[a]
    ELSE [status |-> IF agent[a].status = "stopping" THEN "stopped" ELSE "idle",
          task |-> NoTask]

\* Mutant: an early return that forgets to give the agent back.
LeaveHolding(t) ==
    /\ UNCHANGED agent
    /\ pc' = [pc EXCEPT ![t] = "finished"]
    /\ worker' = [worker EXCEPT ![t] = NoAgent]

\* A return before the assignment has begun: the agent is given back on the spot.
Leave(t) ==
    /\ agent' = [agent EXCEPT ![worker[t]] = Released(worker[t], t)]
    /\ pc' = [pc EXCEPT ![t] = "finished"]
    /\ worker' = [worker EXCEPT ![t] = NoAgent]

\* A return from the assignment leads to its finally.
Return(t) == GoTo(t, "ending") /\ UNCHANGED <<agent, worker>>

Holds(t, statuses) == mem[t].owner = worker[t] /\ mem[t].status \in statuses

\* board.release and board.fail return False when the guard does not hold.
ReleaseIfHeld(t) ==
    IF Holds(t, {"claimed", "running", "blocked"})
    THEN Board!Release(t, worker[t]) ELSE UNCHANGED board

FailIfOwned(t) ==
    IF mem[t].owner = worker[t]
    THEN \E retryable, rateLimited \in BOOLEAN :
            Board!Fail(t, worker[t], retryable, rateLimited)
    ELSE UNCHANGED board

\* board.add of a record with a status the caller chose, whatever it was.
Overwrite(t, status) ==
    /\ mem' = [mem EXCEPT ![t].status = status]
    /\ UNCHANGED overdraft

-----------------------------------------------------------------------------
\* _run_loop: what it sees after it has popped the finished futures.
Done == {t \in Tasks : pc[t] = "finished"}
Running == {t \in Tasks : pc[t] \notin {"none", "finished"}}
Popped == [t \in Tasks |-> IF t \in Done THEN "none" ELSE pc[t]]

\* all_succeeded; a task superseded by its repair counts too, but that is recorded
\* between two loops only, with another set of tasks for the second.
AllSucceeded == \A t \in Tasks : mem[t].status = "succeeded"

Idle == {a \in Agents : agent[a].status = "idle"}

DepsSatisfied(t) == Board!DependenciesSucceeded(t)

\* The retries that may have a next_attempt_at: fail() sets it, and charges an
\* attempt.  Which of them are not due yet is up to the clock.
Deferred == {t \in Tasks : mem[t].status = "pending" /\ mem[t].attempts > 0}

\* _discover_dispatchable, when the retries in late are not due: the pending tasks
\* an idle agent could take now, after the barrier around exclusive tasks.
Ready(late) ==
    LET due == {t \in Tasks \ (Running \cup late) :
                  /\ mem[t].status = "pending"
                  /\ DepsSatisfied(t)
                  /\ CanServe[t] \cap Idle # {}}
    IN  IF Running \cap Exclusive # {} THEN {}
        ELSE IF Running # {} THEN due \ Exclusive
        ELSE due

\* One wave: an injective match of ready tasks to idle agents that no further
\* task could join, within the free capacity; an exclusive task goes alone.
Waves(late) ==
    LET ready == Ready(late)
        alone == Running = {} /\ ready \cap Exclusive # {}
        pool == IF alone THEN ready \cap Exclusive ELSE ready
        capacity == IF alone THEN 1 ELSE MaxConcurrency - Cardinality(Running)
        Matches(w) == \E f \in [w -> Idle] :
            /\ \A t \in w : f[t] \in CanServe[t]
            /\ \A t, u \in w : t # u => f[t] # f[u]
            /\ \A t \in pool \ w :
                 Cardinality(w) >= capacity \/ CanServe[t] \cap Idle \subseteq {f[u] : u \in w}
    IN  {w \in SUBSET pool : w # {} /\ Cardinality(w) <= capacity /\ Matches(w)}

\* Every way out of _run_loop: the coroutines that are left are cancelled where
\* they stand.  CancelledError passes the `finally` that gives the agent back
\* once the assignment has begun, but not the `except Exception` around the
\* claim.  A verifier thread cannot be cancelled.
Stop(result) ==
    /\ sched' = result
    /\ pc' = [t \in Tasks |-> "none"]
    /\ worker' = [t \in Tasks |-> NoAgent]
    /\ agent' = [a \in Agents |->
          IF \E t \in Tasks : worker[t] = a /\ pc[t] \in Holding \ {"claimed", "started"}
          THEN Released(a, agent[a].task) ELSE agent[a]]
    /\ strays' = strays \cup
          {[task |-> t, copy |-> copy[t]] : t \in {u \in Tasks : pc[u] = "verifying"}}
    /\ copy' = [t \in Tasks |-> NoCopy]
    /\ UNCHANGED <<evidence, round, control>>

CancelledRecord(t) ==
    IF mem[t].status \in {"succeeded", "failed", "cancelled"}
    THEN mem[t] ELSE [mem[t] EXCEPT !.status = "cancelled"]

ObserveCancel ==
    /\ LoopIsFree /\ cancelEvent
    /\ Done # {} \/ (round < MaxRounds /\ ~paused)
    /\ mem' = [t \in Tasks |-> CancelledRecord(t)]
    /\ Stop("cancelled")
    /\ UNCHANGED overdraft

ObservePause ==
    /\ LoopIsFree /\ paused
    /\ \/ Done # {} /\ ~cancelEvent
       \/ Done = {} /\ round < MaxRounds
    /\ Stop("paused")
    /\ UNCHANGED board

\* _finalize_verified_run: the run completes unless a run-level gate objects.
ObserveSuccess ==
    /\ LoopIsFree /\ AllSucceeded
    /\ ~cancelEvent /\ ~paused
    /\ Done # {} \/ (round < MaxRounds /\ Running = {})
    /\ \E result \in {"completed", "gated"} : Stop(result)
    /\ UNCHANGED board

ExhaustRounds ==
    /\ LoopIsFree /\ round = MaxRounds
    /\ Done # {} => ~cancelEvent /\ ~paused /\ ~AllSucceeded
    /\ Stop("incomplete")
    /\ UNCHANGED board

\* The loop goes on: cancellation, pause and success have been looked at.
GoesOn ==
    /\ LoopIsFree /\ round < MaxRounds
    /\ ~cancelEvent /\ ~paused
    /\ Done # {} => ~AllSucceeded

Dispatch ==
    /\ GoesOn
    /\ \E late \in SUBSET Deferred : \E wave \in Waves(late) :
         pc' = [t \in Tasks |-> IF t \in wave THEN "queued" ELSE Popped[t]]
    /\ round' = round + 1
    /\ UNCHANGED <<board, agent, worker, verifiers, sched, control>>

Statuses == {mem[t].status : t \in Tasks}

\* _resolve_idle: nothing runs and nothing can be dispatched.  Until the last
\* deferred retry is due the loop only sleeps.
ResolveIdle ==
    /\ GoesOn /\ Running = {} /\ Ready({}) = {} /\ ~AllSucceeded
    /\ LET human == {"blocked", "repair_required", "replan_required"}
           dead == {"failed", "cancelled"}
           result ==
             IF Statuses \cap human # {} THEN "waiting_human"
             ELSE IF Statuses \subseteq dead \cup {"succeeded"}
               THEN IF "failed" \in Statuses THEN "failed" ELSE "cancelled"
             ELSE IF \E t \in Tasks : /\ mem[t].status = "pending"
                                      /\ \E d \in Deps[t] : mem[d].status \in dead
               THEN "failed"
             ELSE IF "pending" \in Statuses THEN "no_worker"
             ELSE "deadlock"
       IN  Stop(result)
    /\ UNCHANGED board

-----------------------------------------------------------------------------
\* Mutant: a task that finds no idle agent waits for one.
TurnOrWait(t) ==
    /\ At(t, "queued")
    /\ cancelEvent \/ mem[t].status # "pending" \/ ~DepsSatisfied(t)
    /\ GoTo(t, "finished")
    /\ UNCHANGED <<board, agent, worker, verifiers, sched, round, control>>

\* _run_one up to the claim: nothing to do, no idle agent, or a lost race end
\* it; otherwise reservation and claim are made in one stretch.
Turn(t) ==
    /\ At(t, "queued")
    /\ \/ cancelEvent \/ CanServe[t] \cap Idle = {}
       \/ mem[t].status # "pending" \/ ~DepsSatisfied(t)
    /\ GoTo(t, "finished")
    /\ UNCHANGED <<board, agent, worker, verifiers, sched, round, control>>

\* Mutant: the agent was found idle earlier and is not looked at again.
ClaimUnreserved(t, a) ==
    /\ At(t, "queued") /\ ~cancelEvent
    /\ a \in CanServe[t]
    /\ Board!Claim(t, a)
    /\ agent' = [agent EXCEPT ![a] = Reserved(t)]
    /\ worker' = [worker EXCEPT ![t] = a]
    /\ GoTo(t, "claimed")
    /\ UNCHANGED <<verifiers, sched, round, control>>

Claim(t, a) ==
    /\ At(t, "queued") /\ ~cancelEvent
    /\ a \in CanServe[t] \cap Idle
    /\ Board!Claim(t, a)
    /\ agent' = [agent EXCEPT ![a] = Reserved(t)]
    /\ worker' = [worker EXCEPT ![t] = a]
    /\ copy' = [copy EXCEPT ![t] = NoCopy]
    /\ GoTo(t, "claimed")
    /\ UNCHANGED <<strays, evidence, sched, round, control>>

\* A TaskClaimed or TaskStarted hook objects.
HookRefuses(t) ==
    /\ Hooks
    /\ At(t, "claimed") \/ At(t, "started")
    /\ ReleaseIfHeld(t) /\ Leave(t)
    /\ UNCHANGED <<verifiers, sched, round, control>>

Start(t) ==
    /\ At(t, "claimed")
    /\ IF Holds(t, {"claimed"})
       THEN /\ Board!Start(t, worker[t])
            /\ GoTo(t, "started")
            /\ UNCHANGED <<agent, worker>>
       ELSE ReleaseIfHeld(t) /\ Leave(t)
    /\ UNCHANGED <<verifiers, sched, round, control>>

Executing(t) == At(t, "executing") \/ At(t, "halting")

\* execute_assignment: the agent runs, under a token of its own, in a thread.
Hand(t) ==
    /\ agent' = [agent EXCEPT ![worker[t]].status = "running"]
    /\ GoTo(t, "executing")

\* The agent is moved to RUNNING and the assignment handed to a worker thread;
\* a stopped or expired agent cannot be moved, and the task is given back.
Begin(t) ==
    /\ At(t, "started")
    /\ IF MayRun(worker[t]) THEN Hand(t) /\ UNCHANGED <<board, worker>>
       ELSE ReleaseIfHeld(t) /\ Leave(t)
    /\ UNCHANGED <<verifiers, sched, round, control>>

\* A plan to approve, or a permission to ask for before the work or its commit:
\* the coroutine writes BLOCKED over whatever status the board holds.  Its record
\* is the board's own, which claim() returned, unless an add has replaced that.
WaitForHuman(t) ==
    /\ At(t, "started") \/ Executing(t)
    /\ mem' = [mem EXCEPT ![t] = [IF copy[t] = NoCopy THEN @ ELSE copy[t]
                                  EXCEPT !.status = "blocked"]]
    /\ copy' = [copy EXCEPT ![t] = NoCopy]
    /\ IF pc[t] = "started" THEN Leave(t) ELSE Return(t)
    /\ asked' = asked \cup {t}
    /\ UNCHANGED <<overdraft, strays, evidence, sched, round, cancelEvent, toCancel,
                   paused, interventions, resumes>>

-----------------------------------------------------------------------------
\* The assignment's token: set for the run, or by stop_agent for its agent.
TokenSet(t) == cancelEvent \/ pc[t] = "halting"

\* The executor returned under a set token, with whatever result.
ReturnCancelled(t) ==
    /\ Executing(t) /\ TokenSet(t)
    /\ IF cancelEvent
       THEN mem' = [mem EXCEPT ![t] = CancelledRecord(t)] /\ UNCHANGED overdraft
       ELSE ReleaseIfHeld(t)
    /\ Return(t)
    /\ UNCHANGED <<verifiers, sched, round, control>>

\* What a successful result hands in: artifacts, or none; for a contract that
\* names one it matters then whether earlier attempts left any in the store.
Outcomes(t) ==
    {"produced"} \cup {e \in {"without", "none"} :
        /\ t \in EmptyHanded
        /\ e = "none" => evidence[t] = "none" /\ t \in Demanding}

\* _reject_artifacts_fail_closed rejects what was handed in, and that only.
Refused(e) == IF e \in {"produced", "verified"} THEN "rejected" ELSE e

\* It returned a result; when the board has moved on, its artifacts are rejected.
ReturnResult(t) ==
    /\ At(t, "executing") /\ ~TokenSet(t)
    /\ \E outcome \in Outcomes(t) :
         IF Holds(t, {"running"})
         THEN /\ Board!MarkProduced(t, worker[t])
              /\ evidence' = [evidence EXCEPT ![t] = outcome]
              /\ GoTo(t, "produced")
              /\ UNCHANGED <<agent, worker>>
         ELSE /\ evidence' = [evidence EXCEPT ![t] =
                     IF mem[t].status = "succeeded" THEN @ ELSE Refused(outcome)]
              /\ Return(t)
              /\ UNCHANGED board
    /\ UNCHANGED <<copy, strays, sched, round, control>>

\* It returned a failure, raised, or did not return in time.  Only a returned
\* failure is preceded by a look at the token.
ReturnFailure(t) ==
    /\ Executing(t)
    /\ FailIfOwned(t)
    /\ Return(t)
    /\ UNCHANGED <<verifiers, sched, round, control>>

\* mark_verifying hands the task to a verifier thread.
Submit(t) ==
    /\ At(t, "produced")
    /\ IF mem[t].status = "produced"
       THEN /\ Board!MarkVerifying(t)
            /\ GoTo(t, "verifying")
            /\ UNCHANGED <<agent, worker, evidence>>
       ELSE /\ evidence' = [evidence EXCEPT ![t] = Refused(@)]
            /\ Return(t)
            /\ UNCHANGED board
    /\ copy' = [copy EXCEPT ![t] = NoCopy]
    /\ UNCHANGED <<strays, sched, round, control>>

\* _verify_task, in its thread: it takes a copy of the record, and adds the copy
\* to the board with the verdict in its metadata.  It rejects without either when
\* the contract names an artifact and the store has none of the task, whichever
\* attempt's, and when something raises.
VerifierReads(t) ==
    /\ pc[t] = "verifying" /\ copy[t] = NoCopy
    /\ evidence[t] # "none"
    /\ copy' = [copy EXCEPT ![t] = mem[t]]
    /\ UNCHANGED <<board, agent, pc, worker, strays, evidence, sched, round, control>>

VerifierWrites(t) ==
    /\ pc[t] = "verifying" /\ copy[t] # NoCopy
    /\ mem' = [mem EXCEPT ![t] = copy[t]]
    /\ copy' = [copy EXCEPT ![t] = NoCopy]
    /\ \A u \in Tasks : Suspended(u)
    /\ \E verdict \in {"passed", "rejected"} : GoTo(t, verdict)
    /\ UNCHANGED <<overdraft, agent, worker, strays, evidence, sched, round, control>>

VerifierFindsNothing(t) ==
    /\ At(t, "verifying") /\ copy[t] = NoCopy
    /\ GoTo(t, "rejected")
    /\ UNCHANGED <<board, agent, worker, verifiers, sched, round, control>>

StrayReads(s) ==
    /\ s.copy = NoCopy
    /\ strays' = (strays \ {s}) \cup {[s EXCEPT !.copy = mem[s.task]]}
    /\ UNCHANGED <<board, agent, pc, worker, copy, evidence, sched, round, control>>

StrayWrites(s) ==
    /\ s.copy # NoCopy
    /\ mem' = [mem EXCEPT ![s.task] = s.copy]
    /\ strays' = strays \ {s}
    /\ copy' = [copy EXCEPT ![s.task] =
          IF @ = NoCopy /\ pc[s.task] \in {"claimed", "started", "executing", "halting"}
          THEN mem[s.task] ELSE @]
    /\ UNCHANGED <<overdraft, agent, pc, worker, evidence, sched, round, control>>

\* mark_repair_required, and the rejection of the evidence when it returns False.
SendToRepair(t) ==
    /\ IF mem[t].status \in {"produced", "verifying"}
       THEN Board!MarkRepairRequired(t) ELSE UNCHANGED board
    /\ Return(t)

\* The verdict was not a pass, or a TaskCompleted hook objected.
Rejected(t) ==
    /\ At(t, "rejected") \/ (Hooks /\ At(t, "passed"))
    /\ SendToRepair(t)
    /\ evidence' = [evidence EXCEPT ![t] =
          IF mem[t].status \in {"produced", "verifying", "succeeded"} THEN @ ELSE Refused(@)]
    /\ UNCHANGED <<copy, strays, sched, round, control>>

\* integrate() reports a conflict: REPAIR_REQUIRED over whatever status there is.
MergeConflict(t) ==
    /\ At(t, "passed")
    /\ Overwrite(t, "repair_required") /\ Return(t)
    /\ UNCHANGED <<verifiers, sched, round, control>>

\* Mutant: an artifact that cannot be marked verified does not stop the task.
VerifyEvidenceQuietly(t) ==
    /\ At(t, "passed")
    /\ \E mark \in {"verified", "rejected"} :
         evidence' = [evidence EXCEPT ![t] = IF @ = "produced" THEN mark ELSE @]
    /\ GoTo(t, "committing")
    /\ UNCHANGED <<board, agent, worker, copy, strays, sched, round, control>>

\* The artifacts of the result are marked verified before the task; when that
\* fails they are rejected and the task goes to repair.  A result without any
\* has nothing to mark, and goes on.
VerifyEvidence(t) ==
    /\ At(t, "passed")
    /\ \/ /\ evidence' = [evidence EXCEPT ![t] = IF @ = "produced" THEN "verified" ELSE @]
          /\ GoTo(t, "committing")
          /\ UNCHANGED <<board, agent, worker>>
       \/ /\ evidence[t] = "produced"
          /\ evidence' = [evidence EXCEPT ![t] = "rejected"]
          /\ SendToRepair(t)
    /\ UNCHANGED <<copy, strays, sched, round, control>>

Commit(t) ==
    /\ At(t, "committing")
    /\ IF mem[t].status \in {"produced", "verifying"}
       THEN /\ Board!MarkVerified(t)
            /\ Return(t)
            /\ UNCHANGED evidence
       ELSE /\ evidence' = [evidence EXCEPT ![t] = Refused(@)]
            /\ Return(t)
            /\ UNCHANGED board
    /\ UNCHANGED <<copy, strays, sched, round, control>>

\* The finally of the assignment: the heartbeat is stopped, the agent given back.
End(t) ==
    /\ At(t, "ending")
    /\ agent' = [agent EXCEPT ![worker[t]] = Released(worker[t], t)]
    /\ worker' = [worker EXCEPT ![t] = NoAgent]
    /\ GoTo(t, "leaving")
    /\ UNCHANGED <<board, verifiers, sched, round, control>>

\* Only then the TeammateIdle hooks run, and one may ask for a replan of the task,
\* whoever has it by now.
Depart(t) ==
    /\ At(t, "leaving")
    /\ GoTo(t, "finished")
    /\ \/ UNCHANGED board
       \/ Hooks /\ Board!RequestReplan(t)
    /\ UNCHANGED <<agent, worker, verifiers, sched, round, control>>

-----------------------------------------------------------------------------
Intervene ==
    /\ interventions < MaxInterventions
    /\ interventions' = interventions + 1

\* cancel_run, on the API thread: the event first, then the board, task by task,
\* then the stored status.
CancelRun ==
    /\ Intervene /\ ~cancelEvent
    /\ cancelEvent' = TRUE
    /\ toCancel' = Tasks
    /\ UNCHANGED <<board, agent, pc, worker, verifiers, sched, round, paused, asked, resumes>>

CancelNext(t) ==
    /\ t \in toCancel
    /\ mem' = [mem EXCEPT ![t] = CancelledRecord(t)]
    /\ toCancel' = toCancel \ {t}
    /\ paused' = (paused /\ toCancel # {t})
    /\ UNCHANGED <<overdraft, agent, pc, worker, verifiers, sched, round,
                   cancelEvent, asked, interventions, resumes>>

\* pause_run: idle agents become BLOCKED, then the stored status is "paused".
PauseRun ==
    /\ Intervene /\ ~paused /\ ~cancelEvent
    /\ sched = "running"
    /\ agent' = [a \in Agents |-> IF agent[a].status = "idle"
                                  THEN [agent[a] EXCEPT !.status = "blocked"] ELSE agent[a]]
    /\ paused' = TRUE
    /\ UNCHANGED <<board, pc, worker, verifiers, sched, round, cancelEvent, toCancel,
                   asked, resumes>>

\* resume_run: prepare_for_resume, the agents are built again from their rows (a
\* reservation comes back idle, any other status as it was), a blocked task whose
\* request or plan was approved is requeued, and a new _run_loop begins.
ResumeRun ==
    /\ sched = "paused" /\ ~cancelEvent /\ resumes < MaxResumes
    /\ resumes' = resumes + 1
    /\ \E approved \in SUBSET {t \in asked : mem[t].status = "blocked"} :
         mem' = [t \in Tasks |-> IF t \in approved \/ mem[t].status \in Board!InFlight
                                 THEN Board!Requeued(mem[t]) ELSE mem[t]]
    /\ agent' = [a \in Agents |->
          IF agent[a].status \in {"claiming", "running"}
          THEN NewAgent ELSE agent[a]]
    /\ sched' = "running" /\ round' = 0 /\ paused' = FALSE
    /\ UNCHANGED <<overdraft, pc, worker, verifiers, cancelEvent, toCancel, asked, interventions>>

\* stop_agent: cooperative for a busy agent, immediate for any other.
StopAgent(a) ==
    /\ Intervene
    /\ agent[a].status \notin {"stopping", "stopped"}
    /\ agent' = [agent EXCEPT ![a].status = Halted(@)]
    /\ pc' = [t \in Tasks |-> IF pc[t] = "executing" /\ worker[t] = a
                               THEN "halting" ELSE pc[t]]
    /\ UNCHANGED <<board, worker, verifiers, sched, round, cancelEvent, toCancel,
                   paused, asked, resumes>>

\* cleanup_expired: a busy agent missed its heartbeats.
Expire(a) ==
    /\ Intervene /\ LoopIsFree
    /\ agent[a].status \in {"claiming", "running", "stopping"}
    /\ agent' = [agent EXCEPT ![a].status = "failed"]
    /\ UNCHANGED <<board, pc, worker, verifiers, sched, round, cancelEvent, toCancel,
                   paused, asked, resumes>>

\* The team tools, called by an agent that is executing: it blocks its own task,
\* has any task replanned, or claims a task for itself.  What the tools project
\* into a record with get and add is TaskService's, and is not repeated here.
ToolCall(t, a) ==
    /\ Intervene
    /\ \E u \in Tasks : pc[u] \in {"executing", "halting"} /\ worker[u] = a
    /\ \/ Board!MarkBlocked(t, a)
       \/ Board!RequestReplan(t)
       \/ a \in CanServe[t] /\ Board!Claim(t, a)
    /\ UNCHANGED <<agent, pc, worker, verifiers, sched, round, cancelEvent, toCancel,
                   paused, asked, resumes>>

-----------------------------------------------------------------------------
Init ==
    /\ mem = [t \in Tasks |-> Board!NewTask]
    /\ overdraft = [t \in Tasks |-> 0]
    /\ agent = [a \in Agents |-> NewAgent]
    /\ pc = [t \in Tasks |-> "none"]
    /\ worker = [t \in Tasks |-> NoAgent]
    /\ copy = [t \in Tasks |-> NoCopy]
    /\ strays = {}
    /\ evidence = [t \in Tasks |-> "none"]
    /\ sched = "running"
    /\ round = 0
    /\ cancelEvent = FALSE /\ paused = FALSE
    /\ toCancel = {} /\ asked = {}
    /\ interventions = 0 /\ resumes = 0

Loop ==
    \/ ObserveCancel
    \/ ObservePause
    \/ ObserveSuccess
    \/ ExhaustRounds
    \/ Dispatch
    \/ ResolveIdle

Coroutine(t) ==
    \/ Turn(t)
    \/ \E a \in Agents : Claim(t, a)
    \/ HookRefuses(t)
    \/ Start(t)
    \/ Begin(t)
    \/ WaitForHuman(t)
    \/ ReturnCancelled(t)
    \/ ReturnResult(t)
    \/ ReturnFailure(t)
    \/ Submit(t)
    \/ VerifierReads(t)
    \/ VerifierWrites(t)
    \/ VerifierFindsNothing(t)
    \/ Rejected(t)
    \/ MergeConflict(t)
    \/ VerifyEvidence(t)
    \/ Commit(t)
    \/ End(t)
    \/ Depart(t)

Stray == \E s \in strays : StrayReads(s) \/ StrayWrites(s)

Control ==
    \/ CancelRun
    \/ PauseRun
    \/ ResumeRun
    \/ \E a \in Agents : StopAgent(a) \/ Expire(a)
    \/ \E t \in Tasks, a \in Agents : ToolCall(t, a)

Next ==
    \/ Loop
    \/ \E t \in Tasks : Coroutine(t) \/ CancelNext(t)
    \/ Stray
    \/ Control

\* Threads return or are timed out, hooks have timeouts, the loop wakes at least
\* once a second and a retry is due in the end, and a cancel_run that began goes
\* on; nobody has to intervene.
Fairness ==
    /\ WF_vars(Loop)
    /\ \A t \in Tasks : WF_vars(Coroutine(t)) /\ WF_vars(CancelNext(t))

Spec == Init /\ [][Next]_vars /\ Fairness

-----------------------------------------------------------------------------
Live(t) == pc[t] \in Holding

\* An agent that a loop left CLAIMING at a hook, that was stopped then, and that
\* resume_run restored as it was: nobody ends it.
LeftBehind(a) == Hooks /\ resumes > 0 /\ agent[a].status = "stopping"

\* While the loop runs, a busy agent works for exactly one coroutine, the one
\* that reserved it: no reservation is shared, and none is leaked by a refused
\* hook, a lost claim, a conflict, a stop or a failure (1304-1338).
ReservationHeld ==
    /\ \A t, u \in Tasks : Live(t) /\ Live(u) /\ t # u => worker[t] # worker[u]
    /\ sched = "running" =>
         \A a \in Agents : agent[a].status \in {"claiming", "running", "stopping"} =>
            \/ \E t \in Tasks : Live(t) /\ worker[t] = a /\ agent[a].task = t
            \/ LeftBehind(a)

\* docs/architecture.md:58: an exclusive task shares the scheduler with no other
\* one, whichever of them came first, over retries and resumes; and no wave
\* exceeds the concurrency limit.
Barrier ==
    /\ \A t \in Exclusive, u \in Tasks : t # u => ~(Live(t) /\ Live(u))
    /\ Cardinality({t \in Tasks : Live(t)}) <= MaxConcurrency

\* The state of the scheduler is one the code can be in: busy agents, coroutines
\* and the barrier agree (parallel_scheduler.py:349-535, 749-812, 1304-1338).
Safety == TypeOK /\ ReservationHeld /\ Barrier

\* What success may rest on: artifacts of the latest attempt that are marked
\* verified; or a verdict alone, when that attempt handed in none, except that a
\* contract which names an artifact wants some attempt's in the store.
Backed(t) == evidence[t] \in {"verified", "without"}

\* No task succeeds over artifacts of its latest attempt that are unverified or
\* rejected, nor without any in the store if its contract names one, although the
\* artifacts are settled before the task, and the API, the team tools and stray
\* verifiers may change the record in between (1165-1219, 1568-1571).
SucceededHasEvidence ==
    \A t \in Tasks : mem[t].status = "succeeded" => Backed(t)

\* What a plan and its team promise the scheduler: every task has an agent that
\* covers it, and no task waits for itself.
Staffed == \A t \in Tasks : CanServe[t] # {}

Acyclic == \A S \in SUBSET Tasks : S # {} => \E t \in S : Deps[t] \cap S = {}

\* Unless somebody interferes, the run ends in a state that says why: it never
\* runs out of workers, never finds its tasks in flight with nobody on them, and
\* completes or fails only when its tasks did.
UndisturbedRunsResolve ==
    interventions = 0 =>
        /\ sched \notin {"no_worker", "deadlock", "cancelled"}
        /\ sched = "failed" => "failed" \in Statuses
        /\ sched \in {"completed", "gated"} => AllSucceeded

\* Every _run_loop ends: rounds are bounded, every wait has an end, and an idle
\* loop either has a retry to wait for or decides (305-347, 573-737).
LoopEnds == sched = "running" ~> sched # "running"

\* No agent stays busy for good: whatever happens to its task, to the run or to
\* itself, it is given back, stopped or failed, also when the loop ends (1304-1338).
AgentsComeBack ==
    \A a \in Agents :
        agent[a].status \in {"claiming", "running", "stopping"}
            ~> agent[a].status \notin {"claiming", "running", "stopping"}

\* docs/architecture.md:48: the cancelled state takes precedence over a late
\* result of a worker.
CancelledIsFinal ==
    [][\A t \in Tasks : mem[t].status = "cancelled" => mem'[t].status = "cancelled"]_vars

\* resume_run continues the same execution: it may run out of workers only if an
\* agent was stopped or lost.
ResumedRunsHaveWorkers ==
    sched = "no_worker" => \E a \in Agents : agent[a].status \in {"stopped", "failed"}
=============================================================================
