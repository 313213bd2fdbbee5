------------------------------ MODULE RootGraph ------------------------------
(***************************************************************************)
(* The governed run graph (app/runtime/root_graph/graph.py): the LangGraph *)
(* state machine that plans a run, hands the plan to the scheduler, routes *)
(* the result to verification, repair, replanning or a human, and ends the *)
(* run.  One action per node; a conditional edge is taken in the step of   *)
(* the node it leaves, as LangGraph does.                                  *)
(*                                                                         *)
(* The task board is seen through what the graph reads of it: the status   *)
(* of the newest record of each task of the stored plan (current), and the *)
(* statuses of the records that a repair or a new plan has superseded and  *)
(* that still sit on the board (leftover).  A whole scheduler run is one   *)
(* step here; module Scheduler has it in detail.                           *)
(*                                                                         *)
(* LangGraph checkpoints after every node.  A crash therefore loses the    *)
(* state update of the running node and keeps what the node has written to *)
(* the database; recovery runs the node again.                             *)
(***************************************************************************)
EXTENDS Naturals, FiniteSets

CONSTANTS
    Tasks,              \* the ids a planner may use
    Depends,            \* Depends[t]: the tasks t waits for
    MaxRepairRounds,    \* settings.max_repair_rounds
    RecursionLimit,     \* "recursion_limit" of the graph's invocation
    MaxDisturbances     \* bound: crashes, late replan requests and human answers

ASSUME RootGraphAssumption ==
    /\ Depends \in [Tasks -> SUBSET Tasks]
    /\ MaxRepairRounds \in Nat \ {0}
    /\ RecursionLimit \in Nat
    /\ MaxDisturbances \in Nat

VARIABLES
    node,           \* the node that runs next
    error,          \* state["error"] is set
    plan,           \* the tasks of state["task_graph_json"]
    matches,        \* that graph has the signature of the stored one
    current,        \* newest record of each task of the stored plan -> status
    leftover,       \* statuses of superseded records that the routes look at
    original,       \* the stored graph is the first plan, its task ids unchanged
    repairRound,    \* state["repair_round"]
    rounds,         \* state["repair_rounds_by_task"]
    status,         \* state["status"]
    steps,          \* super-steps of this invocation
    startRound,     \* repairRound when this invocation began (history)
    cause,          \* the node that asked for a repair or a new plan (history)
    made,           \* repair records made for each task of the plan (history)
    replans,        \* new plans the board asked for (history)
    overtaken,      \* a replan request came after the verifier looked (history)
    crashes, late, answers

vars == <<node, error, plan, matches, current, leftover, original, repairRound,
          rounds, status, steps, startRound, cause, made, replans, overtaken,
          crashes, late, answers>>

bounds == <<crashes, late, answers>>
boardVars == <<current, leftover, original, made>>
counters == <<repairRound, rounds, replans>>

-----------------------------------------------------------------------------
(* Types *)

TaskStatus == {"pending", "blocked", "repair_required", "replan_required",
               "succeeded", "failed", "cancelled"}

\* Statuses that make the scheduler stop and ask, and the routes turn.
Steering == {"blocked", "repair_required", "replan_required"}

Node == {"intake", "complexity_router", "single_plan", "team_supervisor",
         "build_team", "dispatch", "collect", "verify", "judging", "repair",
         "replan", "human_interrupt", "waiting", "finalize", "fail", "end"}

\* A plan waits only for tasks of its own (TaskGraph.validate).
Plans == {P \in SUBSET Tasks : P # {} /\ \A t \in P : Depends[t] \subseteq P}

Board == UNION {[P -> TaskStatus] : P \in SUBSET Tasks}

TypeOK ==
    /\ node \in Node
    /\ error \in BOOLEAN
    /\ plan \in SUBSET Tasks
    /\ matches \in BOOLEAN
    /\ current \in Board
    /\ leftover \subseteq Steering \cup {"pending"}
    /\ original \in BOOLEAN
    /\ repairRound \in Nat
    /\ rounds \in [Tasks -> Nat]
    /\ status \in {"created", "running", "succeeded", "failed"}
    /\ steps \in Nat
    /\ startRound \in Nat
    /\ cause \in {"dispatch", "verify"}
    /\ made \in [Tasks -> Nat]
    /\ replans \in Nat
    /\ overtaken \in BOOLEAN
    /\ {crashes, late, answers} \subseteq Nat

Zero == [t \in Tasks |-> 0]

-----------------------------------------------------------------------------
(* What the nodes read of the board *)

Statuses(board) == {board[t] : t \in DOMAIN board}

AllSucceeded(board) == \A t \in DOMAIN board : board[t] = "succeeded"

\* The part of superseded statuses the graph can still meet.
Kept(statuses) == statuses \cap (Steering \cup {"pending"})

Disturbable == crashes + late + answers < MaxDisturbances

GlobalLimit == 3 * MaxRepairRounds

\* The edges that leave a node take it to the next one.
Goto(n, m) ==
    /\ node = n
    /\ steps < RecursionLimit
    /\ node' = m
    /\ steps' = steps + 1

-----------------------------------------------------------------------------
(* Planning *)

\* _intake (the caller has refused an empty goal).
Intake ==
    /\ Goto("intake", "complexity_router")
    /\ status' = "running"
    /\ UNCHANGED <<error, plan, matches, boardVars, counters, startRound, cause,
                   overtaken, bounds>>

\* _complexity_router: the supervisor chooses one worker or a team.
ComplexityRouter ==
    /\ \E next \in {"single_plan", "team_supervisor"} :
          Goto("complexity_router", next)
    /\ UNCHANGED <<error, plan, matches, boardVars, counters, status, startRound,
                   cause, overtaken, bounds>>

\* _single_plan: one task.
SinglePlan ==
    /\ Goto("single_plan", "build_team")
    /\ \E t \in Tasks : Depends[t] = {} /\ plan' = {t}
    /\ matches' = FALSE
    /\ UNCHANGED <<error, boardVars, counters, status, startRound, cause,
                   overtaken, bounds>>

\* _team_supervisor: the planner, or the fixed fallback plan when it keeps
\* failing.  Only the first plan can have the signature of the stored graph:
\* repaired and revised plans carry other task ids.
TeamSupervisor ==
    /\ Goto("team_supervisor", "build_team")
    /\ \/ /\ plan' \in Plans
          /\ matches' \in {FALSE, original /\ plan' = DOMAIN current}
          /\ error' = FALSE
          /\ UNCHANGED status
       \/ /\ error' = TRUE
          /\ status' = "failed"
          /\ UNCHANGED <<plan, matches>>
    /\ UNCHANGED <<boardVars, counters, startRound, cause, overtaken, bounds>>

\* _build_team and its edge: an error that arrives here fails the run, and so
\* does an exception of the team builder.
BuildTeam ==
    /\ \/ /\ error
          /\ Goto("build_team", "fail")
          /\ UNCHANGED <<error, status>>
       \/ /\ ~error
          /\ Goto("build_team", "dispatch")
          /\ status' = "running"
          /\ UNCHANGED error
       \/ /\ ~error
          /\ Goto("build_team", "fail")
          /\ error' = TRUE
          /\ status' = "failed"
    /\ UNCHANGED <<plan, matches, boardVars, counters, startRound, cause, overtaken,
                   bounds>>

-----------------------------------------------------------------------------
(* Dispatching *)

\* register_initial_graph: the first plan is written to the board, the same
\* plan is taken up where it stands, another plan supersedes every record.
Registered == IF matches THEN current ELSE [t \in plan |-> "pending"]
Superseded == IF matches THEN leftover
                         ELSE leftover \cup Kept(Statuses(current))

\* Task ids that are on the board already are renamed in a revised plan.
Renamed == IF matches THEN ~original ELSE DOMAIN current # {}

\* New task ids: no repair counts against them yet.
Counted(count) == IF matches THEN count ELSE Zero

\* What may become of a record while the scheduler and the control plane run.
Reachable(s) ==
    CASE s = "pending"   -> TaskStatus
      [] s = "cancelled" -> {"cancelled"}
      [] OTHER           -> {s, "replan_required"}

\* The boards a scheduler run may leave: a task runs only after the tasks it
\* depends on have succeeded.
Ran(board) ==
    {after \in [DOMAIN board -> TaskStatus] :
        \A t \in DOMAIN board :
            /\ after[t] \in Reachable(board[t])
            /\ board[t] = "pending" /\ after[t] \notin {"pending", "replan_required", "cancelled"}
                  => \A d \in Depends[t] \cap DOMAIN board :
                         after[d] \in {"succeeded", "replan_required"}}

\* Superseded records that were still pending are dispatched like the others.
LeftBehind(statuses) ==
    IF "pending" \in statuses
    THEN {statuses \cup more : more \in SUBSET Steering}
            \cup {(statuses \ {"pending"}) \cup more : more \in SUBSET Steering}
    ELSE {statuses}

\* _resolve_idle and _finalize_verified_run of the scheduler, in their order:
\* success (or a gate that needs a human, or fails), then the records that ask
\* for an intervention, superseded ones included, then failure.  A pause, a
\* cancellation, the round limit or an exception can come at any time.
Outcomes(board, old) ==
    {"paused", "failed"} \cup
    (IF AllSucceeded(board) THEN {"completed", "waiting_human"}
     ELSE IF (Statuses(board) \cup old) \cap Steering # {}
          THEN {"waiting_human"} ELSE {})

\* A mutant: the label "human" is taken for the name of a node.
RouteAfterDispatchUnmapped(outcome, statuses) ==
    IF outcome = "waiting_human" THEN "human"
    ELSE IF outcome = "completed" THEN "collect" ELSE "fail"

\* _route_after_dispatch looks at every record of the run.
RouteAfterDispatch(outcome, statuses) ==
    CASE outcome = "completed" -> "collect"
      [] outcome = "waiting_human" /\ "repair_required" \in statuses -> "repair"
      [] outcome = "waiting_human" /\ "repair_required" \notin statuses
            /\ "replan_required" \in statuses -> "replan"
      [] outcome = "paused" \/ (outcome = "waiting_human"
            /\ statuses \cap {"repair_required", "replan_required"} = {})
            -> "human_interrupt"
      [] OTHER -> "fail"

\* _dispatch and its edge: register the plan, run the scheduler, route.
Dispatch ==
    /\ \E after \in Ran(Registered), old \in LeftBehind(Superseded) :
          \E outcome \in Outcomes(after, old) :
             /\ Goto("dispatch",
                     RouteAfterDispatch(outcome, Statuses(after) \cup old))
             /\ current' = after
             /\ leftover' = old
             /\ error' = (outcome # "completed")
    /\ matches' = TRUE
    /\ original' = ~Renamed
    /\ plan' = DOMAIN current'
    /\ rounds' = Counted(rounds)
    /\ made' = Counted(made)
    /\ cause' = "dispatch"
    /\ UNCHANGED <<repairRound, replans, status, startRound, overtaken, bounds>>

-----------------------------------------------------------------------------
(* Verifying *)

\* _collect records who is done; it changes nothing else.
Collect ==
    /\ Goto("collect", "verify")
    /\ UNCHANGED <<error, plan, matches, boardVars, counters, status, startRound,
                   cause, overtaken, bounds>>

\* A mutant: the verdict of the model alone decides.
VerifyReadsNothing ==
    /\ node = "verify"
    /\ steps < RecursionLimit
    /\ node' = "judging"
    /\ UNCHANGED <<error, steps, plan, matches, boardVars, counters, status,
                   startRound, cause, overtaken, bounds>>

\* _verify, first half: the board is read once.  A task that is not SUCCEEDED
\* ends the node with the verdict "fail".
VerifyReads ==
    /\ IF DOMAIN current # {} /\ AllSucceeded(current)
       THEN /\ node = "verify"
            /\ steps < RecursionLimit
            /\ node' = "judging"
            /\ UNCHANGED <<error, steps>>
       ELSE Goto("verify", "fail") /\ error' = TRUE
    /\ UNCHANGED <<plan, matches, boardVars, counters, status, startRound, cause,
                   overtaken, bounds>>

\* _route_after_verify: rounds are bought from the global budget.
RouteAfterVerify(verdict) ==
    CASE verdict = "pass" -> "finalize"
      [] verdict \in {"repair", "replan"} /\ repairRound < GlobalLimit -> verdict
      [] verdict = "human_required" -> "human_interrupt"
      [] OTHER -> "fail"

\* _verify, second half, and its edge.  The verifier calls a model and may take
\* minutes; an exception counts as the verdict "repair".
Judge ==
    /\ \E verdict \in {"pass", "repair", "replan", "human_required", "fail"} :
          /\ node' = RouteAfterVerify(verdict)
          /\ error' \in {FALSE, verdict = "repair"}
    /\ node = "judging"
    /\ steps' = steps + 1
    /\ cause' = "verify"
    /\ UNCHANGED <<plan, matches, boardVars, counters, status, startRound, overtaken,
                   bounds>>

-----------------------------------------------------------------------------
(* Repairing and replanning *)

\* The newest records that ask for a repair or else, when there are none, the
\* succeeded tasks no other task depends on.
Broken == {t \in DOMAIN current : current[t] = "repair_required"}
Leaves == {t \in DOMAIN current : /\ current[t] = "succeeded"
                                  /\ \A u \in DOMAIN current : t \notin Depends[u]}
Candidates == IF Broken # {} THEN Broken ELSE Leaves

Eligible == {t \in Candidates : rounds[t] < MaxRepairRounds}

\* create_repair for a set of tasks: a fresh record takes the place of each,
\* and the superseded one keeps its status.
CreateRepairs(ts) ==
    /\ current' = [t \in DOMAIN current |-> IF t \in ts THEN "pending" ELSE current[t]]
    /\ leftover' = leftover \cup Kept({current[t] : t \in ts})
    /\ original' = (original /\ ts = {})
    /\ made' = [t \in Tasks |-> IF t \in ts THEN made[t] + 1 ELSE made[t]]

\* _repair.  Out of budget, or with nothing to repair, it leaves an error that
\* build_team turns into the end of the run.
Repair ==
    /\ Goto("repair", "build_team")
    /\ IF repairRound < GlobalLimit /\ Eligible # {}
       THEN /\ CreateRepairs(Eligible)
            /\ rounds' = [t \in Tasks |-> IF t \in Eligible THEN rounds[t] + 1
                                                            ELSE rounds[t]]
            /\ repairRound' = repairRound + 1
            /\ error' = FALSE
            /\ UNCHANGED status
       ELSE /\ error' = TRUE
            /\ status' = "failed"
            /\ UNCHANGED <<boardVars, repairRound, rounds>>
    /\ UNCHANGED <<plan, matches, replans, startRound, cause, overtaken, bounds>>

\* A mutant: a new plan is not counted as a round.
ReplanUncounted ==
    /\ Goto("replan", "team_supervisor")
    /\ plan' = {}
    /\ matches' = FALSE
    /\ rounds' = Zero
    /\ error' = FALSE
    /\ UNCHANGED <<boardVars, repairRound, replans, status, startRound, cause,
                   overtaken, bounds>>

\* _replan: the plan is dropped, and with it the budgets of its tasks.  The
\* global count goes on, but this node does not look at it.
Replan ==
    /\ Goto("replan", "team_supervisor")
    /\ plan' = {}
    /\ matches' = FALSE
    /\ repairRound' = repairRound + 1
    /\ rounds' = Zero
    /\ error' = FALSE
    /\ replans' = IF cause = "dispatch" THEN replans + 1 ELSE replans
    /\ UNCHANGED <<boardVars, status, startRound, cause, overtaken, bounds>>

-----------------------------------------------------------------------------
(* People, the end, and what happens to the process *)

\* _human_interrupt: interrupt() ends the invocation.
HumanInterrupt ==
    /\ node = "human_interrupt"
    /\ steps < RecursionLimit
    /\ node' = "waiting"
    /\ UNCHANGED <<error, plan, matches, boardVars, counters, status, steps,
                   startRound, cause, overtaken, bounds>>

\* A new invocation counts its super-steps from the beginning.
Invoked(done) ==
    /\ steps' = done
    /\ startRound' = repairRound

\* invoke(resume=True, resume_decision=...): denied, the run fails; approved,
\* it is dispatched again.  The resume coordinator has returned approved tasks
\* to the queue.
HumanAnswers ==
    /\ node = "waiting"
    /\ Disturbable
    /\ answers' = answers + 1
    /\ \/ node' = "fail" /\ error' = TRUE /\ status' = "failed" /\ UNCHANGED current
       \/ /\ node' = "dispatch" /\ error' = FALSE /\ status' = "running"
          /\ \E ts \in SUBSET {t \in DOMAIN current : current[t] = "blocked"} :
                current' = [t \in DOMAIN current |->
                              IF t \in ts THEN "pending" ELSE current[t]]
    /\ Invoked(1)
    /\ UNCHANGED <<plan, matches, leftover, original, made, counters, cause, overtaken,
                   crashes, late>>

\* _finalize: every task the verifier looked at is SUCCEEDED already.
Finalize ==
    /\ Goto("finalize", "end")
    /\ status' = "succeeded"
    /\ error' = FALSE
    /\ UNCHANGED <<plan, matches, boardVars, counters, startRound, cause, overtaken,
                   bounds>>

\* _fail
Fail ==
    /\ Goto("fail", "end")
    /\ status' = "failed"
    /\ UNCHANGED <<error, plan, matches, boardVars, counters, startRound, cause,
                   overtaken, bounds>>

\* LangGraph raises GraphRecursionError; the caller stores the run as failed.
RecursionError ==
    /\ node \notin {"end", "waiting"}
    /\ steps = RecursionLimit
    /\ node' = "end"
    /\ status' = "failed"
    /\ UNCHANGED <<error, plan, matches, boardVars, counters, steps, startRound,
                   cause, overtaken, bounds>>

\* A worker thread that outlived its task, or a teammate, asks for a new plan
\* after the scheduler has stopped (request_replan).
RequestReplan ==
    /\ node \in {"collect", "verify", "judging", "finalize"}
    /\ Disturbable
    /\ late' = late + 1
    /\ \E t \in DOMAIN current :
          /\ current[t] # "cancelled"
          /\ current' = [current EXCEPT ![t] = "replan_required"]
    /\ overtaken' = (overtaken \/ node \in {"judging", "finalize"})
    /\ UNCHANGED <<node, error, plan, matches, leftover, original, made, counters, status,
                   steps, startRound, cause, crashes, answers>>

\* The process dies in the middle of a node and recovery invokes the graph
\* again from the last checkpoint.  In dispatch the plan is registered and part
\* of it has run; the stored graph then differs from the checkpointed one if
\* registration renamed its tasks or a teammate added to it.  In repair some of
\* the new records exist.
Crash ==
    /\ Disturbable
    /\ node \notin {"end", "waiting"}
    /\ crashes' = crashes + 1
    /\ \/ /\ node = "dispatch"
          /\ current' \in Ran(Registered)
          /\ leftover' \in LeftBehind(Superseded)
          /\ original' = ~Renamed
          /\ made' = Counted(made)
          /\ rounds' = Counted(rounds)
          /\ matches' \in BOOLEAN
       \/ /\ node = "repair"
          /\ repairRound < GlobalLimit
          /\ \E ts \in SUBSET Eligible : CreateRepairs(ts)
          /\ UNCHANGED <<matches, rounds>>
       \/ /\ node # "dispatch"
          /\ UNCHANGED <<boardVars, matches, rounds>>
    /\ node' = IF node = "judging" THEN "verify" ELSE node
    /\ Invoked(0)
    /\ UNCHANGED <<error, plan, repairRound, replans, status, cause, overtaken, late,
                   answers>>

-----------------------------------------------------------------------------

Init ==
    /\ node = "intake"
    /\ error = FALSE
    /\ plan = {}
    /\ matches = FALSE
    /\ current = [t \in {} |-> "pending"]
    /\ leftover = {}
    /\ original = FALSE
    /\ repairRound = 0
    /\ rounds = Zero
    /\ status = "created"
    /\ steps = 0
    /\ startRound = 0
    /\ cause = "dispatch"
    /\ made = Zero
    /\ replans = 0
    /\ overtaken = FALSE
    /\ crashes = 0
    /\ late = 0
    /\ answers = 0

Advance ==
    \/ Intake \/ ComplexityRouter \/ SinglePlan \/ TeamSupervisor \/ BuildTeam
    \/ Dispatch \/ Collect \/ VerifyReads \/ Judge \/ Repair \/ Replan
    \/ HumanInterrupt \/ Finalize \/ Fail \/ RecursionError

Next == Advance \/ HumanAnswers \/ RequestReplan \/ Crash

Spec == Init /\ [][Next]_vars

-----------------------------------------------------------------------------
(* Properties *)

(***************************************************************************)
(* "Per-task" repair budget: a task of the plan is repaired at most        *)
(* max_repair_rounds times, whatever order dispatch and verification ask   *)
(* for repairs in; a crash can cost one repair more, because the counter   *)
(* is in the checkpoint and the new record already on the board.           *)
(***************************************************************************)
RepairBudget == \A t \in Tasks : made[t] <= MaxRepairRounds + crashes

(***************************************************************************)
(* The global safety net: a run goes through at most 3 * max_repair_rounds *)
(* rounds of repair, plus one for every new plan the task board itself     *)
(* asked for: those bypass the net.                                        *)
(***************************************************************************)
RoundsBounded == repairRound <= GlobalLimit + replans

(***************************************************************************)
(* The recursion limit leaves room for every round: an invocation that has *)
(* begun k rounds has taken at most 10 + 6 * k super-steps, so a limit     *)
(* above that is met only by a run that keeps replanning.                  *)
(***************************************************************************)
StepsPerRound == steps <= 10 + 6 * (repairRound - startRound)

(***************************************************************************)
(* What a run may cost: repairs of each task, rounds of repair, and super- *)
(* steps, whatever order failures, verdicts, answers and crashes come in   *)
(* (_repair, _route_after_dispatch, _route_after_verify, the recursion     *)
(* limit of the invocation).                                               *)
(***************************************************************************)
BoundedWork == RepairBudget /\ RoundsBounded /\ StepsPerRound

\* Types, and the budgets that bound repairs, rounds and super-steps.
Safety == TypeOK /\ BoundedWork

(***************************************************************************)
(* A run ends as succeeded only when every current task of its plan is     *)
(* SUCCEEDED, unless somebody asked for a new plan after the verifier had  *)
(* read the board: _finalize does not look again.                          *)
(***************************************************************************)
SucceededRunsAreDone ==
    status = "succeeded" /\ ~overtaken => plan # {} /\ AllSucceeded(current)

(***************************************************************************)
(* "Whole-run verification happens after every worker task passed.  Repair *)
(* the successful leaf outputs": a task that has SUCCEEDED is done again   *)
(* only when the verification of the whole run asked for it.               *)
(***************************************************************************)
SucceededWorkIsKept ==
    [][\A t \in DOMAIN current : node = "repair" /\ current[t] = "succeeded"
            /\ made'[t] = made[t] + 1 => cause = "verify"]_vars

=============================================================================
