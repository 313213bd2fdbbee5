------------------------------ MODULE TaskBoard ------------------------------
(***************************************************************************)
(* The shared task board (src/app/multiagent/task_board.py): an in-process *)
(* cache of BoardTask records under one lock, and one SQLite row per task. *)
(* Every method is one action, because each holds the board's lock from    *)
(* its first read to its last write.  A method changes the cached record   *)
(* first and upserts the row after; the upsert may raise, and then cache   *)
(* and row disagree.  claim() is the exception: it decides on the row, in  *)
(* a BEGIN IMMEDIATE transaction, and copies the row into the cache.       *)
(*                                                                         *)
(* Any agent calls any method at any time.  A caller may also get a copy   *)
(* of a record, change it as the callers in the code do, and add it back   *)
(* whenever it likes: add() replaces cache and row without looking.        *)
(***************************************************************************)
EXTENDS Integers, FiniteSets

CONSTANTS
    Tasks,          \* the task ids of one run
    Agents,         \* the agent ids that may claim
    NoAgent,        \* claimed_by = None
    Deps,           \* BoardTask.dependencies
    MaxAttempts,    \* BoardTask.max_attempts at creation
    RateLimitGrace, \* _RATE_LIMIT_GRACE
    AttemptCap,     \* bound: no report is made above it, in attempts or overdraft
    LostWriteCap,   \* bound: how many upserts may raise
    CopyCap         \* bound: how many copies callers hold at a time

ASSUME BoardAssumption ==
    /\ NoAgent \notin Agents
    /\ Deps \in [Tasks -> SUBSET Tasks]
    /\ MaxAttempts \in Nat \ {0}
    /\ RateLimitGrace \in Nat
    /\ AttemptCap \in Nat
    /\ LostWriteCap \in Nat
    /\ CopyCap \in Nat

VARIABLES
    mem,        \* TaskBoard._tasks: the cached record of each task
    cached,     \* the tasks that have a cached record
    row,        \* task_board_tasks: the durable record of each task
    stored,     \* the tasks that have a row
    copies,     \* the copies of records that callers hold, to be added back
    overdraft,  \* history: attempts charged without asking the retry budget
    lost,       \* history: upserts that raised
    revived     \* history: tasks an outdated copy gave back to a former worker

vars == <<mem, cached, row, stored, copies, overdraft, lost, revived>>

InFlight == {"claimed", "running", "produced", "verifying"}

Status == InFlight \cup
    {"pending", "succeeded", "repair_required", "replan_required",
     "failed", "blocked", "cancelled"}

BoardTask ==
    [status   : Status,
     owner    : Agents \cup {NoAgent},   \* claimed_by
     attempts : Nat,
     limit    : Nat,                     \* max_attempts
     grace    : Nat]                     \* metadata.rate_limit_grace_used

NewTask ==
    [status |-> "pending", owner |-> NoAgent, attempts |-> 0,
     limit |-> MaxAttempts, grace |-> 0]

TypeOK ==
    /\ mem \in [Tasks -> BoardTask]
    /\ row \in [Tasks -> BoardTask]
    /\ cached \subseteq Tasks
    /\ stored \subseteq Tasks
    /\ copies \subseteq [task : Tasks, record : BoardTask]
    /\ revived \subseteq Tasks
    /\ overdraft \in [Tasks -> Nat]
    /\ lost \in 0..LostWriteCap

-----------------------------------------------------------------------------
\* _persist: the row follows the cache, unless the upsert raises.
Persist(t, task) ==
    \/ /\ row' = [row EXCEPT ![t] = task]
       /\ stored' = stored \cup {t}
       /\ UNCHANGED lost
    \/ /\ lost < LostWriteCap
       /\ lost' = lost + 1
       /\ UNCHANGED <<row, stored>>

\* A mutating method: the cached record becomes task, then it is persisted.
Save(t, task) ==
    /\ mem' = [mem EXCEPT ![t] = task]
    /\ Persist(t, task)
    /\ UNCHANGED <<cached, copies, revived>>

\* Mutant: the status is changed and _persist forgotten.
MoveInCacheOnly(t, status) ==
    /\ mem' = [mem EXCEPT ![t].status = status]
    /\ UNCHANGED <<row, stored, cached, copies, lost, revived>>

Move(t, status) == Save(t, [mem[t] EXCEPT !.status = status])

\* Mutant: claimed_by survives the requeue.
RequeuedToOwner(task) == [task EXCEPT !.status = "pending"]

\* The task is back in the queue and nobody's.
Requeued(task) == [task EXCEPT !.status = "pending", !.owner = NoAgent]

\* The guard of the worker-owned methods: claimed_by must be the caller.
Owns(a, t) == t \in cached /\ mem[t].owner = a

-----------------------------------------------------------------------------
\* create_task, or add of a new record: over an old one, it replaces that.
CreateTask(t) ==
    /\ mem' = [mem EXCEPT ![t] = NewTask]
    /\ cached' = cached \cup {t}
    /\ Persist(t, NewTask)
    /\ UNCHANGED <<copies, overdraft, revived>>

DependenciesSucceeded(t) ==
    \A d \in Deps[t] : d \in stored /\ row[d].status = "succeeded"

\* Mutant: claim decides on the cached record, which a lost upsert made stale,
\* and overwrites the row.
ClaimOnCache(t, a) ==
    /\ t \in cached /\ t \in stored
    /\ mem[t].status = "pending"
    /\ DependenciesSucceeded(t)
    /\ LET task == [mem[t] EXCEPT !.status = "claimed", !.owner = a]
       IN  /\ row' = [row EXCEPT ![t] = task]
           /\ mem' = [mem EXCEPT ![t] = task]
    /\ UNCHANGED <<cached, stored, copies, overdraft, lost, revived>>

\* Mutant: claim is an upsert like the others, outside the transaction.
ClaimUnconfirmed(t, a) ==
    /\ t \in cached /\ t \in stored
    /\ row[t].status = "pending"
    /\ DependenciesSucceeded(t)
    /\ Save(t, [mem[t] EXCEPT !.status = "claimed", !.owner = a])
    /\ UNCHANGED overdraft

\* claim: row and cache are written together; a failed claim writes neither.
Claim(t, a) ==
    /\ t \in cached /\ t \in stored
    /\ row[t].status = "pending"
    /\ DependenciesSucceeded(t)
    /\ LET task == [row[t] EXCEPT !.status = "claimed", !.owner = a]
       IN  /\ row' = [row EXCEPT ![t] = task]
           /\ mem' = [mem EXCEPT ![t] = task]
    /\ UNCHANGED <<cached, stored, copies, overdraft, lost, revived>>

Start(t, a) ==
    /\ Owns(a, t) /\ mem[t].status = "claimed"
    /\ Move(t, "running")
    /\ UNCHANGED overdraft

\* release charges an attempt and never compares it with max_attempts.
Release(t, a) ==
    /\ Owns(a, t) /\ mem[t].status \in {"claimed", "running", "blocked"}
    /\ mem[t].attempts < AttemptCap /\ overdraft[t] < AttemptCap
    /\ Save(t, [Requeued(mem[t]) EXCEPT !.attempts = @ + 1])
    /\ overdraft' = [overdraft EXCEPT ![t] = @ + 1]

MarkProduced(t, a) ==
    /\ Owns(a, t) /\ mem[t].status = "running"
    /\ Move(t, "produced")
    /\ UNCHANGED overdraft

\* complete looks at the claimant and at no status.
Complete(t, a) ==
    /\ Owns(a, t)
    /\ Move(t, "succeeded")
    /\ UNCHANGED overdraft

MarkBlocked(t, a) ==
    /\ Owns(a, t) /\ mem[t].status = "running"
    /\ Move(t, "blocked")
    /\ UNCHANGED overdraft

MarkVerifying(t) ==
    /\ t \in cached /\ mem[t].status = "produced"
    /\ Move(t, "verifying")
    /\ UNCHANGED overdraft

MarkVerified(t) ==
    /\ t \in cached /\ mem[t].status \in {"produced", "verifying"}
    /\ Move(t, "succeeded")
    /\ UNCHANGED overdraft

MarkRepairRequired(t) ==
    /\ t \in cached /\ mem[t].status \in {"produced", "verifying"}
    /\ Move(t, "repair_required")
    /\ UNCHANGED overdraft

\* Only the metadata changes; the record is upserted again.
SupersedeWithRepair(t) ==
    /\ t \in cached /\ mem[t].status = "repair_required"
    /\ Save(t, mem[t])
    /\ UNCHANGED overdraft

\* The attempts a record may have been charged: its limit, the rate-limit
\* grace it was given, and what was charged without asking for either.
Budget(t, task) == task.limit + task.grace + overdraft[t]

\* Mutant: the attempt being charged is not counted against the limit.
FailedOffByOne(task, retryable, rateLimited) ==
    LET again == retryable /\ task.attempts < task.limit
    IN  [task EXCEPT
            !.attempts = @ + 1,
            !.status   = IF again THEN "pending" ELSE "failed",
            !.owner    = IF again THEN NoAgent ELSE @]

\* What fail() makes of the record: requeue within the budget, requeue on the
\* rate-limit grace, or fail for good.  The status it finds is not looked at.
FailedRecord(task, retryable, rateLimited) ==
    LET budgeted == retryable /\ task.attempts + 1 < task.limit
        graced   == ~budgeted /\ rateLimited /\ task.grace < RateLimitGrace
        again    == budgeted \/ graced
    IN  [task EXCEPT
            !.attempts = @ + 1,
            !.status   = IF again THEN "pending" ELSE "failed",
            !.owner    = IF again THEN NoAgent ELSE @,
            !.grace    = IF graced THEN @ + 1 ELSE @]

Fail(t, a, retryable, rateLimited) ==
    /\ Owns(a, t)
    /\ mem[t].attempts < AttemptCap /\ overdraft[t] < AttemptCap
    /\ Save(t, FailedRecord(mem[t], retryable, rateLimited))
    /\ overdraft' = IF mem[t].attempts < Budget(t, mem[t])
                    THEN overdraft ELSE [overdraft EXCEPT ![t] = @ + 1]

\* Mutant: the renewed limit is one below the attempts instead of one above.
RetriedBelow(task, reset) ==
    [Requeued(task) EXCEPT
        !.attempts = IF reset THEN 0 ELSE @,
        !.limit = IF ~reset THEN task.attempts - 1 ELSE @]

\* retry: an operator requeues a stopped task and renews its budget.
RetriedRecord(task, reset) ==
    [Requeued(task) EXCEPT
        !.attempts = IF reset THEN 0 ELSE @,
        !.limit = IF ~reset /\ task.attempts >= @ THEN task.attempts + 1 ELSE @]

Retry(t, reset) ==
    /\ t \in cached
    /\ mem[t].status \in {"failed", "repair_required", "replan_required", "blocked"}
    /\ Save(t, RetriedRecord(mem[t], reset))
    /\ UNCHANGED overdraft

\* cancel: claimed_by is left on the record.
Cancel(t) ==
    /\ t \in cached
    /\ mem[t].status \notin {"succeeded", "failed", "cancelled"}
    /\ Move(t, "cancelled")
    /\ UNCHANGED overdraft

\* request_replan fences any task but a cancelled one, also a succeeded one.
RequestReplan(t) ==
    /\ t \in cached /\ mem[t].status # "cancelled"
    /\ Move(t, "replan_required")
    /\ UNCHANGED overdraft

-----------------------------------------------------------------------------
\* prepare_for_resume requeues every in-flight task, one upsert each.  When the
\* upsert of one of them raises, the loop stops there: the tasks in done are
\* requeued in cache and row, the failing one in the cache only.
PrepareForResume ==
    LET left == {t \in cached : mem[t].status \in InFlight}
    IN  /\ left # {}
        /\ \E done \in SUBSET left :
             /\ row' = [t \in Tasks |-> IF t \in done THEN Requeued(mem[t]) ELSE row[t]]
             /\ stored' = stored \cup done
             /\ \/ /\ done = left
                   /\ mem' = [t \in Tasks |-> IF t \in left THEN Requeued(mem[t]) ELSE mem[t]]
                   /\ UNCHANGED lost
                \/ /\ lost < LostWriteCap
                   /\ lost' = lost + 1
                   /\ \E failing \in left \ done :
                        mem' = [t \in Tasks |-> IF t \in done \cup {failing}
                                                THEN Requeued(mem[t]) ELSE mem[t]]
    /\ UNCHANGED <<cached, copies, overdraft, revived>>

\* restore_run adds the rows the cache does not have; it replaces none.
RestoreRun ==
    /\ stored \ cached # {}
    /\ mem' = [t \in Tasks |-> IF t \in stored \ cached THEN row[t] ELSE mem[t]]
    /\ cached' = cached \cup stored
    /\ UNCHANGED <<row, stored, copies, overdraft, lost, revived>>

\* purge_run, and equally a crash of the process: the cache is gone, the rows stay.
PurgeRun ==
    /\ cached # {}
    /\ mem' = [t \in Tasks |-> NewTask]
    /\ cached' = {}
    /\ UNCHANGED <<row, stored, copies, overdraft, lost, revived>>

-----------------------------------------------------------------------------
\* get and list_by_run return copies.  The scheduler also keeps the record that
\* claim() returned, which is a copy from the moment another add replaces it.
Get(t) ==
    /\ t \in cached
    /\ Cardinality(copies) < CopyCap
    /\ copies' = copies \cup {[task |-> t, record |-> mem[t]]}
    /\ UNCHANGED <<mem, cached, row, stored, overdraft, lost, revived>>

\* What callers make of a copy before they add it.  Most change metadata or
\* dependencies; a merge conflict asks for repair; a resume requeues what was
\* blocked for an approval; and the coroutine that waits for one blocks the
\* claim it was given, which nobody has charged since.
Edited(t, task) ==
    {task, [task EXCEPT !.status = "repair_required"]}
    \cup {Requeued(r) : r \in {r \in {task} : r.status = "blocked"}}
    \cup {[r EXCEPT !.status = "blocked"] :
              r \in {r \in {task} : r.attempts < Budget(t, r)}}

\* The record names a worker that the row does not name.
Revives(t, task) ==
    task.owner # NoAgent /\ ~(t \in stored /\ row[t].owner = task.owner)

\* add of a copy: it replaces the record, whatever became of it meanwhile.
Add(c) ==
    /\ c \in copies
    /\ \E task \in Edited(c.task, c.record) :
         /\ mem' = [mem EXCEPT ![c.task] = task]
         /\ Persist(c.task, task)
         /\ revived' = IF Revives(c.task, task) THEN revived \cup {c.task} ELSE revived
    /\ cached' = cached \cup {c.task}
    /\ copies' = copies \ {c}
    /\ UNCHANGED overdraft

-----------------------------------------------------------------------------
Init ==
    /\ mem = [t \in Tasks |-> NewTask]
    /\ row = [t \in Tasks |-> NewTask]
    /\ cached = {}
    /\ stored = {}
    /\ copies = {}
    /\ revived = {}
    /\ overdraft = [t \in Tasks |-> 0]
    /\ lost = 0

WorkerCall(t, a) ==
    \/ Claim(t, a)
    \/ Start(t, a)
    \/ Release(t, a)
    \/ MarkProduced(t, a)
    \/ Complete(t, a)
    \/ MarkBlocked(t, a)
    \/ \E retryable, rateLimited \in BOOLEAN : Fail(t, a, retryable, rateLimited)

ControlCall(t) ==
    \/ CreateTask(t)
    \/ MarkVerifying(t)
    \/ MarkVerified(t)
    \/ MarkRepairRequired(t)
    \/ SupersedeWithRepair(t)
    \/ \E reset \in BOOLEAN : Retry(t, reset)
    \/ Cancel(t)
    \/ RequestReplan(t)
    \/ Get(t)

Next ==
    \/ \E t \in Tasks, a \in Agents : WorkerCall(t, a)
    \/ \E t \in Tasks : ControlCall(t)
    \/ \E c \in copies : Add(c)
    \/ PrepareForResume
    \/ RestoreRun
    \/ PurgeRun

Spec == Init /\ [][Next]_vars

-----------------------------------------------------------------------------
\* A record names its worker exactly while somebody is answerable for it: a
\* queued task has no claimed_by, and a task that is in flight, failed or
\* succeeded has one.  Every guard of the worker-owned methods relies on it
\* (task_board.py:245, 258, 281, 300, 354, 389).
Attributed(task) ==
    /\ task.status = "pending" => task.owner = NoAgent
    /\ task.status \in InFlight \cup {"succeeded", "failed"} => task.owner # NoAgent

OwnerDiscipline ==
    /\ \A t \in Tasks : Attributed(mem[t]) /\ Attributed(row[t])
    /\ \A c \in copies : Attributed(c.record)

\* Cache and row never name different workers, although an upsert may have
\* been lost: whoever the cache holds answerable, the row names too.  This is
\* what makes claim()'s decision on the row safe for the worker in the cache.
\* It ends for a task with an add() that gives it back to a former worker
\* (task_board.py:109): add() compares the copy with nothing.
OwnersAgree ==
    \A t \in cached \ revived : mem[t].owner # NoAgent =>
        t \in stored /\ row[t].owner = mem[t].owner

\* Types, and the agreement of cache and row on the owner of a task.
Safety == TypeOK /\ OwnersAgree

\* The retry budget: a task is queued, worked on or blocked only with an attempt
\* left of its limit, of the rate-limit grace it used, or of the overdraft that
\* release() and failures reported after the budget was spent have run up.
WithinBudget(t, task) ==
    task.status \in InFlight \cup {"pending", "blocked"} => task.attempts < Budget(t, task)

RetryBudget ==
    \A t \in Tasks :
        /\ WithinBudget(t, mem[t]) /\ WithinBudget(t, row[t])
        /\ mem[t].grace <= RateLimitGrace /\ row[t].grace <= RateLimitGrace

\* A worker is never replaced under its feet: claimed_by goes from one agent to
\* another only through a state in which the task is nobody's, whatever is lost,
\* restarted, or got, changed and added.  Only an add() that gives the task back
\* to a former worker breaks this (ClaimsAreExclusive below).
NoStolenClaim ==
    [][\A t \in (cached \cap cached') \ revived' :
          mem[t].owner # NoAgent => mem'[t].owner \in {mem[t].owner, NoAgent}]_vars

\* While no upsert has been lost, a restart loses nothing: every cached record
\* equals its row.
CacheIsDurable ==
    lost = 0 => \A t \in cached : t \in stored /\ mem[t] = row[t]

\* What task_board.py:6 promises of claim(), and the comment of get() at line 640
\* of add(): nobody's claim is taken away by another's.  The code does not keep
\* it: a copy from before the claim puts its former worker back over the new one.
ClaimsAreExclusive ==
    [][\A t \in cached \cap cached' :
          mem[t].owner # NoAgent => mem'[t].owner \in {mem[t].owner, NoAgent}]_vars

-----------------------------------------------------------------------------
\* The durable rows implement the abstract ledger.
RowPhase(t) ==
    IF t \notin stored THEN "none"
    ELSE IF row[t].status = "pending" THEN "open"
    ELSE IF row[t].status \in InFlight \cup {"blocked"} /\ row[t].owner # NoAgent THEN "held"
    ELSE "settled"

Ledger == INSTANCE TaskLedger WITH
    phase <- [t \in Tasks |-> RowPhase(t)],
    holder <- [t \in Tasks |-> row[t].owner]

\* Every change of a row is one the ledger allows: taken only when open and
\* nobody's, otherwise kept by its holder, handed back, or given back to a former
\* holder by an outdated copy, after which nothing is promised of the task.
ImplementsLedger == Ledger!LedgerSpec
=============================================================================
