------------------------------ MODULE Evidence ------------------------------
(***************************************************************************)
(* From a worker's file to a SUCCEEDED task: what an attempt leaves in the *)
(* agent's Git worktree, in the artifact store and in the integration      *)
(* branch, and the order in which verification, merge, evidence status and *)
(* board status are committed.                                             *)
(*                                                                         *)
(* Models src/app/multiagent/artifact.py (ArtifactStore),                  *)
(* src/app/multiagent/git_workspace.py (leases, commit, integrate), the    *)
(* publication loop of src/app/multiagent/executor.py, the completion half *)
(* of _run_one and _finalize_verified_run of                               *)
(* src/app/multiagent/parallel_scheduler.py and the repair node of         *)
(* src/app/runtime/root_graph/graph.py.  What the verifier and the         *)
(* run-level checks decide is module Verdict's.                            *)
(*                                                                         *)
(* A task delivers one file, the worktree's only file: two agents always   *)
(* edit the same file, the worst case for a merge.  The scheduler's own    *)
(* loop, its hooks and its claims are module Scheduler's, the dependencies *)
(* of a task module TaskBoard's, and a task is claimed and started in one  *)
(* step here.  A run without a repository, where nothing is committed or   *)
(* merged, is not modelled.                                                *)
(***************************************************************************)
EXTENDS Verdict

CONSTANTS
    Tasks,         \* task ids, those of the first plan and those of repairs
    Plan,          \* the tasks of the first plan
    Agents,        \* workers, each with a worktree of its own
    Contents,      \* what a worker may write into the file
    Base,          \* the file as the base commit has it
    NoTask, NoAgent,
    MaxArtifacts,  \* bound: artifacts published
    MaxAttempts,   \* BoardTask.max_attempts
    MaxTroubles    \* bound: failing writes and Git commands, crashes, stopped
                   \* workers, cancellations and replan requests together

ASSUME EvidenceAssumption ==
    /\ Plan \subseteq Tasks /\ Base \notin Contents
    /\ NoTask \notin Tasks /\ NoAgent \notin Agents
    /\ {MaxArtifacts, MaxAttempts, MaxTroubles} \subseteq Nat

VARIABLES
    status,        \* task -> its status on the board
    owner,         \* task -> claimed_by
    attempts,      \* task -> attempts that failed
    produced,      \* task -> produced_artifact_ids
    sources,       \* task -> metadata source_artifact_ids of a repair
    superseded,    \* tasks replaced by a repair
    conflicted,    \* tasks with merge_conflicts in their metadata
    pc,            \* task -> where its coroutine, or its worker thread, is
    worker,        \* task -> the agent its coroutine runs for
    stopped,       \* tasks whose worker was told to stop
    out,           \* task -> artifacts the attempt has published
    verdict,       \* task -> what the verifier says
    seen,          \* task -> the status the verifier's copy of the row has
    made,          \* artifacts published so far
    from,          \* artifact -> its task
    hash,          \* artifact -> the content its row has the hash of
    row,           \* artifact -> its status in the table
    mem,           \* artifact -> its status in the registry
    disk,          \* task -> the file at its path in the store
    work,          \* agent -> the file in its worktree
    head,          \* agent -> the file at the tip of its branch
    merged,        \* agent -> the file of its last commit that was merged
    lease,         \* agent -> its worktree lease
    trunk,         \* the file in the integration worktree
    landed,        \* every content the integration branch has had (history)
    ghosts,        \* worker threads that outlived their attempt
    mending,       \* the task whose repair was just created
    replanning,    \* the run's evidence is rejected, its new plan not yet made
    voided,        \* since a replan rejected it, until a new plan (history)
    cancelled,     \* the run was cancelled
    run,           \* what _finalize_verified_run returned
    won,           \* tasks that have succeeded (history)
    unearned,      \* what passed without what a pass rests on: tasks, and
                   \* NoTask for the run (history)
    torn,          \* a crash or a failed write split a commit (history)
    troubles

board == <<status, owner, attempts, produced, sources, superseded, conflicted>>
flow  == <<pc, worker, stopped, out, verdict, seen>>
store == <<made, from, hash, row, mem, disk>>
git   == <<work, head, merged, lease, trunk, landed>>
other == <<ghosts, mending, replanning, voided, cancelled, run, won, unearned, torn,
           troubles>>
vars  == <<board, flow, store, git, other>>

Artifacts == 1..MaxArtifacts
Files == Contents \cup {Base}

Status == {"absent", "pending", "running", "produced", "verifying", "repair_required",
           "replan_required", "succeeded", "failed", "cancelled"}

ArtifactStatus == {"absent", "published", "verified", "rejected", "superseded"}

\* The worker thread's places, then the coroutine's.
Places == {"idle", "assigned", "executing", "checked", "created", "returned", "errored",
           "produced", "hashing", "judging", "saving", "refused", "passed", "merged",
           "evidenced"}

TypeOK ==
    /\ status \in [Tasks -> Status] /\ owner \in [Tasks -> Agents \cup {NoAgent}]
    /\ attempts \in [Tasks -> 0..MaxAttempts]
    /\ produced \in [Tasks -> SUBSET Artifacts] /\ sources \in [Tasks -> SUBSET Artifacts]
    /\ superseded \subseteq Tasks /\ conflicted \subseteq Tasks /\ won \subseteq Tasks
    /\ unearned \subseteq Tasks \cup {NoTask}
    /\ pc \in [Tasks -> Places] /\ worker \in [Tasks -> Agents \cup {NoAgent}]
    /\ stopped \subseteq Tasks /\ out \in [Tasks -> SUBSET Artifacts]
    /\ verdict \in [Tasks -> BOOLEAN] /\ seen \in [Tasks -> Status]
    /\ made \in 0..MaxArtifacts
    /\ from \in [Artifacts -> Tasks \cup {NoTask}] /\ hash \in [Artifacts -> Files]
    /\ row \in [Artifacts -> ArtifactStatus] /\ mem \in [Artifacts -> ArtifactStatus]
    /\ \A a \in Artifacts : row[a] = "absent" <=> a > made
    /\ disk \in [Tasks -> Files] /\ work \in [Agents -> Files] /\ head \in [Agents -> Files]
    /\ merged \in [Agents -> Files] /\ lease \in [Agents -> {"none", "active", "expired"}]
    /\ trunk \in Files /\ landed \subseteq Files
    /\ ghosts \subseteq [task : Tasks, agent : Agents, art : 0..MaxArtifacts]
    /\ mending \in Tasks \cup {NoTask}
    /\ cancelled \in BOOLEAN /\ torn \in BOOLEAN
    /\ replanning \in BOOLEAN /\ voided \in BOOLEAN
    /\ run \in {"working", "completed", "failed", "waiting_human"}
    /\ troubles \in 0..MaxTroubles

-----------------------------------------------------------------------------
(* The artifact store.                                                     *)

\* insert_artifact: the new row, and its parent superseded.
Inserted(f, parent, as) ==
    [a \in Artifacts |-> IF a = made + 1 THEN as
                         ELSE IF a \in parent THEN "superseded" ELSE f[a]]

\* create(): the bytes go to disk, then the row and the parent's new status
\* in one transaction, then the registry.
Publish(t, content, parent, as) ==
    /\ made < MaxArtifacts
    /\ made' = made + 1
    /\ from' = [from EXCEPT ![made + 1] = t]
    /\ hash' = [hash EXCEPT ![made + 1] = content]
    /\ disk' = [disk EXCEPT ![t] = content]
    /\ row' = Inserted(row, parent, as) /\ mem' = Inserted(mem, parent, as)

\* The artifact a repair's new version replaces: the source with the file's
\* name, here any of them.
Parents(t) == IF sources[t] = {} THEN {{}} ELSE {{a} : a \in sources[t]}

\* mark_verified and mark_rejected: the registry, then the row.
Mark(as, s) ==
    /\ row' = [a \in Artifacts |-> IF a \in as THEN s ELSE row[a]]
    /\ mem' = [a \in Artifacts |-> IF a \in as THEN s ELSE mem[a]]
    /\ UNCHANGED <<made, from, hash, disk>>

\* verify_integrity: the bytes on disk are those the row has the hash of.
Intact(a) == mem[a] # "absent" /\ disk[from[a]] = hash[a]

\* list_by_task: every artifact of the task that the registry knows, whatever
\* attempt it is of and whatever became of it.
Listed(t) == {a \in Artifacts : mem[a] # "absent" /\ from[a] = t}

\* load_from_db: the registry of a new process.
Loaded == row

-----------------------------------------------------------------------------
(* Helpers of the coroutine.                                               *)

GoTo(t, p) == pc' = [pc EXCEPT ![t] = p]

\* The coroutine is over: the reservation is released.
Leave(t) ==
    /\ pc' = [pc EXCEPT ![t] = "idle"] /\ worker' = [worker EXCEPT ![t] = NoAgent]
    /\ stopped' = stopped \ {t} /\ out' = [out EXCEPT ![t] = {}]
    /\ verdict' = [verdict EXCEPT ![t] = FALSE] /\ seen' = [seen EXCEPT ![t] = "absent"]

SetStatus(t, s) ==
    /\ status' = [status EXCEPT ![t] = s]
    /\ UNCHANGED <<owner, attempts, produced, sources, superseded, conflicted>>

SetStatusFor(t, s, g) ==
    /\ status' = [status EXCEPT ![t] = s] /\ owner' = [owner EXCEPT ![t] = g]
    /\ UNCHANGED <<attempts, produced, sources, superseded, conflicted>>

\* From the merge to the board's final status the coroutine awaits nothing.
LoopIsFree(t) == \A s \in Tasks \ {t} : pc[s] \notin {"merged", "evidenced"}

\* board.fail: whatever the status is, as long as the task is still owned.
Fail(t) ==
    IF owner[t] # worker[t] THEN UNCHANGED board
    ELSE /\ attempts' = [attempts EXCEPT ![t] = @ + 1]
         /\ IF attempts[t] + 1 < MaxAttempts
            THEN /\ status' = [status EXCEPT ![t] = "pending"]
                 /\ owner' = [owner EXCEPT ![t] = NoAgent]
            ELSE status' = [status EXCEPT ![t] = "failed"] /\ UNCHANGED owner
         /\ UNCHANGED <<produced, sources, superseded, conflicted>>

Fails(t) == attempts[t] < MaxAttempts /\ Fail(t) /\ Leave(t)

Trouble == troubles < MaxTroubles /\ troubles' = troubles + 1

\* The root graph's own state.
graph == <<mending, replanning, voided, cancelled, run>>

Calm == UNCHANGED <<ghosts, graph, won, unearned, torn, troubles>>
TroubleOnly == Trouble /\ UNCHANGED <<ghosts, graph, won, unearned, torn>>

\* The artifacts of a stale completion that are not the evidence of a success.
Unprotected(t) == out[t] \ (IF status[t] = "succeeded" THEN produced[t] ELSE {})

\* (Mutant: a stale completion leaves its artifacts as they are.)
ConflictKeeps(t, arts) == Leave(t) /\ UNCHANGED <<board, store>> /\ Calm

\* _record_task_state_conflict: the board has moved on; the attempt's evidence
\* is rejected, each artifact for itself, and a write that fails is only logged.
Conflict(t, arts) ==
    /\ Leave(t) /\ UNCHANGED board
    /\ \/ Mark(arts, "rejected") /\ Calm
       \/ /\ arts # {} /\ UNCHANGED store /\ Trouble /\ torn' = TRUE
          /\ UNCHANGED <<ghosts, graph, won, unearned>>

-----------------------------------------------------------------------------
(* The attempt: a worktree, a worker thread, an artifact.                  *)

\* The task is claimed and started for an agent that runs nothing else.
Begin(t, g) ==
    /\ run = "working" /\ mending = NoTask /\ ~replanning /\ ~cancelled
    /\ status[t] = "pending" /\ pc[t] = "idle" /\ \A s \in Tasks : worker[s] # g
    /\ SetStatusFor(t, "running", g)
    /\ GoTo(t, "assigned") /\ worker' = [worker EXCEPT ![t] = g]
    /\ UNCHANGED <<stopped, out, verdict, seen, store, git>> /\ Calm

\* acquire: an active lease is renewed, and a worktree without a lease is new.
\* The repair's sources must have the bytes of their hashes.
Acquire(t) ==
    /\ pc[t] = "assigned" /\ lease[worker[t]] # "expired"
    /\ \A a \in sources[t] : Intact(a)
    /\ lease' = [lease EXCEPT ![worker[t]] = "active"]
    /\ GoTo(t, "executing")
    /\ UNCHANGED <<board, worker, stopped, out, verdict, seen, store>>
    /\ UNCHANGED <<work, head, merged, trunk, landed>> /\ Calm

\* The ten minutes of a lease may be over at any later acquire: only an acquire
\* renews it, and an expired one stays so, its worktree never being reused.
RanOut(g) == lease[g] # "none"

\* A lease that ran out stops the assignment, and so does a source that is
\* damaged or unknown.
AcquireRaises(t) ==
    /\ pc[t] = "assigned"
    /\ \/ RanOut(worker[t]) /\ lease' = [lease EXCEPT ![worker[t]] = "expired"]
       \/ (\E a \in sources[t] : ~Intact(a)) /\ UNCHANGED lease
    /\ UNCHANGED <<work, head, merged, trunk, landed>>
    /\ Fails(t) /\ UNCHANGED store /\ Calm

Told(t) == cancelled \/ t \in stopped

\* A file tool of the worker writes the file.
Edit(t, c) ==
    /\ pc[t] = "executing" /\ ~Told(t) /\ work[worker[t]] # c
    /\ work' = [work EXCEPT ![worker[t]] = c]
    /\ UNCHANGED <<board, flow, store, head, merged, lease, trunk, landed>> /\ Calm

\* The model has finished.  git status lists the file if it differs from the
\* branch, and the check before its publication passes; with nothing to publish
\* the attempt succeeds without artifacts.
Scan(t) ==
    /\ pc[t] = "executing" /\ ~Told(t)
    /\ GoTo(t, IF work[worker[t]] = head[worker[t]] THEN "returned" ELSE "checked")
    /\ UNCHANGED <<board, worker, stopped, out, verdict, seen, store, git>> /\ Calm

\* The thread notices the stop at one of its checks.
Halts(t) ==
    /\ pc[t] = "executing" /\ Told(t) /\ GoTo(t, "errored")
    /\ UNCHANGED <<board, worker, stopped, out, verdict, seen, store, git>> /\ Calm

Create(t) ==
    /\ pc[t] = "checked"
    /\ \E parent \in Parents(t) : Publish(t, work[worker[t]], parent, "published")
    /\ out' = [out EXCEPT ![t] = @ \cup {made + 1}]
    /\ GoTo(t, "created")
    /\ UNCHANGED <<board, worker, stopped, verdict, seen, git>> /\ Calm

\* The bytes are in place and the insert fails.
CreateRaises(t) ==
    /\ pc[t] = "checked" /\ disk' = [disk EXCEPT ![t] = work[worker[t]]]
    /\ GoTo(t, "errored")
    /\ UNCHANGED <<board, worker, stopped, out, verdict, seen>>
    /\ UNCHANGED <<made, from, hash, row, mem, git>> /\ TroubleOnly

\* The checks after the publication: a stop rejects what was published.
CheckPublished(t) ==
    /\ pc[t] = "created"
    /\ IF Told(t) THEN Mark(out[t], "rejected") /\ GoTo(t, "errored")
                  ELSE UNCHANGED store /\ GoTo(t, "returned")
    /\ UNCHANGED <<board, worker, stopped, out, verdict, seen, git>> /\ Calm

\* A further file cannot be published, or the rejection cannot be written.
PublishRaises(t) ==
    /\ pc[t] = "created" /\ GoTo(t, "errored")
    /\ UNCHANGED <<board, worker, stopped, out, verdict, seen, store, git>> /\ TroubleOnly

\* The attempt takes too long: it fails, and its thread goes on to its next
\* check.
TimesOut(t) ==
    /\ pc[t] \in {"executing", "checked", "created"}
    /\ Fails(t)
    /\ ghosts' = ghosts \cup
           {[task |-> t, agent |-> worker[t], art |-> a] :
                a \in IF pc[t] = "checked" THEN {0}
                      ELSE IF pc[t] = "created" THEN out[t] ELSE {}}
    /\ UNCHANGED <<store, git, graph, won, unearned, torn, troubles>>

\* The thread of a stopped attempt publishes behind its check and rejects the
\* artifact, which has replaced the bytes at the task's path by then.
GhostEnds(g) ==
    /\ g \in ghosts /\ ghosts' = ghosts \ {g}
    /\ IF g.art = 0
       THEN \E parent \in Parents(g.task) :
                Publish(g.task, work[g.agent], parent, "rejected")
       ELSE Mark({g.art}, "rejected")
    /\ UNCHANGED <<board, flow, git, graph, won, unearned, torn, troubles>>

-----------------------------------------------------------------------------
(* The coroutine: commit, verification, merge, success.                    *)

\* The result is there and the stop is seen first: a cancelled run cancels the
\* task, a stopped worker gives it back.
Drop(t) ==
    /\ pc[t] \in {"returned", "errored"} /\ Told(t) /\ LoopIsFree(t)
    /\ IF cancelled THEN IF status[t] \in {"succeeded", "failed", "cancelled"}
                         THEN UNCHANGED board ELSE SetStatus(t, "cancelled")
       ELSE IF owner[t] = worker[t] /\ status[t] = "running"
            THEN SetStatusFor(t, "pending", NoAgent) ELSE UNCHANGED board
    /\ Leave(t) /\ UNCHANGED <<store, git>> /\ Calm

ExecutionFails(t) ==
    /\ pc[t] = "errored" /\ ~Told(t) /\ LoopIsFree(t)
    /\ Fails(t) /\ UNCHANGED <<store, git>> /\ Calm

\* git add -A and a commit on the agent's branch, if anything changed.
CommitWork(g) ==
    /\ head' = [head EXCEPT ![g] = work[g]]
    /\ UNCHANGED <<work, merged, lease, trunk, landed>>

\* commit and bind_commit, then mark_produced.
Commit(t) ==
    /\ pc[t] = "returned" /\ ~Told(t) /\ LoopIsFree(t)
    /\ CommitWork(worker[t])
    /\ IF owner[t] = worker[t] /\ status[t] = "running"
       THEN /\ status' = [status EXCEPT ![t] = "produced"]
            /\ produced' = [produced EXCEPT ![t] = out[t]]
            /\ GoTo(t, "produced")
            /\ UNCHANGED <<owner, attempts, sources, superseded, conflicted>>
            /\ UNCHANGED <<worker, stopped, out, verdict, seen, store>> /\ Calm
       ELSE Conflict(t, Unprotected(t))

\* The commit is made and its evidence cannot be bound to it.
CommitRaises(t) ==
    /\ pc[t] = "returned" /\ ~Told(t) /\ LoopIsFree(t)
    /\ CommitWork(worker[t])
    /\ Fails(t) /\ UNCHANGED store /\ TroubleOnly

\* After the hooks: mark_verifying.
StartVerifying(t) ==
    /\ pc[t] = "produced" /\ LoopIsFree(t) /\ UNCHANGED git
    /\ IF status[t] = "produced"
       THEN /\ SetStatus(t, "verifying") /\ GoTo(t, "hashing")
            /\ UNCHANGED <<worker, stopped, out, verdict, seen, store>> /\ Calm
       ELSE Conflict(t, Unprotected(t))

\* _verify_task, in a thread: one damaged artifact of the task refuses it, and
\* so does a contract that wants an artifact of some type when there is none.
\* The contract is left open, here and in Judge.
Rehash(t) ==
    /\ pc[t] = "hashing"
    /\ IF \E a \in Listed(t) : ~Intact(a)
       THEN GoTo(t, "saving") /\ seen' = [seen EXCEPT ![t] = status[t]]
       ELSE /\ \E typed \in BOOLEAN :
                    GoTo(t, IF typed /\ Listed(t) = {} THEN "refused" ELSE "judging")
            /\ UNCHANGED seen
    /\ UNCHANGED <<board, worker, stopped, out, verdict, store, git>> /\ Calm

\* _enrich_with_artifact_store: with no artifact named, every one of the run.
Considered(t) ==
    IF Listed(t) = {} THEN {a \in Artifacts : mem[a] # "absent"} ELSE Listed(t)

\* validate(): the checks and the model have their say; a copy of the row is read.
Judge(t) ==
    /\ pc[t] = "judging"
    /\ \E j \in Judgements[Considered(t) # {}] :
        /\ verdict' = [verdict EXCEPT ![t] = j.passes]
        /\ unearned' = IF j.passes /\ ~j.earned THEN unearned \cup {t} ELSE unearned \ {t}
    /\ seen' = [seen EXCEPT ![t] = status[t]]
    /\ GoTo(t, "saving")
    /\ UNCHANGED <<board, worker, stopped, out, store, git, ghosts, graph, won, torn, troubles>>

\* The verifier raises: refused, and nothing is saved.
JudgeRaises(t) ==
    /\ pc[t] = "judging" /\ GoTo(t, "refused")
    /\ UNCHANGED <<board, worker, stopped, out, verdict, seen, store, git>> /\ TroubleOnly

\* The copy is added to the board with the verdict, and its status with it.
SaveVerdict(t) ==
    /\ pc[t] = "saving" /\ SetStatus(t, seen[t])
    /\ GoTo(t, IF verdict[t] THEN "passed" ELSE "refused")
    /\ UNCHANGED <<worker, stopped, out, verdict, seen, store, git>> /\ Calm

\* The verifier, or the completion hook, wants a repair.
Refuse(t) ==
    /\ pc[t] \in {"refused", "passed"} /\ LoopIsFree(t) /\ UNCHANGED git
    /\ IF status[t] \in {"produced", "verifying"}
       THEN SetStatus(t, "repair_required") /\ Leave(t) /\ UNCHANGED store /\ Calm
       ELSE Conflict(t, Unprotected(t))

\* The three-way merge of the agent's commit; its base is what was merged last.
MergeResult(ours, theirs, base) ==
    IF theirs \in {base, ours} THEN {ours} ELSE IF ours = base THEN {theirs} ELSE {}

\* (Mutant: a conflict counts as merged.)
IntegrateAnyway(t) ==
    /\ pc[t] = "passed" /\ LoopIsFree(t)
    /\ LET ours == trunk
           theirs == head[worker[t]]
           result == MergeResult(ours, theirs, merged[worker[t]]) \cup {ours}
       IN \E new \in result : trunk' = new /\ landed' = landed \cup {new}
    /\ merged' = [merged EXCEPT ![worker[t]] = head[worker[t]]]
    /\ GoTo(t, "merged")
    /\ UNCHANGED <<board, worker, stopped, out, verdict, seen, store>>
    /\ UNCHANGED <<work, head, lease>> /\ Calm

\* integrate: a conflict is aborted and sends the task to repair, whatever has
\* become of it; its metadata keeps the conflicts for good.  A merge that fails
\* for another reason is a conflict too, of no file.
Integrate(t) ==
    /\ pc[t] = "passed" /\ LoopIsFree(t)
    /\ LET result == MergeResult(trunk, head[worker[t]], merged[worker[t]])
       IN \/ /\ status' = [status EXCEPT ![t] = "repair_required"]
             /\ \/ result = {} /\ conflicted' = conflicted \cup {t} /\ Calm
                \/ UNCHANGED conflicted /\ TroubleOnly
             /\ UNCHANGED <<owner, attempts, produced, sources, superseded, git>>
             /\ Leave(t)
          \/ /\ \E new \in result : trunk' = new /\ landed' = landed \cup {new}
             /\ merged' = [merged EXCEPT ![worker[t]] = head[worker[t]]]
             /\ GoTo(t, "merged")
             /\ UNCHANGED <<board, worker, stopped, out, verdict, seen, work, head, lease>>
             /\ Calm
    /\ UNCHANGED store

\* A Git command fails.
IntegrateRaises(t) ==
    /\ pc[t] = "passed" /\ LoopIsFree(t) /\ Fails(t)
    /\ UNCHANGED <<store, git>> /\ TroubleOnly

\* Every artifact of the attempt is marked verified, or all are rejected again.
VerifyEvidence(t) ==
    /\ pc[t] = "merged" /\ UNCHANGED git
    /\ \/ /\ Mark(out[t], "verified") /\ GoTo(t, "evidenced") /\ Calm
          /\ UNCHANGED <<board, worker, stopped, out, verdict, seen>>
       \/ /\ out[t] # {} /\ Mark(out[t], "rejected") /\ Leave(t) /\ TroubleOnly
          /\ IF status[t] \in {"produced", "verifying"}
             THEN SetStatus(t, "repair_required") ELSE UNCHANGED board

\* mark_verified on the board is the last step, refused if the board moved on:
\* then all the attempt has is rejected, protected or not.
Succeed(t) ==
    /\ pc[t] = "evidenced" /\ UNCHANGED git
    /\ IF status[t] \in {"produced", "verifying"}
       THEN /\ SetStatus(t, "succeeded") /\ won' = won \cup {t} /\ Leave(t)
            /\ UNCHANGED <<store, ghosts, graph, unearned, torn, troubles>>
       ELSE Conflict(t, out[t])

\* The board's write fails: the attempt fails with its evidence verified.
SucceedRaises(t) ==
    /\ pc[t] = "evidenced" /\ Fails(t) /\ UNCHANGED <<store, git>> /\ Trouble /\ torn' = TRUE
    /\ UNCHANGED <<ghosts, graph, won, unearned>>

-----------------------------------------------------------------------------
(* The root graph, the control plane and the process.                      *)

Terminal == {"succeeded", "failed", "cancelled"}

Quiet == run = "working" /\ mending = NoTask /\ ~replanning /\ \A t \in Tasks : pc[t] = "idle"

Current == {t \in Tasks : status[t] # "absent" /\ t \notin superseded}

AllSucceeded == \A t \in Current : status[t] = "succeeded"

\* _repair's candidates: refused tasks, else the successful ones that contributed
\* to the result.
Candidates ==
    LET refused == {t \in Current : status[t] = "repair_required"}
    IN IF refused # {} THEN refused ELSE {t \in Current : status[t] = "succeeded"}

\* A repair task takes the place of a candidate and has its artifacts as
\* sources.
Repair(t, r) ==
    /\ Quiet /\ \A s \in Tasks : status[s] \notin {"pending", "running"}
    /\ t \in Candidates /\ status[r] = "absent" /\ r \notin Plan
    /\ status' = [status EXCEPT ![r] = "pending"]
    /\ sources' = [sources EXCEPT ![r] = produced[t]]
    /\ superseded' = superseded \cup {t}
    /\ mending' = t
    /\ UNCHANGED <<owner, attempts, produced, conflicted, flow, store, git>>
    /\ UNCHANGED <<ghosts, replanning, voided, cancelled, run, won, unearned, torn, troubles>>

\* What it replaces is no evidence of the run any more.
RejectRepaired ==
    /\ mending # NoTask /\ mending' = NoTask
    /\ Mark(produced[mending], "rejected")
    /\ UNCHANGED <<board, flow, git, ghosts, replanning, voided, cancelled, run>>
    /\ UNCHANGED <<won, unearned, torn, troubles>>

Evident == {a \in Artifacts : mem[a] \in {"published", "verified"}}

\* _replan: nothing of the old plan is evidence any more.
RejectAll ==
    /\ Quiet /\ ~cancelled /\ \A s \in Tasks : status[s] \notin {"pending", "running"}
    /\ AllSucceeded \/ \E t \in Current : status[t] = "replan_required"
    /\ Mark(Evident, "rejected")
    /\ replanning' = TRUE /\ voided' = TRUE
    /\ UNCHANGED <<board, flow, git, ghosts, mending, cancelled, run, won, unearned, torn, troubles>>

\* The revised plan has tasks of its own and supersedes all others.
Revise(r) ==
    /\ replanning /\ status[r] = "absent" /\ r \notin Plan
    /\ replanning' = FALSE /\ voided' = FALSE
    /\ status' = [status EXCEPT ![r] = "pending"]
    /\ superseded' = superseded \cup Current
    /\ UNCHANGED <<owner, attempts, produced, sources, conflicted, flow, store, git>>
    /\ UNCHANGED <<ghosts, mending, cancelled, run, won, unearned, torn, troubles>>

\* The run-level gates: a permission that is pending, a merge conflict any task
\* has ever had, then the repository's own checks.
Finalize ==
    /\ Quiet /\ AllSucceeded /\ ~cancelled
    /\ \E pending \in BOOLEAN, demand \in Demands, outcome \in Outcomes :
        /\ run' = RunResult(pending, conflicted # {}, demand, outcome)
        /\ unearned' = IF run' = "completed" /\ (demand # {"usable"} \/ outcome # "passed")
                       THEN unearned \cup {NoTask} ELSE unearned
    /\ UNCHANGED <<board, flow, store, git>>
    /\ UNCHANGED <<ghosts, mending, replanning, voided, cancelled, won, torn, troubles>>

\* The teammate is stopped while it works.
Stop(t) ==
    /\ Trouble /\ t \notin stopped
    /\ pc[t] \in {"executing", "checked", "created", "returned", "errored"}
    /\ stopped' = stopped \cup {t}
    /\ UNCHANGED <<board, pc, worker, out, verdict, seen, store, git>>
    /\ UNCHANGED <<ghosts, graph, won, unearned, torn>>

CancelRun ==
    /\ Trouble /\ run = "working" /\ ~cancelled /\ cancelled' = TRUE
    /\ UNCHANGED <<board, flow, store, git, ghosts, mending, replanning, voided, run>>
    /\ UNCHANGED <<won, unearned, torn>>

\* The board cancels what is not finished.
CancelTask(t) ==
    /\ cancelled /\ status[t] \notin Terminal \cup {"absent"} /\ LoopIsFree(t)
    /\ SetStatus(t, "cancelled")
    /\ UNCHANGED <<flow, store, git>> /\ Calm

\* A teammate asks for a new plan of the task: a fence against its success.
RequestReplan(t) ==
    /\ Trouble /\ run = "working" /\ status[t] \notin {"absent", "cancelled"}
    /\ SetStatus(t, "replan_required")
    /\ UNCHANGED <<flow, store, git>>
    /\ UNCHANGED <<ghosts, graph, won, unearned, torn>>

\* The process dies.  Of the files being published some are in place without
\* a row.  The resumed run reads the table and gives its tasks back.
Crash ==
    /\ Trouble /\ run = "working" /\ ~cancelled
    /\ torn' = (torn \/ mending # NoTask \/ \E t \in Tasks : pc[t] = "evidenced")
    /\ \E placed \in SUBSET {t \in Tasks : pc[t] = "checked"} :
           disk' = [t \in Tasks |-> IF t \in placed THEN work[worker[t]] ELSE disk[t]]
    /\ mem' = Loaded
    /\ LET dead == {t \in Tasks : status[t] \in {"running", "produced", "verifying"}}
       IN /\ status' = [t \in Tasks |-> IF t \in dead THEN "pending" ELSE status[t]]
          /\ owner' = [t \in Tasks |-> IF t \in dead THEN NoAgent ELSE owner[t]]
    /\ pc' = [t \in Tasks |-> "idle"] /\ worker' = [t \in Tasks |-> NoAgent]
    /\ stopped' = {} /\ out' = [t \in Tasks |-> {}] /\ ghosts' = {}
    /\ mending' = NoTask /\ replanning' = FALSE
    /\ verdict' = [t \in Tasks |-> FALSE] /\ seen' = [t \in Tasks |-> "absent"]
    /\ UNCHANGED <<attempts, produced, sources, superseded, conflicted>>
    /\ UNCHANGED <<made, from, hash, row, git, voided, cancelled, run, won, unearned>>

-----------------------------------------------------------------------------
Init ==
    /\ status = [t \in Tasks |-> IF t \in Plan THEN "pending" ELSE "absent"]
    /\ owner = [t \in Tasks |-> NoAgent] /\ attempts = [t \in Tasks |-> 0]
    /\ produced = [t \in Tasks |-> {}] /\ sources = [t \in Tasks |-> {}]
    /\ superseded = {} /\ conflicted = {}
    /\ pc = [t \in Tasks |-> "idle"] /\ worker = [t \in Tasks |-> NoAgent]
    /\ stopped = {} /\ out = [t \in Tasks |-> {}]
    /\ verdict = [t \in Tasks |-> FALSE] /\ seen = [t \in Tasks |-> "absent"]
    /\ made = 0 /\ from = [a \in Artifacts |-> NoTask] /\ hash = [a \in Artifacts |-> Base]
    /\ row = [a \in Artifacts |-> "absent"] /\ mem = [a \in Artifacts |-> "absent"]
    /\ disk = [t \in Tasks |-> Base]
    /\ work = [g \in Agents |-> Base] /\ head = [g \in Agents |-> Base]
    /\ merged = [g \in Agents |-> Base] /\ lease = [g \in Agents |-> "none"]
    /\ trunk = Base /\ landed = {Base}
    /\ ghosts = {} /\ mending = NoTask /\ replanning = FALSE /\ voided = FALSE
    /\ cancelled = FALSE /\ run = "working"
    /\ won = {} /\ unearned = {} /\ torn = FALSE /\ troubles = 0

Worker(t) ==
    \/ \E c \in Contents : Edit(t, c)
    \/ Scan(t) \/ Halts(t) \/ Create(t) \/ CreateRaises(t) \/ CheckPublished(t)
    \/ PublishRaises(t)

Coroutine(t) ==
    \/ \E g \in Agents : Begin(t, g)
    \/ Acquire(t) \/ AcquireRaises(t) \/ TimesOut(t) \/ Drop(t) \/ ExecutionFails(t)
    \/ Commit(t) \/ CommitRaises(t) \/ StartVerifying(t)
    \/ Rehash(t) \/ Judge(t) \/ JudgeRaises(t) \/ SaveVerdict(t) \/ Refuse(t)
    \/ Integrate(t) \/ IntegrateRaises(t) \/ VerifyEvidence(t) \/ Succeed(t) \/ SucceedRaises(t)

Around ==
    \/ \E g \in ghosts : GhostEnds(g)
    \/ \E t, r \in Tasks : Repair(t, r)
    \/ \E r \in Tasks : Revise(r)
    \/ RejectRepaired \/ RejectAll \/ Finalize \/ CancelRun \/ Crash
    \/ \E t \in Tasks : Stop(t) \/ CancelTask(t) \/ RequestReplan(t)

Next == (\E t \in Tasks : Worker(t) \/ Coroutine(t)) \/ Around

Spec == Init /\ [][Next]_vars

-----------------------------------------------------------------------------
(* A task that counts as done has its evidence where the rest of the run   *)
(* looks for it: every artifact it names is verified, in the table and in  *)
(* the registry, and what the artifact says was merged into the            *)
(* integration branch - through crashes between the commits, failing       *)
(* writes, lost races with a cancellation or a replan request, and merges  *)
(* of two agents' work.  The completion half of _run_one commits in the    *)
(* order merge, evidence, board for this.  Only a replan takes the evidence *)
(* of its whole run away, and then the tasks with it.                      *)
SucceededIsBacked ==
    ~voided => \A t \in Current : status[t] = "succeeded" =>
        \A a \in produced[t] : /\ row[a] = "verified" /\ mem[a] = "verified"
                               /\ hash[a] \in landed

(* No evidence is verified without its task's success: what a stale,       *)
(* cancelled or fenced-off completion had verified is rejected again, and  *)
(* what a repair replaces too.  Only a crash or a failing write in between *)
(* can leave it behind.  The conflict paths of _run_one and _repair are    *)
(* for this.                                                               *)
VerifiedHasItsTask ==
    \A a \in Artifacts : row[a] = "verified" =>
        LET t == from[a]
        IN \/ t \in won /\ a \in produced[t] /\ (t \in superseded => mending = t)
           \/ pc[t] = "evidenced" /\ a \in out[t]
           \/ torn

(* Nothing verified is out of place (artifact.py, _run_one, _repair).      *)
Safety == TypeOK /\ VerifiedHasItsTask

(* No verdict of the model and no hallucinated criterion gets a task past  *)
(* a check that failed, nobody's judgement stands in for one that was due, *)
(* and a run completes only after a check of the integrated repository:    *)
(* what passed was judged on evidence, every check of its contract passed, *)
(* and the model consented to it or a command ran where nothing was left   *)
(* to review (validate and _finalize_verified_run) - whatever became of    *)
(* the row between the judgement and the success.                          *)
SuccessIsEarned == won \cap unearned = {} /\ NoTask \notin unearned

(* "Durable evidence is a completion invariant, not a rubric.  A model     *)
(* verdict or a passing command can never promote an evidence-free task"   *)
(* (verifier.py): a task that succeeded names an artifact.                 *)
SuccessNeedsEvidence == \A t \in Tasks : status[t] = "succeeded" => produced[t] # {}
=============================================================================
