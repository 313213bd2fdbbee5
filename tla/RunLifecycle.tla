---------------------------- MODULE RunLifecycle ----------------------------
(***************************************************************************)
(* The life of one run above its graph: TeamRuntimeFacade                  *)
(* (app/multiagent/team_runtime.py), the use cases of the run API          *)
(* (app/application/runs/service.py), and the row of the run with the      *)
(* execution lease (app/infrastructure/database/run_store.py).             *)
(*                                                                         *)
(* Several API workers share the database.  A worker is an event loop and  *)
(* the threads it starts: coroutines of the loop interleave only where     *)
(* they await, so a worker in the middle of a synchronous stretch is busy  *)
(* (LoopFree is FALSE) and no other coroutine of it moves; the graph       *)
(* threads, the other workers and the clock do.  An execution is one       *)
(* coroutine of start_run or resume_run and the graph it drives, which is  *)
(* seen through its result only; module RootGraph has it in detail.        *)
(***************************************************************************)
EXTENDS Naturals, FiniteSets

CONSTANTS
    Workers,        \* processes that serve the API
    Executions,     \* coroutines of start_run and resume_run; a resume is reused
    Starts,         \* those of start_run; the others are of resume_run
    Host,           \* Host[e]: the worker the execution runs on
    Nobody,         \* no lease_id in the run's metadata
    Departed,       \* the lease_id of an execution that a crash has ended
    MaxRequests,    \* bound: operator requests admitted
    MaxCrashes,     \* bound: crashes of workers
    MaxStalls       \* bound: leases that expire, or heartbeats that raise,
                    \* while the execution lives

ASSUME RunLifecycleAssumption ==
    /\ Nobody \notin Executions /\ Departed \notin Executions
    /\ Nobody # Departed
    /\ Starts \subseteq Executions
    /\ Host \in [Executions -> Workers]
    /\ MaxRequests \in Nat /\ MaxCrashes \in Nat /\ MaxStalls \in Nat

VARIABLES
    status,     \* team_runs.status; "none": the run has not been created
    lease,      \* metadata["execution_lease"]: its holder, and not yet expired
    up,         \* the worker process runs
    entry,      \* _active_runs[run_id] of each worker: status and cancel_event
    pending,    \* a request its worker has admitted and not yet carried out
    phase,      \* where each execution stands
    event,      \* the cancel_event a graph was given: that of the worker's
                \* entry ("shared"), or of an entry purged since
    result,     \* what the graph returned
    beating,    \* maintain_execution_lease has not returned
    lapsed,     \* its lease has expired since the last heartbeat (history)
    refused,    \* the last attempt to recover the run met a lease (history)
    requests, crashes, stalls

execution == <<phase, event, result, beating, lapsed>>
bounds == <<requests, crashes, stalls>>
vars == <<status, lease, up, entry, pending, execution, refused, bounds>>

-----------------------------------------------------------------------------
(* Types *)

RowStatus == {"created", "running", "paused", "waiting_human", "completed",
              "failed", "cancelled"}

\* ("leased" is a synchronous stretch, the others are awaits.)
Phase == {"none", "creating", "spawned", "starting", "leased", "queued",
          "dispatch", "verify", "ended", "hooking", "closing"}

Result == {"completed", "failed", "paused", "human"}

\* _active_runs of a worker: the status it keeps and its cancel_event.
Entry == [status : RowStatus \cup {"none"}, cancel : BOOLEAN]

Absent == [status |-> "none", cancel |-> FALSE]

Lease == [holder : Executions \cup {Nobody, Departed}, fresh : BOOLEAN]

TypeOK ==
    /\ status \in RowStatus \cup {"none"}
    /\ lease \in Lease
    /\ up \in [Workers -> BOOLEAN]
    /\ entry \in [Workers -> Entry]
    /\ pending \in [Workers -> {"none", "pause", "cancel", "retry"}]
    /\ phase \in [Executions -> Phase]
    /\ event \in [Executions -> {"none", "shared", "set", "unset"}]
    /\ result \in [Executions -> Result \cup {"none"}]
    /\ beating \in [Executions -> BOOLEAN]
    /\ lapsed \in [Executions -> BOOLEAN]
    /\ refused \in BOOLEAN
    /\ {requests, crashes, stalls} \subseteq Nat

-----------------------------------------------------------------------------
(* Executions and the event loop *)

Live(e) == phase[e] # "none"

\* A resume_run between the acquisition and the release of the lease.
Leased(e) ==
    /\ e \notin Starts
    /\ phase[e] \in {"leased", "queued", "dispatch", "verify", "ended", "hooking",
                     "closing"}

LoopFree(w) ==
    /\ up[w]
    /\ pending[w] = "none"
    /\ \A e \in Executions : Host[e] = w => phase[e] # "leased"

Goto(e, from, to) ==
    /\ phase[e] = from
    /\ phase' = [phase EXCEPT ![e] = to]

\* The execution stands at an await that returns.
Resumes(e, from, to) == Goto(e, from, to) /\ LoopFree(Host[e])

\* _spawn of resume_run, whose lease_id is new.
Spawn(e) == e \notin Starts /\ Goto(e, "none", "spawned")

Cancelled(e) ==
    \/ event[e] = "set"
    \/ event[e] = "shared" /\ entry[Host[e]].cancel

\* _purge_run_state: graphs that run keep the cancel_event they were given.
Detached(w) ==
    [e \in Executions |->
        IF event[e] = "shared" /\ Host[e] = w
        THEN (IF entry[w].cancel THEN "set" ELSE "unset")
        ELSE event[e]]

Purge(w) ==
    /\ entry' = [entry EXCEPT ![w] = Absent]
    /\ event' = Detached(w)

\* _activate_restored_run when the worker has no entry, then the status.
Activate(w, s) ==
    entry' = [entry EXCEPT ![w] = [status |-> s, cancel |-> @.cancel]]

\* The status of the entry, where there may be none.
Mark(w, s) == IF entry[w] = Absent THEN UNCHANGED entry ELSE Activate(w, s)

\* Mutant: an exception only ends the coroutine.
RaiseUnstored(e) ==
    /\ UNCHANGED status
    /\ IF e \in Starts
       THEN /\ phase' = [phase EXCEPT ![e] = "none"]
            /\ UNCHANGED <<entry, beating>>
       ELSE /\ phase' = [phase EXCEPT ![e] = "closing"]
            /\ Mark(Host[e], "failed")
            /\ beating' = [beating EXCEPT ![e] = FALSE]

\* An exception leaves the coroutine: guarded() of _spawn, or the except
\* clause of resume_run (_persist_recovery_failure) and its finally.
Raise(e) ==
    /\ status' = "failed"
    /\ IF e \in Starts
       THEN /\ phase' = [phase EXCEPT ![e] = "none"]
            /\ UNCHANGED <<entry, beating>>
       ELSE /\ phase' = [phase EXCEPT ![e] = "closing"]
            /\ Mark(Host[e], "failed")
            /\ beating' = [beating EXCEPT ![e] = FALSE]

-----------------------------------------------------------------------------
(* create_run and start_run *)

Create(e) ==
    /\ e \in Starts /\ status = "none"
    /\ Resumes(e, "none", "creating")
    /\ status' = "created"
    /\ Activate(Host[e], "created")
    /\ UNCHANGED <<lease, up, pending, event, result, beating, lapsed, refused,
                   bounds>>

\* The RUN_CREATED hook lets the run pass; the service spawns start_run.
CreateAllowed(e) ==
    /\ Resumes(e, "creating", "spawned")
    /\ UNCHANGED <<status, lease, up, entry, pending, event, result,
                   beating, lapsed, refused, bounds>>

\* The RUN_CREATED hook or the RUN_STARTED hook blocks it.  The entry stays;
\* start_run looks it up first and raises when it is gone, with the same row.
HookBlocks(e) ==
    /\ phase[e] \in {"creating", "starting"}
    /\ Resumes(e, phase[e], "none")
    /\ status' = "failed"
    /\ Mark(Host[e], "failed")
    /\ UNCHANGED <<lease, up, pending, event, result, beating, lapsed,
                   refused, bounds>>

Start(e) ==
    /\ e \in Starts
    /\ Resumes(e, "spawned", "starting")
    /\ status' = "running"
    /\ Activate(Host[e], "running")
    /\ UNCHANGED <<lease, up, pending, event, result, beating, lapsed,
                   refused, bounds>>

StartAllowed(e) ==
    /\ Resumes(e, "starting", "queued")
    /\ UNCHANGED <<status, lease, up, entry, pending, event, result,
                   beating, lapsed, refused, bounds>>

-----------------------------------------------------------------------------
(* resume_run *)

AllowedStatuses == {"created", "running", "paused", "waiting_human",
                    "interrupted", "failed"}

Held(e) == lease.holder \notin {Nobody, e} /\ lease.fresh

\* Mutant: the lease of another is taken over while it is fresh.
AcquiresAlways(e) == status \in AllowedStatuses

Acquires(e) == status \in AllowedStatuses /\ ~Held(e)

\* acquire_team_run_execution_lease
Acquire(e) ==
    /\ e \notin Starts
    /\ Resumes(e, "spawned", IF Acquires(e) THEN "leased" ELSE "none")
    /\ IF Acquires(e)
       THEN /\ lease' = [holder |-> e, fresh |-> TRUE]
            /\ beating' = [beating EXCEPT ![e] = TRUE]
            /\ refused' = FALSE
       ELSE /\ refused' = (refused \/ status \in AllowedStatuses)
            /\ UNCHANGED <<lease, beating>>
    /\ UNCHANGED <<status, up, entry, pending, event, result, lapsed,
                   bounds>>

\* From the acquisition to the semaphore the coroutine does not await.
Restore(e) ==
    /\ Goto(e, "leased", "queued")
    /\ status' = "running"
    /\ Activate(Host[e], "running")
    /\ UNCHANGED <<lease, up, pending, event, result, beating, lapsed,
                   refused, bounds>>

\* The resume coordinator or the board raises, before or after the activation.
RestoreFails(e) ==
    /\ phase[e] = "leased"
    /\ \/ Raise(e)
       \/ /\ status' = "failed"
          /\ Activate(Host[e], "failed")
          /\ phase' = [phase EXCEPT ![e] = "closing"]
          /\ beating' = [beating EXCEPT ![e] = FALSE]
    /\ UNCHANGED <<lease, up, pending, event, result, lapsed, refused,
                   bounds>>

\* maintain_execution_lease every 15 s: the lease is renewed ...
Heartbeat(e) ==
    /\ beating[e] /\ up[Host[e]]
    /\ lease.holder = e /\ ~lease.fresh
    /\ lease' = [lease EXCEPT !.fresh = TRUE]
    /\ lapsed' = [lapsed EXCEPT ![e] = FALSE]
    /\ UNCHANGED <<status, up, entry, pending, phase, event, result,
                   beating, refused, bounds>>

\* ... or is another's, or the database raises: the run is cancelled through
\* whatever entry the worker has.
HeartbeatLost(e) ==
    /\ beating[e] /\ LoopFree(Host[e])
    /\ \/ lease.holder # e /\ UNCHANGED stalls
       \/ stalls < MaxStalls /\ stalls' = stalls + 1
    /\ beating' = [beating EXCEPT ![e] = FALSE]
    /\ entry' = [w \in Workers |-> IF w = Host[e] /\ entry[w] # Absent
                                   THEN [status |-> entry[w].status,
                                         cancel |-> TRUE]
                                   ELSE entry[w]]
    /\ UNCHANGED <<status, lease, up, pending, phase, event, result,
                   lapsed, refused, requests, crashes>>

\* release_team_run_execution_lease, in the finally clause.
Release(e) ==
    /\ Resumes(e, "closing", "none")
    /\ lease' = IF lease.holder = e THEN [holder |-> Nobody, fresh |-> FALSE]
                ELSE lease
    /\ lapsed' = [lapsed EXCEPT ![e] = FALSE]
    /\ UNCHANGED <<status, up, entry, pending, event, result, beating,
                   refused, bounds>>

-----------------------------------------------------------------------------
(* _run_task_team: the semaphore, the thread of the graph, and its result *)

\* The thread starts and looks up the cancel_event of the worker's entry.
EnterGraph(e) ==
    /\ Goto(e, "queued", "dispatch")
    /\ entry[Host[e]] # Absent
    /\ event' = [event EXCEPT ![e] = "shared"]
    /\ UNCHANGED <<status, lease, up, entry, pending, result, beating,
                   lapsed, refused, bounds>>

\* KeyError: another execution of the worker, or cancel_run, has purged it.
EntryGone(e) ==
    /\ phase[e] = "queued" /\ LoopFree(Host[e])
    /\ entry[Host[e]] = Absent
    /\ Raise(e)
    /\ UNCHANGED <<lease, up, pending, event, result, lapsed, refused,
                   bounds>>

\* run_governed raises: the recursion limit, a conflict of _finalize, the
\* checkpointer, or a continuation of a graph that has no checkpoint yet.
GraphRaises(e) ==
    /\ phase[e] \in {"dispatch", "verify"} /\ LoopFree(Host[e])
    /\ Raise(e)
    /\ event' = [event EXCEPT ![e] = "none"]
    /\ UNCHANGED <<lease, up, pending, result, lapsed, refused, bounds>>

Returns(e, from, r) ==
    /\ Goto(e, from, "ended")
    /\ result' = [result EXCEPT ![e] = r]
    /\ event' = [event EXCEPT ![e] = "none"]
    /\ UNCHANGED <<status, lease, up, entry, pending, beating, lapsed,
                   refused, bounds>>

\* The dispatch loop reads the stored status, then the cancel_event; a
\* cancelled dispatch ends the graph as failed.
DispatchStops(e) ==
    \/ status = "paused" /\ Returns(e, "dispatch", "paused")
    \/ Cancelled(e) /\ Returns(e, "dispatch", "failed")

\* Tasks fail for good, or need a decision of a human.
DispatchEnds(e) ==
    \E r \in {"failed", "human"} : Returns(e, "dispatch", r)

\* Every task has succeeded; from here on the graph looks at neither.
Dispatched(e) ==
    /\ ~Cancelled(e)
    /\ Goto(e, "dispatch", "verify")
    /\ UNCHANGED <<status, lease, up, entry, pending, event, result,
                   beating, lapsed, refused, bounds>>

Verified(e) ==
    \E r \in {"completed", "failed", "human"} : Returns(e, "verify", r)

\* status_map.  No error the graph interrupts with contains "waiting": it says
\* "paused", "human input required" or a reason such as
\* "integration_verification_unavailable".
StatusMap == [completed |-> "completed", failed |-> "failed",
              paused |-> "paused", human |-> "cancelled"]

\* Mutant: the result is stored as it is.
FinalUnmapped(e) == result[e]

Final(e) == StatusMap[result[e]]

\* Back on the loop: both statuses are written, and the final hook awaited.
Settle(e) ==
    /\ phase[e] = "ended" /\ LoopFree(Host[e])
    /\ IF entry[Host[e]] = Absent
       THEN Raise(e)
       ELSE /\ phase' = [phase EXCEPT ![e] = "hooking"]
            /\ status' = Final(e)
            /\ Mark(Host[e], Final(e))
            /\ UNCHANGED beating
    /\ result' = IF entry[Host[e]] = Absent THEN [result EXCEPT ![e] = "none"]
                 ELSE result
    /\ UNCHANGED <<lease, up, pending, event, lapsed, refused, bounds>>

\* A terminal run is evicted; resume_run writes both statuses once more, the one
\* of the entry it remembers, which may have been replaced.
Conclude(e) ==
    /\ Resumes(e, "hooking", IF e \in Starts THEN "none" ELSE "closing")
    /\ IF Final(e) = "paused"
       THEN /\ \/ UNCHANGED entry
               \/ e \notin Starts /\ Mark(Host[e], "paused")
            /\ UNCHANGED event
       ELSE Purge(Host[e])
    /\ status' = IF e \in Starts THEN status ELSE Final(e)
    /\ beating' = [beating EXCEPT ![e] = FALSE]
    /\ result' = [result EXCEPT ![e] = "none"]
    /\ UNCHANGED <<lease, up, pending, lapsed, refused, bounds>>

-----------------------------------------------------------------------------
(* Requests of the operator: the service checks the row and calls the runtime *)

\* Mutant: a cancelled run can be retried.
AdmissibleCancelled(call) ==
    CASE call = "pause"  -> status = "running"
      [] call = "cancel" -> status \in {"created", "running", "paused",
                                        "waiting_human"}
      [] call = "retry"  -> status \notin {"none", "completed"}

Admissible(call) ==
    CASE call = "pause"  -> status = "running"
      [] call = "cancel" -> status \in {"created", "running", "paused",
                                        "waiting_human"}
      [] call = "retry"  -> status \notin {"none", "completed", "cancelled"}

Admit(w, call) ==
    /\ requests < MaxRequests
    /\ LoopFree(w) /\ Admissible(call)
    /\ pending' = [pending EXCEPT ![w] = call]
    /\ requests' = requests + 1
    /\ UNCHANGED <<status, lease, up, entry, execution, refused, crashes, stalls>>

Done(w, call) ==
    /\ pending[w] = call
    /\ pending' = [pending EXCEPT ![w] = "none"]

PauseRun(w) ==
    /\ Done(w, "pause")
    /\ status' = "paused"
    /\ Mark(w, "paused")
    /\ UNCHANGED <<lease, up, execution, refused, bounds>>

\* cancel_run: without an entry only the row (and the board) is cancelled.
CancelRun(w) ==
    /\ Done(w, "cancel")
    /\ status' = "cancelled"
    /\ IF entry[w].status \in {"paused", "waiting_human"}
       THEN /\ entry' = [entry EXCEPT ![w] = Absent]
            /\ event' = [e \in Executions |-> IF event[e] = "shared" /\ Host[e] = w
                                              THEN "set" ELSE event[e]]
       ELSE /\ entry' = IF entry[w] = Absent THEN entry
                        ELSE [entry EXCEPT ![w] = [status |-> "cancelled",
                                                   cancel |-> TRUE]]
            /\ UNCHANGED event
    /\ UNCHANGED <<lease, up, phase, result, beating, lapsed, refused,
                   bounds>>

\* The board has a task to retry, and the row says running before anything runs
\* (with no such task nothing happens: RetryNothing).
Retry(e) ==
    /\ Done(Host[e], "retry")
    /\ status' = "running"
    /\ Spawn(e)
    /\ UNCHANGED <<lease, up, entry, event, result, beating, lapsed, refused,
                   bounds>>

RetryNothing(w) ==
    /\ Done(w, "retry")
    /\ UNCHANGED <<status, lease, up, entry, execution, refused, bounds>>

\* The service answers 202 and the coroutine takes the lease later.
Resume(e) ==
    /\ requests < MaxRequests
    /\ LoopFree(Host[e]) /\ status \in {"paused", "waiting_human"}
    /\ Spawn(e)
    /\ requests' = requests + 1
    /\ UNCHANGED <<status, lease, up, entry, pending, event, result, beating,
                   lapsed, refused, crashes, stalls>>

-----------------------------------------------------------------------------
(* The clock, crashes and restarts *)

LeaseExpires ==
    /\ lease.fresh
    /\ IF lease.holder \in Executions
       THEN /\ stalls < MaxStalls /\ stalls' = stalls + 1
            /\ lapsed' = [lapsed EXCEPT ![lease.holder] = TRUE]
       ELSE UNCHANGED <<stalls, lapsed>>
    /\ lease' = [lease EXCEPT !.fresh = FALSE]
    /\ UNCHANGED <<status, up, entry, pending, phase, event, result,
                   beating, refused, requests, crashes>>

\* Memory and threads are gone; the row and the lease in it stay.
Crash(w) ==
    /\ crashes < MaxCrashes /\ up[w]
    /\ crashes' = crashes + 1
    /\ up' = [up EXCEPT ![w] = FALSE]
    /\ entry' = [entry EXCEPT ![w] = Absent]
    /\ pending' = [pending EXCEPT ![w] = "none"]
    /\ phase' = [e \in Executions |-> IF Host[e] = w THEN "none" ELSE phase[e]]
    /\ event' = [e \in Executions |-> IF Host[e] = w THEN "none" ELSE event[e]]
    /\ result' = [e \in Executions |-> IF Host[e] = w THEN "none" ELSE result[e]]
    /\ beating' = [e \in Executions |-> Host[e] # w /\ beating[e]]
    /\ lapsed' = [e \in Executions |-> Host[e] # w /\ lapsed[e]]
    /\ lease' = [lease EXCEPT !.holder =
                    IF \E e \in Executions : @ = e /\ Host[e] = w
                    THEN Departed ELSE @]
    /\ UNCHANGED <<status, refused, requests, stalls>>

\* Mutant: what was running is not recovered.
RecoverableUnstarted == {"created", "interrupted"}

Recoverable == {"created", "running", "interrupted"}

\* recover_incomplete, once, when the process starts.
Restart(w) ==
    /\ ~up[w]
    /\ up' = [up EXCEPT ![w] = TRUE]
    /\ IF status \in Recoverable
       THEN \E e \in Executions : Host[e] = w /\ Spawn(e)
       ELSE UNCHANGED phase
    /\ UNCHANGED <<status, lease, entry, pending, event, result, beating, lapsed,
                   refused, bounds>>

-----------------------------------------------------------------------------
(* Specification *)

Init ==
    /\ status = "none"
    /\ lease = [holder |-> Nobody, fresh |-> FALSE]
    /\ up = [w \in Workers |-> TRUE]
    /\ entry = [w \in Workers |-> Absent]
    /\ pending = [w \in Workers |-> "none"]
    /\ phase = [e \in Executions |-> "none"]
    /\ event = [e \in Executions |-> "none"]
    /\ result = [e \in Executions |-> "none"]
    /\ beating = [e \in Executions |-> FALSE]
    /\ lapsed = [e \in Executions |-> FALSE]
    /\ refused = FALSE
    /\ requests = 0 /\ crashes = 0 /\ stalls = 0

\* What the coroutine of an execution does by itself.
LoopStep(e) ==
    \/ CreateAllowed(e) \/ HookBlocks(e) \/ Start(e) \/ StartAllowed(e)
    \/ Acquire(e) \/ Restore(e) \/ RestoreFails(e) \/ EntryGone(e)
    \/ Settle(e) \/ Conclude(e) \/ Release(e)

GraphStep(e) ==
    \/ EnterGraph(e) \/ DispatchStops(e) \/ DispatchEnds(e) \/ Dispatched(e)
    \/ Verified(e) \/ GraphRaises(e)

Request ==
    \/ \E w \in Workers, call \in {"pause", "cancel", "retry"} : Admit(w, call)
    \/ \E e \in Executions : Resume(e)

Perform(w) ==
    \/ PauseRun(w) \/ CancelRun(w) \/ RetryNothing(w)
    \/ \E e \in Executions : Host[e] = w /\ Retry(e)

Next ==
    \/ \E e \in Executions : Create(e)
    \/ \E e \in Executions : LoopStep(e) \/ GraphStep(e)
    \/ \E e \in Executions : Heartbeat(e) \/ HeartbeatLost(e)
    \/ Request
    \/ \E w \in Workers : Perform(w) \/ Crash(w) \/ Restart(w)
    \/ LeaseExpires

Spec == Init /\ [][Next]_vars

-----------------------------------------------------------------------------
(* Fairness.  Hooks, graph threads and the loop go on (every wait in them has *)
(* a time limit), an admitted call is carried out, a crashed worker is       *)
(* restarted (docker-compose.yml: restart: unless-stopped) and the lease of  *)
(* an execution that is gone expires.  Nothing makes an operator call.       *)

Fairness ==
    /\ \A e \in Executions : WF_vars(LoopStep(e) \/ GraphStep(e))
    /\ \A w \in Workers : WF_vars(Perform(w) \/ Restart(w))

FairSpec == Spec /\ Fairness

-----------------------------------------------------------------------------
(* Properties *)

\* Two executions that have both taken the lease never overlap, unless one of
\* them has let it expire: acquisition, heartbeat and release check the id.
LeasedExecutionsExclude ==
    \A e, f \in Executions :
        e # f /\ Leased(e) /\ Leased(f) => lapsed[e] \/ lapsed[f]

\* Types, and what the lease of a run fences off (acquire, heartbeat and release).
Safety == TypeOK /\ LeasedExecutionsExclude

Unsettled == status \in {"created", "running"}

\* No ghost run: whatever raised, crashed or was refused, a row that says the run
\* is under way has an execution that will write it, or a worker whose restart
\* recovers it.  What remains is a recovery that met the lease of an execution
\* that is gone or about to go: nobody tries again.
NoGhostRun ==
    Unsettled => \/ \E e \in Executions : Live(e)
                 \/ \E w \in Workers : ~up[w]
                 \/ refused

\* And a run under way comes to rest.
RunsSettle == Unsettled ~> (~Unsettled \/ refused)

Quiet ==
    /\ \A e \in Executions : ~Live(e)
    /\ \A w \in Workers : pending[w] = "none"

\* Once nothing executes, a run that has completed or was cancelled stays so:
\* no request is admitted, and no restart takes it up.
ClosedRunsStayClosed ==
    [][Quiet /\ status \in {"completed", "cancelled"}
          => UNCHANGED <<status, pending, phase>>]_vars

\* docs/api.md of the cancel endpoint: it cancels and blocks a late success.
LateSuccessIsBlocked == [][status = "cancelled" => status' # "completed"]_vars

\* docs/repository-verification.md: a run whose verification environment is
\* missing enters waiting_human, so that it can be resumed.
HumanWaitIsStored ==
    [][\A e \in Executions :
          phase[e] = "ended" /\ phase'[e] = "hooking" /\ result[e] = "human"
             => status' = "waiting_human"]_vars

=============================================================================
