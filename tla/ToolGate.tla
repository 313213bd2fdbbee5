------------------------------ MODULE ToolGate ------------------------------
(***************************************************************************)
(* What one task's worker may do through its tools, over the attempts of   *)
(* the task: the budget guards, the governed tools and the attempt itself  *)
(* of app/multiagent/executor.py, the idempotency journal                  *)
(* (tool_runtime.py), the permission broker (permission.py), the shell     *)
(* runner (shell_policy.py), and the cancellation token of an assignment   *)
(* (agent_runtime_manager.py).                                             *)
(*                                                                         *)
(* An attempt is one execute() in a worker thread.  The model of the agent *)
(* asks for tools, several at once, and each call runs in a thread of its  *)
(* own: a call.  The scheduler gives an attempt up when it times out, and  *)
(* starts the next one while the calls of the old go on; a crash ends all  *)
(* threads and leaves the database.  Which tools are asked for, what a     *)
(* hook or a person says, and whether files were produced are choices.     *)
(***************************************************************************)
EXTENDS Integers, FiniteSets, Sequences

CONSTANTS
    Calls,          \* threads that may run a tool at one time
    Agents,         \* teammates that may be given the task
    Commands,       \* tool calls with their arguments
    Kind,           \* Kind[c]: the tool, and for a shell its category
    Worktree,       \* workers run in a git worktree, which attempts share
    MaxCalls,       \* budget.max_tool_calls
    RepromptCalls,  \* max_calls of the re-prompt's guard
    MaxAttempts,    \* bound: attempts started
    MaxRequests,    \* bound: governed calls are made below this many requests
    MaxFaults,      \* bound: budget events that are not written or not read
    MaxRestarts     \* bound: crashes, and resumes without a crash

ASSUME ToolGateAssumption ==
    /\ IsFiniteSet(Calls) /\ Agents # {} /\ Commands # {}
    /\ Kind \in [Commands -> {"file", "build", "shell", "team"}]
    /\ Worktree \in BOOLEAN
    /\ MaxCalls \in Nat \ {0} /\ RepromptCalls \in Nat \ {0}
    /\ {MaxAttempts, MaxRequests, MaxFaults, MaxRestarts} \subseteq Nat

VARIABLES
    pc,         \* where each call stands
    of,         \* the attempt it belongs to
    command,    \* what it was asked to do
    claim,      \* the permission request it looks at
    worker,     \* what the thread of each attempt executes
    agent,      \* who makes the attempt
    cancelled,  \* its CancellationToken
    raised,     \* the exception that leaves its invoke
    used,       \* _used of its _TaskToolBudgetGuard
    reused,     \* _used of its _RepromptBudgetGuard
    attempt,    \* the attempts started
    awaited,    \* the attempt the scheduler waits for, 0: none
    over,       \* an attempt has succeeded
    journal,    \* status of the row of each agent and command
    requests,   \* structured_permission_requests
    consumed,   \* TaskToolBudgetConsumed events stored
    up,         \* the process runs
    lost,       \* events that the count in force has missed (history)
    passed,     \* calls of the task's budget that were let through (history)
    ran,        \* the attempts in which a command was started (history)
    faults, restarts

call == <<pc, of, command, claim>>
attempts == <<worker, agent, cancelled, raised, used, reused>>
task == <<attempt, awaited, over>>
stored == <<journal, requests, consumed>>
history == <<lost, passed, ran>>
bounds == <<faults, restarts>>
vars == <<call, attempts, task, stored, up, history, bounds>>

-----------------------------------------------------------------------------
(* Types *)

\* ("counted" holds the lock of the guard.)
Step == {"idle", "counted", "gate", "reading", "saving", "asking", "marking",
         "requesting", "ready", "running", "refused", "denied"}

RowStatus == {"started", "completed", "failed", "cancelled", "needs_human"}

\* A request with its decision: "once" and "run" are approved, "used" was once.
RequestStatus == {"pending", "once", "run", "used", "denied"}

Attempts == 1 .. MaxAttempts

Journaled(c) == Kind[c] \in {"build", "shell"}

Governed(c) == Kind[c] \in {"shell", "team"}

\* The directory of a worker: an attempt has its own, a worktree is the agent's.
Place(a) == IF Worktree THEN 0 ELSE a

\* What a request asks for; that of a shell command names the directory.
Fingerprint(a, c) ==
    [agent |-> agent[a], command |-> c,
     place |-> IF Kind[c] = "shell" THEN Place(a) ELSE 0]

Request == [key : [agent : Agents, command : Commands, place : 0 .. MaxAttempts],
            status : RequestStatus]

TypeOK ==
    /\ pc \in [Calls -> Step]
    /\ of \in [Calls -> 0 .. MaxAttempts]
    /\ command \in [Calls -> Commands]
    /\ claim \in [Calls -> Nat]
    /\ worker \in [Attempts -> {"off", "first", "reprompt"}]
    /\ agent \in [Attempts -> Agents]
    /\ cancelled \in [Attempts -> BOOLEAN]
    /\ raised \in [Attempts -> {"none", "stop", "permission", "error"}]
    /\ used \in [Attempts -> Nat]
    /\ reused \in [Attempts -> Nat]
    /\ attempt \in 0 .. MaxAttempts /\ awaited \in 0 .. MaxAttempts
    /\ over \in BOOLEAN /\ up \in BOOLEAN
    /\ journal \in [Agents \X Commands -> RowStatus \cup {"absent"}]
    /\ requests \in Seq(Request)
    /\ consumed \in Nat /\ lost \in Nat /\ passed \in Nat
    /\ ran \in [Agents \X Commands -> SUBSET Attempts]
    /\ faults \in Nat /\ restarts \in Nat

\* (What an idle call has for a command.)
AnyCommand == CHOOSE c \in Commands : TRUE

Init ==
    /\ pc = [t \in Calls |-> "idle"]
    /\ of = [t \in Calls |-> 0]
    /\ command = [t \in Calls |-> AnyCommand]
    /\ claim = [t \in Calls |-> 0]
    /\ worker = [a \in Attempts |-> "off"]
    /\ agent = [a \in Attempts |-> CHOOSE g \in Agents : TRUE]
    /\ cancelled = [a \in Attempts |-> FALSE]
    /\ raised = [a \in Attempts |-> "none"]
    /\ used = [a \in Attempts |-> 0]
    /\ reused = [a \in Attempts |-> 0]
    /\ attempt = 0 /\ awaited = 0
    /\ over = FALSE /\ up = TRUE
    /\ journal = [k \in Agents \X Commands |-> "absent"]
    /\ requests = << >>
    /\ consumed = 0 /\ lost = 0 /\ passed = 0
    /\ ran = [k \in Agents \X Commands |-> {}]
    /\ faults = 0 /\ restarts = 0

-----------------------------------------------------------------------------
(* One call *)

Key(t) == <<agent[of[t]], command[t]>>

Goto(t, step) == pc' = [pc EXCEPT ![t] = step]

Idle(t) ==
    /\ Goto(t, "idle")
    /\ of' = [of EXCEPT ![t] = 0]
    /\ command' = [command EXCEPT ![t] = AnyCommand]
    /\ claim' = [claim EXCEPT ![t] = 0]

\* The tool returns a text to the agent.
Answers(t) == Idle(t) /\ UNCHANGED raised

\* An exception that ToolNode lets through.  Of several, any may surface.
Raises(t, exception) ==
    /\ Idle(t)
    /\ \E e \in {exception} \cup ({raised[of[t]]} \ {"none"}) :
           raised' = [raised EXCEPT ![of[t]] = e]

\* The tools of the executor, which hooks may refuse before and after.
Local(c) == Kind[c] # "team"

WriteRow(t, status) == journal' = [journal EXCEPT ![Key(t)] = status]

threads == <<agent, worker, cancelled, used, reused>>

\* (Another governed call may need another request, unless one is approved.)
RoomForRequest ==
    \/ Len(requests) + Cardinality({s \in Calls : pc[s] # "idle"}) < MaxRequests
    \/ \E i \in 1 .. Len(requests) : requests[i].status \in {"once", "run"}

\* _TaskToolBudgetGuard.checkpoint in the invoke of the task, which counts
\* under the guard's lock.
Count(t, a, c) ==
    /\ worker[a] = "first" /\ pc[t] = "idle"
    /\ \A s \in Calls : of[s] = a => pc[s] # "counted"
    /\ used[a] < MaxCalls
    /\ Governed(c) => RoomForRequest
    /\ used' = [used EXCEPT ![a] = @ + 1]
    /\ Goto(t, "counted")
    /\ of' = [of EXCEPT ![t] = a]
    /\ command' = [command EXCEPT ![t] = c]
    /\ UNCHANGED <<claim, worker, agent, cancelled, raised, reused, task, stored,
                   up, history, bounds>>

\* _record, whose failure is logged and no more.
Record(t) ==
    /\ pc[t] = "counted"
    /\ Goto(t, "gate")
    /\ \/ consumed' = consumed + 1 /\ UNCHANGED <<lost, faults>>
       \/ /\ faults < MaxFaults /\ faults' = faults + 1
          /\ lost' = lost + 1 /\ UNCHANGED consumed
    /\ UNCHANGED <<of, command, claim, attempts, task, journal, requests, up, passed, ran, restarts>>

\* _RepromptBudgetGuard.checkpoint, which stores nothing.
CountReprompt(t, a, c) ==
    /\ worker[a] = "reprompt" /\ pc[t] = "idle"
    /\ reused[a] < RepromptCalls
    /\ Governed(c) => RoomForRequest
    /\ reused' = [reused EXCEPT ![a] = @ + 1]
    /\ Goto(t, "gate")
    /\ of' = [of EXCEPT ![t] = a]
    /\ command' = [command EXCEPT ![t] = c]
    /\ UNCHANGED <<claim, worker, agent, cancelled, raised, used, task, stored,
                   up, history, bounds>>

\* Either guard refuses a call of a round the model had asked for.
Exceeded(a) ==
    /\ \/ worker[a] = "first" /\ used[a] >= MaxCalls
       \/ worker[a] = "reprompt" /\ reused[a] >= RepromptCalls
    /\ \E e \in {"stop"} \cup ({raised[a]} \ {"none"}) :
           raised' = [raised EXCEPT ![a] = e]
    /\ UNCHANGED <<call, worker, agent, cancelled, used, reused, task, stored,
                   up, history, bounds>>

\* _tool_boundary, or before() of the team tools, and the BeforeToolUse hook.
Gate(t) ==
    /\ pc[t] = "gate"
    /\ \/ cancelled[of[t]] /\ Raises(t, "stop") /\ UNCHANGED passed
       \/ /\ ~cancelled[of[t]]
          /\ passed' = passed + (IF worker[of[t]] = "first" THEN 1 ELSE 0)
          /\ \/ Local(command[t]) /\ Raises(t, "error")
             \/ /\ Goto(t, IF Journaled(command[t]) THEN "reading"
                            ELSE IF Governed(command[t]) THEN "asking" ELSE "ready")
                /\ UNCHANGED <<of, command, claim, raised>>
    /\ UNCHANGED <<threads, task, stored, up, lost, ran, bounds>>

\* AfterToolUse closes a local tool; a hook that blocks it makes the call raise.
Leaves(t) == Answers(t) \/ (Local(command[t]) /\ Raises(t, "error"))

Quits(t, exception) == Raises(t, exception) \/ (Local(command[t]) /\ Raises(t, "error"))

\* (Mutant: begin() starts again what is not known to be completed.)
ReadRowRetries(t) ==
    /\ pc[t] = "reading"
    /\ \/ /\ journal[Key(t)] \in {"absent", "failed", "needs_human"}
          /\ Goto(t, "saving")
          /\ UNCHANGED <<of, command, claim, raised>>
       \/ journal[Key(t)] \notin {"absent", "failed", "needs_human"} /\ Leaves(t)
    /\ UNCHANGED <<threads, task, stored, up, history, bounds>>

\* ToolSideEffectJournal.begin: get, and if there is no row
ReadRow(t) ==
    /\ pc[t] = "reading"
    /\ \/ /\ journal[Key(t)] = "absent"
          /\ Goto(t, "saving")
          /\ UNCHANGED <<of, command, claim, raised>>
       \/ journal[Key(t)] # "absent" /\ Leaves(t)
    /\ UNCHANGED <<threads, task, stored, up, history, bounds>>

\* an upsert, which replaces a row stored in between.
SaveRow(t) ==
    /\ pc[t] = "saving"
    /\ WriteRow(t, "started")
    /\ Goto(t, IF Governed(command[t]) THEN "asking" ELSE "ready")
    /\ UNCHANGED <<of, command, claim, attempts, task, requests, consumed, up,
                   history, bounds>>

\* _matching_grant: the newest of the approved requests that can be used.
Grants(t) == {i \in 1 .. Len(requests) :
                 /\ requests[i].key = Fingerprint(of[t], command[t])
                 /\ requests[i].status \in {"once", "run"}}

Newest(t) == {i \in Grants(t) : \A j \in Grants(t) : j <= i}

\* authorize: a grant is found, or a request is stored.
Ask(t) ==
    /\ pc[t] = "asking"
    /\ \/ /\ \E i \in Newest(t) :
                /\ claim' = [claim EXCEPT ![t] = i]
                /\ Goto(t, IF requests[i].status = "once" THEN "marking" ELSE "ready")
          /\ UNCHANGED requests
       \/ /\ Grants(t) = {}
          /\ requests' = Append(requests, [key |-> Fingerprint(of[t], command[t]),
                                           status |-> "pending"])
          /\ claim' = [claim EXCEPT ![t] = Len(requests) + 1]
          /\ Goto(t, "requesting")
    /\ UNCHANGED <<of, command, attempts, task, journal, consumed, up,
                   history, bounds>>

\* _mark_used, a transaction of its own.
Mark(t) ==
    /\ pc[t] = "marking"
    /\ requests' = [requests EXCEPT ![claim[t]].status = "used"]
    /\ Goto(t, "ready")
    /\ UNCHANGED <<of, command, claim, attempts, task, journal, consumed, up,
                   history, bounds>>

\* _emit_requested_hook: a hook may deny the request it finds as it was
\* inserted.  PermissionDenied and PermissionRequired are RuntimeErrors.
Requested(t) ==
    /\ pc[t] = "requesting"
    /\ \E blocked \in BOOLEAN :
           /\ requests' = IF blocked
                          THEN [requests EXCEPT ![claim[t]].status = "denied"]
                          ELSE requests
           /\ IF Journaled(command[t])
              THEN /\ Goto(t, IF blocked THEN "denied" ELSE "refused")
                   /\ UNCHANGED <<of, command, claim, raised>>
              ELSE Raises(t, "permission")
    /\ UNCHANGED <<threads, task, journal, consumed, up, history, bounds>>

\* (Mutant: a status that the journal does not have.)
FailRowUnknown(t) == WriteRow(t, "error")

FailRow(t) == WriteRow(t, IF cancelled[of[t]] THEN "cancelled" ELSE "failed")

\* The execute tool fails its row and lets PermissionRequired through.
Refused(t) ==
    /\ \/ pc[t] = "refused" /\ Quits(t, "permission")
       \/ pc[t] = "denied" /\ Leaves(t)
    /\ FailRow(t)
    /\ UNCHANGED <<threads, task, requests, consumed, up, history, bounds>>

\* The effect begins.
Begins(t) ==
    /\ Goto(t, "running")
    /\ ran' = [ran EXCEPT ![Key(t)] = @ \cup {of[t]}]
    /\ UNCHANGED <<of, command, claim, raised, journal>>

\* ShellCommandRunner.run looks at the token.  The result of a command that was
\* cancelled is a result: its row is completed.
RunCommand(t) ==
    /\ Journaled(command[t])
    /\ \/ ~cancelled[of[t]] /\ Begins(t)
       \/ cancelled[of[t]] /\ WriteRow(t, "completed") /\ Leaves(t) /\ UNCHANGED ran

\* _atomic_write looks at it too, and raises.
RunFile(t) ==
    /\ Kind[command[t]] = "file"
    /\ \/ ~cancelled[of[t]] /\ Begins(t)
       \/ cancelled[of[t]] /\ Quits(t, "stop") /\ UNCHANGED <<journal, ran>>

\* The control plane has been past it.
RunTeam(t) == Kind[command[t]] = "team" /\ Begins(t)

Run(t) ==
    /\ pc[t] = "ready"
    /\ RunCommand(t) \/ RunFile(t) \/ RunTeam(t)
    /\ UNCHANGED <<threads, task, requests, consumed, up, lost, passed, bounds>>

\* The command ends, is killed, or could not be run.
EndCommand(t) ==
    Journaled(command[t]) /\ (WriteRow(t, "completed") \/ FailRow(t)) /\ Leaves(t)

\* The file is replaced, or dropped for the token.
EndFile(t) ==
    /\ Kind[command[t]] = "file"
    /\ Leaves(t) \/ (cancelled[of[t]] /\ Quits(t, "stop"))
    /\ UNCHANGED journal

EndTeam(t) == Kind[command[t]] = "team" /\ Answers(t) /\ UNCHANGED journal

Finish(t) ==
    /\ pc[t] = "running"
    /\ EndCommand(t) \/ EndFile(t) \/ EndTeam(t)
    /\ UNCHANGED <<threads, task, requests, consumed, up, history, bounds>>

Advance(t) ==
    \/ Record(t) \/ Gate(t) \/ ReadRow(t) \/ SaveRow(t) \/ Ask(t) \/ Mark(t)
    \/ Requested(t) \/ Refused(t) \/ Run(t) \/ Finish(t)

-----------------------------------------------------------------------------
(* Attempts *)

\* (Mutant: every attempt has a budget of its own.)
StartUnrestored(g) ==
    /\ up /\ awaited = 0 /\ ~over /\ attempt < MaxAttempts
    /\ LET a == attempt + 1
       IN /\ attempt' = a /\ awaited' = a
          /\ worker' = [worker EXCEPT ![a] = "first"]
          /\ agent' = [agent EXCEPT ![a] = g]
    /\ UNCHANGED <<call, cancelled, raised, used, reused, over, stored, up,
                   history, bounds>>

\* _restore_used counts the events, and starts at 0 when it cannot.
Restore(a) ==
    \/ /\ used' = [used EXCEPT ![a] = consumed]
       /\ UNCHANGED <<lost, faults>>
    \/ /\ consumed > 0 /\ faults < MaxFaults /\ faults' = faults + 1
       /\ lost' = lost + consumed
       /\ UNCHANGED used

\* The invoke of the task begins, with its tools under a new guard.
Invoke(a) == worker' = [worker EXCEPT ![a] = "first"] /\ Restore(a)

\* The scheduler gives the task to an agent: execute_task.
Start(g) ==
    /\ up /\ awaited = 0 /\ ~over /\ attempt < MaxAttempts
    /\ LET a == attempt + 1
       IN /\ attempt' = a /\ awaited' = a
          /\ agent' = [agent EXCEPT ![a] = g]
          /\ Invoke(a)
    /\ UNCHANGED <<call, cancelled, raised, reused, over, stored, up, passed,
                   ran, restarts>>

\* execute() returns, and its guards and its token are gone; the scheduler takes
\* a result it still waits for.
Return(a, success) ==
    /\ worker' = [worker EXCEPT ![a] = "off"]
    /\ raised' = [raised EXCEPT ![a] = "none"]
    /\ cancelled' = [cancelled EXCEPT ![a] = FALSE]
    /\ used' = [used EXCEPT ![a] = 0]
    /\ reused' = [reused EXCEPT ![a] = 0]
    /\ IF awaited = a
       THEN awaited' = 0 /\ over' = (success /\ ~cancelled[a])
       ELSE UNCHANGED <<awaited, over>>

\* RuntimeErrors of the first invoke stop it without failing the attempt when
\* they tell of the budget or of a cancellation, those of the re-prompt always.
Swallowed(a) ==
    \/ raised[a] \in {"none", "stop"}
    \/ raised[a] = "permission" /\ worker[a] = "reprompt"

\* The files are published; the token is looked at a last time.
Succeeds(a) == Swallowed(a) /\ ~cancelled[a] /\ Return(a, TRUE)

\* No file was produced: the agent is asked once more, under a guard of its own.
Reprompts(a) ==
    /\ Swallowed(a) /\ ~cancelled[a] /\ worker[a] = "first"
    /\ worker' = [worker EXCEPT ![a] = "reprompt"]
    /\ raised' = [raised EXCEPT ![a] = "none"]
    /\ UNCHANGED <<cancelled, used, reused, awaited, over>>

\* invoke returns or raises when its calls have ended.  (The model's provider
\* and the artifact store may fail the attempt at any time.)
EndInvoke(a) ==
    /\ worker[a] # "off"
    /\ \A t \in Calls : of[t] # a
    /\ Return(a, FALSE) \/ Succeeds(a) \/ Reprompts(a)
    /\ UNCHANGED <<call, agent, attempt, stored, up, history, bounds>>

\* stop_agent: the scheduler waits for what the worker returns.
Stop ==
    /\ awaited # 0
    /\ cancelled' = [cancelled EXCEPT ![awaited] = TRUE]
    /\ UNCHANGED <<call, worker, agent, raised, used, reused, task, stored, up,
                   history, bounds>>

\* A task that takes too long: the token is set, and the worker left to itself.
TimeOut ==
    /\ awaited # 0
    /\ cancelled' = [cancelled EXCEPT ![awaited] = TRUE]
    /\ awaited' = 0
    /\ UNCHANGED <<call, worker, agent, raised, used, reused, attempt, over, stored,
                   up, history, bounds>>

-----------------------------------------------------------------------------
(* Decisions, crashes and resumes *)

\* decide() of a person or the lead, on a request that is pending.
Decide(i, status) ==
    /\ up /\ requests[i].status = "pending"
    /\ requests' = [requests EXCEPT ![i].status = status]
    /\ UNCHANGED <<call, attempts, task, journal, consumed, up, history, bounds>>

\* The process ends, with every thread of it.
Crash ==
    /\ up /\ restarts < MaxRestarts /\ restarts' = restarts + 1
    /\ up' = FALSE
    /\ pc' = [t \in Calls |-> "idle"]
    /\ of' = [t \in Calls |-> 0]
    /\ command' = [t \in Calls |-> AnyCommand]
    /\ claim' = [t \in Calls |-> 0]
    /\ worker' = [a \in Attempts |-> "off"]
    /\ raised' = [a \in Attempts |-> "none"]
    /\ cancelled' = [a \in Attempts |-> FALSE]
    /\ used' = [a \in Attempts |-> 0]
    /\ reused' = [a \in Attempts |-> 0]
    /\ awaited' = 0
    /\ UNCHANGED <<agent, attempt, over, stored, history, faults>>

\* (Mutant: the rows are reported and left.)
RecoveredNothing == journal

\* recover_incomplete: every started row is for a human, those of threads that
\* still run after a resume in the same process included.
Recovered == [k \in Agents \X Commands |->
                 IF journal[k] = "started" THEN "needs_human" ELSE journal[k]]

Resume ==
    /\ \/ ~up /\ UNCHANGED restarts
       \/ up /\ awaited = 0 /\ restarts < MaxRestarts /\ restarts' = restarts + 1
    /\ up' = TRUE
    /\ journal' = Recovered
    /\ UNCHANGED <<call, attempts, task, requests, consumed, history, faults>>

-----------------------------------------------------------------------------

Next ==
    \/ \E t \in Calls, a \in Attempts, c \in Commands :
          Count(t, a, c) \/ CountReprompt(t, a, c)
    \/ \E t \in Calls : Advance(t)
    \/ \E a \in Attempts : Exceeded(a) \/ EndInvoke(a)
    \/ \E g \in Agents : Start(g)
    \/ Stop \/ TimeOut
    \/ \E i \in 1 .. Len(requests), s \in {"once", "run", "denied"} : Decide(i, s)
    \/ Crash \/ Resume

Spec == Init /\ [][Next]_vars

-----------------------------------------------------------------------------
(* Properties *)

\* The budget is one for all attempts: whatever threads a timeout has left
\* behind, and however often the process was restarted, the calls let through
\* are at most max_tool_calls, and one more for each event the count has missed.
WithinBudget == passed <= MaxCalls + lost

\* Types, and the budget of calls that all attempts of the task share
\* (_TaskToolBudgetGuard, executor.py).
Safety == TypeOK /\ WithinBudget

\* A journaled command of an agent takes effect in one attempt only: no retry,
\* restart or thread left behind starts it a second time.  (Two calls of one
\* attempt may both start it: begin() reads and then writes.)
EffectsStayInAttempt ==
    \A g \in Agents, c \in Commands :
        Journaled(c) => Cardinality(ran[<<g, c>>]) <= 1

\* While the process runs, a row that says its command is under way has a call
\* that attends to it and will write what became of it.
StartedRowsAreAttended ==
    up => \A g \in Agents, c \in Commands :
              journal[<<g, c>>] = "started" =>
                  \E t \in Calls : /\ pc[t] \in {"asking", "marking", "requesting", "ready",
                                                "running", "refused", "denied"}
                                   /\ Key(t) = <<g, c>>

\* A command that never ran, and that its agent is allowed to run by now, is
\* not refused by the journal.
ApprovedCommandsRun ==
    [][\A t \in Calls :
          pc[t] = "reading" /\ Grants(t) # {} /\ ran[Key(t)] = {}
              => journal[Key(t)] # "failed"]_vars

=============================================================================
