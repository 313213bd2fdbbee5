--------------------------- MODULE SchedulerProofs ---------------------------
(***************************************************************************)
(* Theorems about Scheduler, for any tasks, agents, capabilities, limits,  *)
(* interventions, and with or without hooks.                               *)
(*                                                                         *)
(* The records of the board, the agents with their coroutines, and the     *)
(* coroutines among themselves are three questions: a lemma says what each *)
(* step does to each of them, and an invariant is proved of that.          *)
(***************************************************************************)
EXTENDS Scheduler, FiniteSetTheorems, TLAPS

-----------------------------------------------------------------------------
(* The board *)

BoardTypes == mem \in [Tasks -> Board!BoardTask] /\ overdraft \in [Tasks -> Nat]

\* A method of the board changes the record of t alone, and to a record.
Edits(t) ==
    /\ mem' = [mem EXCEPT ![t] = mem'[t]]
    /\ mem'[t] \in Board!BoardTask
    /\ overdraft' \in [Tasks -> Nat]

LEMMA EditsKeepTypes ==
    ASSUME BoardTypes, NEW t \in Tasks, Edits(t) PROVE BoardTypes'
  BY DEF BoardTypes, Edits

\* Changing the status of a record leaves a record.
LEMMA MovedRecord ==
    ASSUME NEW task \in Board!BoardTask, NEW s \in Board!Status
    PROVE  /\ [task EXCEPT !.status = s] \in Board!BoardTask
           /\ [task EXCEPT !.status = s].status = s
           /\ [task EXCEPT !.status = s].owner = task.owner
  BY DEF Board!BoardTask

LEMMA ClaimedRecord ==
    ASSUME NEW task \in Board!BoardTask, NEW a \in Agents
    PROVE  LET new == [task EXCEPT !.status = "claimed", !.owner = a]
           IN  new \in Board!BoardTask /\ new.status = "claimed" /\ new.owner = a
  BY DEF Board!BoardTask, Board!Status, Board!InFlight

LEMMA RequeuedRecord ==
    ASSUME NEW task \in Board!BoardTask
    PROVE  /\ Board!Requeued(task) \in Board!BoardTask
           /\ Board!Requeued(task).status = "pending"
  BY DEF Board!Requeued, Board!BoardTask, Board!Status, Board!InFlight

\* A failure ends in the queue, within the budget or by the rate-limit grace, or
\* for good.
LEMMA FailedRecord ==
    ASSUME NEW task \in Board!BoardTask, NEW retryable \in BOOLEAN, NEW rateLimited \in BOOLEAN
    PROVE  LET new == Board!FailedRecord(task, retryable, rateLimited)
           IN  new \in Board!BoardTask /\ new.status \in {"pending", "failed"}
<1> DEFINE budgeted == retryable /\ task.attempts + 1 < task.limit
           graced == ~budgeted /\ rateLimited /\ task.grace < RateLimitGrace
           again == budgeted \/ graced
           new == Board!FailedRecord(task, retryable, rateLimited)
<1>1. PICK n : n = task.attempts + 1
  OBVIOUS
<1>2. PICK st : st = IF again THEN "pending" ELSE "failed"
  OBVIOUS
<1>3. PICK o : o = IF again THEN NoAgent ELSE task.owner
  OBVIOUS
<1>4. PICK g : g = IF graced THEN task.grace + 1 ELSE task.grace
  OBVIOUS
<1>5. new = [task EXCEPT !.attempts = n, !.status = st, !.owner = o, !.grace = g]
  BY <1>1, <1>2, <1>3, <1>4 DEF Board!FailedRecord
<1>6. task.attempts \in Nat /\ task.grace \in Nat /\ task.owner \in Agents \cup {NoAgent}
  BY DEF Board!BoardTask
<1>7. st \in {"pending", "failed"} /\ o \in Agents \cup {NoAgent}
  BY <1>2, <1>3, <1>6
<1> HIDE DEF new, graced, again
<1>8. n \in Nat /\ g \in Nat
  BY <1>1, <1>4, <1>6
<1>9. st \in Board!Status
  BY <1>7 DEF Board!Status, Board!InFlight
<1>10. new \in Board!BoardTask /\ new.status = st
  BY <1>5, <1>7, <1>8, <1>9 DEF Board!BoardTask
<1> QED BY <1>7, <1>10 DEF new

\* What a method saves is what the board holds afterwards.
LEMMA Saved ==
    ASSUME BoardTypes, NEW t \in Tasks, NEW task \in Board!BoardTask, Board!Save(t, task),
           overdraft' \in [Tasks -> Nat]
    PROVE  Edits(t) /\ mem'[t] = task
  BY DEF BoardTypes, Edits, Board!Save

LEMMA Moved ==
    ASSUME BoardTypes, NEW t \in Tasks, NEW s \in Board!Status, Board!Move(t, s),
           UNCHANGED overdraft
    PROVE  Edits(t) /\ mem'[t].status = s /\ mem'[t].owner = mem[t].owner
<1>1. mem[t] \in Board!BoardTask
  BY DEF BoardTypes
<1> DEFINE task == [mem[t] EXCEPT !.status = s]
<1>2. task \in Board!BoardTask /\ task.status = s /\ task.owner = mem[t].owner
  BY <1>1, MovedRecord
<1>3. Board!Save(t, task) /\ overdraft' \in [Tasks -> Nat]
  BY DEF Board!Move, BoardTypes
<1> HIDE DEF task
<1> QED BY <1>2, <1>3, Saved

LEMMA ClaimEdits ==
    ASSUME BoardTypes, NEW t \in Tasks, NEW a \in Agents, Board!Claim(t, a)
    PROVE  /\ Edits(t) /\ mem[t].status = "pending"
           /\ mem'[t].status = "claimed" /\ mem'[t].owner = a
<1>1. mem[t] \in Board!BoardTask
  BY DEF BoardTypes
<1>2. /\ mem[t].status = "pending" /\ UNCHANGED overdraft
      /\ mem' = [mem EXCEPT ![t] = [mem[t] EXCEPT !.status = "claimed", !.owner = a]]
  BY DEF Board!Claim
<1> QED BY <1>1, <1>2, ClaimedRecord DEF BoardTypes, Edits

LEMMA StartEdits ==
    ASSUME BoardTypes, NEW t \in Tasks, NEW a, Board!Start(t, a)
    PROVE  Edits(t) /\ mem'[t].status = "running" /\ mem'[t].owner = a
<1>1. "running" \in Board!Status
  BY DEF Board!Status, Board!InFlight
<1> QED BY <1>1, Moved DEF Board!Start, Board!Owns

LEMMA ReleaseEdits ==
    ASSUME BoardTypes, NEW t \in Tasks, NEW a, Board!Release(t, a)
    PROVE  Edits(t) /\ mem'[t].status = "pending"
<1> DEFINE task == [Board!Requeued(mem[t]) EXCEPT !.attempts = @ + 1]
<1>1. Board!Save(t, task) /\ overdraft' \in [Tasks -> Nat]
  BY DEF Board!Release, BoardTypes
<1>2. Board!Requeued(mem[t]) \in Board!BoardTask /\ Board!Requeued(mem[t]).status = "pending"
  BY RequeuedRecord DEF BoardTypes
<1>3. task \in Board!BoardTask /\ task.status = "pending"
  BY <1>2 DEF Board!BoardTask
<1> QED BY <1>1, <1>3, Saved

LEMMA FailEdits ==
    ASSUME BoardTypes, NEW t \in Tasks, NEW a, NEW r \in BOOLEAN, NEW l \in BOOLEAN,
           Board!Fail(t, a, r, l)
    PROVE  Edits(t) /\ mem'[t].status \in {"pending", "failed"}
<1> DEFINE task == Board!FailedRecord(mem[t], r, l)
<1>1. Board!Save(t, task)
  BY DEF Board!Fail
<1>0. overdraft' = overdraft \/ overdraft' = [overdraft EXCEPT ![t] = @ + 1]
  BY DEF Board!Fail
<1>2. mem[t] \in Board!BoardTask
  BY DEF BoardTypes
<1>3. task \in Board!BoardTask /\ task.status \in {"pending", "failed"}
  BY <1>2, FailedRecord
<1>4. overdraft' \in [Tasks -> Nat]
  BY <1>0 DEF BoardTypes
<1> QED BY <1>1, <1>3, <1>4, Saved

\* The methods that only change the status.
LEMMA MarkEdits ==
    ASSUME BoardTypes, NEW t \in Tasks
    PROVE  /\ \A a : Board!MarkProduced(t, a) =>
                 Edits(t) /\ mem'[t].status = "produced" /\ mem'[t].owner = mem[t].owner
           /\ \A a : Board!MarkBlocked(t, a) =>
                 Edits(t) /\ mem[t].status = "running" /\ mem'[t].status = "blocked"
           /\ Board!MarkVerifying(t) =>
                 Edits(t) /\ mem'[t].status = "verifying" /\ mem'[t].owner = mem[t].owner
           /\ Board!MarkVerified(t) => Edits(t) /\ mem'[t].status = "succeeded"
           /\ Board!MarkRepairRequired(t) => Edits(t) /\ mem'[t].status = "repair_required"
           /\ Board!RequestReplan(t) => Edits(t) /\ mem'[t].status = "replan_required"
<1>1. {"produced", "blocked", "verifying", "succeeded", "repair_required", "replan_required"}
          \subseteq Board!Status
  BY DEF Board!Status, Board!InFlight
<1> QED
  BY <1>1, Moved DEF Board!MarkProduced, Board!MarkBlocked, Board!MarkVerifying,
     Board!MarkVerified, Board!MarkRepairRequired, Board!RequestReplan

\* cancel leaves a settled record as it is.
LEMMA CancelledRecords ==
    ASSUME BoardTypes, NEW t \in Tasks
    PROVE  /\ CancelledRecord(t) \in Board!BoardTask
           /\ CancelledRecord(t).status
                 \in {"cancelled"} \cup ({mem[t].status} \cap {"succeeded", "failed", "cancelled"})
<1>1. mem[t] \in Board!BoardTask /\ "cancelled" \in Board!Status
  BY DEF BoardTypes, Board!Status
<1> QED BY <1>1, MovedRecord DEF CancelledRecord

\* release and fail, when their guards hold, and nothing else.
LEMMA ReleaseIfHeldEdits ==
    ASSUME BoardTypes, NEW t \in Tasks, ReleaseIfHeld(t)
    PROVE  (Edits(t) /\ mem'[t].status = "pending") \/ UNCHANGED board
  BY ReleaseEdits DEF ReleaseIfHeld

LEMMA FailIfOwnedEdits ==
    ASSUME BoardTypes, NEW t \in Tasks, FailIfOwned(t)
    PROVE  (Edits(t) /\ mem'[t].status \in {"pending", "failed"}) \/ UNCHANGED board
  BY FailEdits DEF FailIfOwned

-----------------------------------------------------------------------------
(* Types *)

\* The types of everything but the board.
AgentTypes ==
    /\ agent \in [Agents -> [status : AgentStatus, task : Tasks \cup {NoTask}]]
    /\ pc \in [Tasks -> Holding \cup {"none", "queued", "leaving", "finished"}]
    /\ worker \in [Tasks -> Agents \cup {NoAgent}]

VerifierTypes ==
    /\ copy \in [Tasks -> Board!BoardTask \cup {NoCopy}]
    /\ strays \subseteq [task : Tasks, copy : Board!BoardTask \cup {NoCopy}]
    /\ evidence \in [Tasks -> {"none", "without", "produced", "verified", "rejected"}]

ControlTypes ==
    /\ sched \in Results \cup {"running"}
    /\ round \in 0..MaxRounds
    /\ cancelEvent \in BOOLEAN /\ paused \in BOOLEAN
    /\ toCancel \subseteq Tasks /\ asked \subseteq Tasks
    /\ interventions \in 0..MaxInterventions /\ resumes \in 0..MaxResumes

LEMMA TypesApart == TypeOK <=> BoardTypes /\ AgentTypes /\ VerifierTypes /\ ControlTypes
  BY DEF TypeOK, BoardTypes, AgentTypes, VerifierTypes, ControlTypes

\* An agent given back, halted or reserved is an agent.
LEMMA AgentRecords ==
    ASSUME AgentTypes, NEW a \in Agents, NEW t
    PROVE  LET Agent == [status : AgentStatus, task : Tasks \cup {NoTask}]
           IN  /\ Released(a, t) \in Agent
               /\ NewAgent \in Agent
               /\ t \in Tasks => Reserved(t) \in Agent
  BY DEF AgentTypes, Released, NewAgent, Reserved, AgentStatus

LEMMA AgentMoves ==
    ASSUME AgentTypes, NEW a \in Agents
    PROVE  LET Agent == [status : AgentStatus, task : Tasks \cup {NoTask}]
           IN  /\ \A s \in AgentStatus : [agent[a] EXCEPT !.status = s] \in Agent
               /\ [agent[a] EXCEPT !.status = Halted(@)] \in Agent
               /\ [agent[a] EXCEPT !.status = "blocked"] \in Agent
               /\ [agent[a] EXCEPT !.status = "failed"] \in Agent
  BY DEF AgentTypes, Halted, AgentStatus

LEMMA StopTypes ==
    ASSUME AgentTypes, VerifierTypes, ControlTypes, NEW result \in Results, Stop(result)
    PROVE  AgentTypes' /\ VerifierTypes' /\ ControlTypes'
<1>1. AgentTypes'
  BY AgentRecords DEF Stop, AgentTypes
<1>2. VerifierTypes'
  BY DEF Stop, VerifierTypes
<1>3. ControlTypes'
  BY DEF Stop, ControlTypes, control
<1> QED BY <1>1, <1>2, <1>3

LEMMA LeaveTypes ==
    ASSUME AgentTypes, NEW t \in Tasks, Leave(t) PROVE AgentTypes'
<1>1. ASSUME worker[t] \in Agents PROVE Released(worker[t], t) \in [status : AgentStatus, task : Tasks \cup {NoTask}]
  BY <1>1, AgentRecords
<1> QED BY <1>1 DEF Leave, AgentTypes

LEMMA GoToTypes ==
    ASSUME AgentTypes, NEW t \in Tasks, NEW p \in Holding \cup {"leaving", "finished"},
           GoTo(t, p)
    PROVE  pc' \in [Tasks -> Holding \cup {"none", "queued", "leaving", "finished"}]
  BY DEF AgentTypes, GoTo

Typed == BoardTypes /\ AgentTypes /\ VerifierTypes /\ ControlTypes

LEMMA CoroutineTypes ==
    ASSUME Typed, NEW t \in Tasks, Coroutine(t) PROVE Typed'
<1> USE DEF Typed
<1>0. BoardTypes /\ UNCHANGED board => BoardTypes'
  BY DEF BoardTypes, board
<1>00. mem[t] \in Board!BoardTask
  BY DEF BoardTypes
<1>a. ASSUME UNCHANGED verifiers PROVE VerifierTypes'
  BY <1>a DEF verifiers, VerifierTypes
<1>b. ASSUME UNCHANGED <<sched, round, control>> PROVE ControlTypes'
  BY <1>b DEF control, ControlTypes
<1>c. ASSUME Return(t) PROVE AgentTypes'
  BY <1>c, GoToTypes DEF Return, AgentTypes, Holding
<1>d. ASSUME NEW p \in Holding \cup {"leaving", "finished"}, GoTo(t, p), UNCHANGED <<agent, worker>>
      PROVE  AgentTypes'
  BY <1>d, GoToTypes DEF AgentTypes
<1>1. CASE Turn(t)
  BY <1>0, <1>1, <1>a, <1>b, <1>d DEF Turn
<1>2. ASSUME NEW a \in Agents, Claim(t, a) PROVE Typed'
  <2>1. BoardTypes'
    BY <1>2, ClaimEdits, EditsKeepTypes DEF Claim
  <2>2. AgentTypes'
    <3>1. Reserved(t) \in [status : AgentStatus, task : Tasks \cup {NoTask}]
      BY AgentRecords
    <3>2. pc' \in [Tasks -> Holding \cup {"none", "queued", "leaving", "finished"}]
      BY <1>2, GoToTypes DEF Claim, Holding
    <3> QED BY <1>2, <3>1, <3>2 DEF Claim, AgentTypes
  <2>3. VerifierTypes'
    BY <1>2 DEF Claim, VerifierTypes
  <2> QED BY <1>2, <1>b, <2>1, <2>2, <2>3 DEF Claim
<1>3. CASE HookRefuses(t)
  BY <1>0, <1>3, <1>a, <1>b, ReleaseIfHeldEdits, EditsKeepTypes, LeaveTypes DEF HookRefuses
<1>4. CASE Start(t)
  <2>1. BoardTypes'
    BY <1>0, <1>4, StartEdits, ReleaseIfHeldEdits, EditsKeepTypes DEF Start
  <2>2. AgentTypes'
    BY <1>4, <1>d, LeaveTypes DEF Start, Holding
  <2> QED BY <1>4, <1>a, <1>b, <2>1, <2>2 DEF Start
<1>5. CASE Begin(t)
  <2>1. BoardTypes'
    BY <1>0, <1>5, ReleaseIfHeldEdits, EditsKeepTypes DEF Begin
  <2>2. AgentTypes'
    <3>1. ASSUME Hand(t), UNCHANGED worker PROVE AgentTypes'
      <4>1. pc' \in [Tasks -> Holding \cup {"none", "queued", "leaving", "finished"}]
        BY <3>1, GoToTypes DEF Hand, Holding
      <4>2. agent' \in [Agents -> [status : AgentStatus, task : Tasks \cup {NoTask}]]
        BY <3>1 DEF Hand, AgentTypes, AgentStatus
      <4> QED BY <3>1, <4>1, <4>2 DEF AgentTypes
    <3> QED BY <1>5, <3>1, LeaveTypes DEF Begin
  <2> QED BY <1>5, <1>a, <1>b, <2>1, <2>2 DEF Begin
<1>6. CASE WaitForHuman(t)
  <2>1. "blocked" \in Board!Status
    BY DEF Board!Status
  <2> DEFINE old == IF copy[t] = NoCopy THEN mem[t] ELSE copy[t]
             new == [old EXCEPT !.status = "blocked"]
  <2>2. old \in Board!BoardTask
    BY <1>00 DEF VerifierTypes
  <2>3. new \in Board!BoardTask
    BY <2>1, <2>2, MovedRecord
  <2>4. mem' = [mem EXCEPT ![t] = new] /\ overdraft' = overdraft
    BY <1>6 DEF WaitForHuman
  <2> HIDE DEF new, old
  <2>5. BoardTypes'
    BY <2>3, <2>4 DEF BoardTypes
  <2>6. AgentTypes'
    BY <1>6, <1>c, LeaveTypes DEF WaitForHuman
  <2>7. VerifierTypes'
    BY <1>6 DEF WaitForHuman, VerifierTypes
  <2>8. ControlTypes'
    BY <1>6 DEF WaitForHuman, ControlTypes
  <2> QED BY <2>5, <2>6, <2>7, <2>8
<1>7. CASE ReturnCancelled(t)
  <2>1. BoardTypes'
    <3>1. CASE cancelEvent
      <4>1. mem' = [mem EXCEPT ![t] = CancelledRecord(t)] /\ overdraft' = overdraft
        BY <1>7, <3>1 DEF ReturnCancelled
      <4> QED BY <4>1, CancelledRecords DEF BoardTypes
    <3>2. CASE ~cancelEvent
      BY <1>0, <1>7, <3>2, ReleaseIfHeldEdits, EditsKeepTypes DEF ReturnCancelled
    <3> QED BY <3>1, <3>2
  <2> QED BY <1>7, <1>a, <1>b, <1>c, <2>1 DEF ReturnCancelled
<1>8. CASE ReturnResult(t)
  <2>1. BoardTypes'
    BY <1>0, <1>8, MarkEdits, EditsKeepTypes DEF ReturnResult
  <2>2. AgentTypes'
    BY <1>8, <1>c, <1>d DEF ReturnResult, Holding
  <2>3. VerifierTypes'
    BY <1>8 DEF ReturnResult, VerifierTypes, Outcomes, Refused
  <2> QED BY <1>8, <1>b, <2>1, <2>2, <2>3 DEF ReturnResult
<1>9. CASE ReturnFailure(t)
  BY <1>0, <1>9, <1>a, <1>b, <1>c, FailIfOwnedEdits, EditsKeepTypes DEF ReturnFailure
<1>10. CASE Submit(t)
  <2>1. BoardTypes'
    BY <1>0, <1>10, MarkEdits, EditsKeepTypes DEF Submit
  <2>2. AgentTypes'
    BY <1>10, <1>c, <1>d DEF Submit, Holding
  <2>3. VerifierTypes'
    BY <1>10 DEF Submit, VerifierTypes, Refused
  <2> QED BY <1>10, <1>b, <2>1, <2>2, <2>3 DEF Submit
<1>11. CASE VerifierReads(t)
  <2>1. VerifierTypes'
    BY <1>00, <1>11 DEF VerifierReads, VerifierTypes
  <2>2. AgentTypes'
    BY <1>11 DEF VerifierReads, AgentTypes
  <2> QED BY <1>0, <1>11, <1>b, <2>1, <2>2 DEF VerifierReads
<1>12. CASE VerifierWrites(t)
  <2>1. copy[t] \in Board!BoardTask
    BY <1>12 DEF VerifierWrites, VerifierTypes
  <2>2. BoardTypes' /\ VerifierTypes'
    BY <1>12, <2>1 DEF VerifierWrites, BoardTypes, VerifierTypes
  <2>3. AgentTypes'
    BY <1>12, <1>d DEF VerifierWrites, Holding
  <2> QED BY <1>12, <1>b, <2>2, <2>3 DEF VerifierWrites
<1>13. CASE VerifierFindsNothing(t)
  BY <1>0, <1>13, <1>a, <1>b, <1>d DEF VerifierFindsNothing, Holding
<1>e. ASSUME SendToRepair(t) PROVE BoardTypes' /\ AgentTypes'
  BY <1>0, <1>c, <1>e, MarkEdits, EditsKeepTypes DEF SendToRepair
<1>14. CASE Rejected(t)
  <2>1. VerifierTypes'
    BY <1>14 DEF Rejected, VerifierTypes, Refused
  <2> QED BY <1>14, <1>b, <1>e, <2>1 DEF Rejected
<1>15. CASE MergeConflict(t)
  <2>1. "repair_required" \in Board!Status
    BY DEF Board!Status
  <2>2. BoardTypes'
    BY <1>00, <1>15, <2>1, MovedRecord DEF MergeConflict, Overwrite, BoardTypes
  <2> QED BY <1>15, <1>a, <1>b, <1>c, <2>2 DEF MergeConflict
<1>16. CASE VerifyEvidence(t)
  <2>1. VerifierTypes'
    BY <1>16 DEF VerifyEvidence, VerifierTypes
  <2>2. BoardTypes' /\ AgentTypes'
    BY <1>0, <1>16, <1>d, <1>e DEF VerifyEvidence, Holding
  <2> QED BY <1>16, <1>b, <2>1, <2>2 DEF VerifyEvidence
<1>17. CASE Commit(t)
  <2>1. BoardTypes'
    BY <1>0, <1>17, MarkEdits, EditsKeepTypes DEF Commit
  <2>2. VerifierTypes'
    BY <1>17 DEF Commit, VerifierTypes, Refused
  <2> QED BY <1>17, <1>b, <1>c, <2>1, <2>2 DEF Commit
<1>18. CASE End(t)
  <2>1. AgentTypes'
    <3>1. pc' \in [Tasks -> Holding \cup {"none", "queued", "leaving", "finished"}]
      BY <1>18, GoToTypes DEF End
    <3>2. ASSUME worker[t] \in Agents
          PROVE  Released(worker[t], t) \in [status : AgentStatus, task : Tasks \cup {NoTask}]
      BY <3>2, AgentRecords
    <3> QED BY <1>18, <3>1, <3>2 DEF End, AgentTypes
  <2> QED BY <1>0, <1>18, <1>a, <1>b, <2>1 DEF End
<1>19. CASE Depart(t)
  <2>1. BoardTypes'
    BY <1>0, <1>19, MarkEdits, EditsKeepTypes DEF Depart
  <2> QED BY <1>19, <1>a, <1>b, <1>d, <2>1 DEF Depart
<1> QED
  BY <1>1, <1>2, <1>3, <1>4, <1>5, <1>6, <1>7, <1>8, <1>9, <1>10, <1>11, <1>12, <1>13, <1>14,
     <1>15, <1>16, <1>17, <1>18, <1>19 DEF Coroutine

LEMMA LoopTypes ==
    ASSUME Typed, Loop PROVE Typed'
<1> USE DEF Typed
<1>0. BoardTypes /\ UNCHANGED board => BoardTypes'
  BY DEF BoardTypes, board
<1>1. CASE ObserveCancel
  <2>1. \A t \in Tasks : CancelledRecord(t) \in Board!BoardTask
    BY CancelledRecords
  <2>2. BoardTypes'
    BY <1>1, <2>1 DEF ObserveCancel, BoardTypes
  <2> QED BY <1>1, <2>2, StopTypes DEF ObserveCancel, Results
<1>2. CASE ObservePause
  BY <1>0, <1>2, StopTypes DEF ObservePause, Results
<1>3. CASE ObserveSuccess
  BY <1>0, <1>3, StopTypes DEF ObserveSuccess, Results
<1>4. CASE ExhaustRounds
  BY <1>0, <1>4, StopTypes DEF ExhaustRounds, Results
<1>5. CASE Dispatch
  <2>1. AgentTypes'
    BY <1>5 DEF Dispatch, AgentTypes, Popped
  <2>2. VerifierTypes'
    BY <1>5 DEF Dispatch, verifiers, VerifierTypes
  <2>3. ControlTypes'
    BY <1>5, SchedulerAssumption DEF Dispatch, GoesOn, control, ControlTypes, SchedulerAssumption
  <2> QED BY <1>0, <1>5, <2>1, <2>2, <2>3 DEF Dispatch
<1>6. CASE ResolveIdle
  <2>1. \E result \in Results : Stop(result)
    BY <1>6 DEF ResolveIdle, Results
  <2> QED BY <1>0, <1>6, <2>1, StopTypes DEF ResolveIdle
<1> QED BY <1>1, <1>2, <1>3, <1>4, <1>5, <1>6 DEF Loop

LEMMA StrayTypes ==
    ASSUME Typed, Stray PROVE Typed'
<1> USE DEF Typed
<1>1. PICK s \in strays : StrayReads(s) \/ StrayWrites(s)
  BY DEF Stray
<1>2. s \in [task : Tasks, copy : Board!BoardTask \cup {NoCopy}] /\ mem[s.task] \in Board!BoardTask
  BY DEF VerifierTypes, BoardTypes
<1>3. CASE StrayReads(s)
  <2>1. VerifierTypes'
    BY <1>2, <1>3 DEF StrayReads, VerifierTypes
  <2> QED BY <1>3, <2>1 DEF StrayReads, board, BoardTypes, AgentTypes, ControlTypes, control
<1>4. CASE StrayWrites(s)
  <2>1. BoardTypes'
    BY <1>2, <1>4 DEF StrayWrites, BoardTypes
  <2>2. VerifierTypes'
    BY <1>2, <1>4 DEF StrayWrites, VerifierTypes
  <2> QED BY <1>4, <2>1, <2>2 DEF StrayWrites, AgentTypes, ControlTypes, control
<1> QED BY <1>1, <1>3, <1>4

LEMMA ControlStepTypes ==
    ASSUME Typed, Control PROVE Typed'
<1> USE DEF Typed, Intervene
<1>0. BoardTypes /\ UNCHANGED board => BoardTypes'
  BY DEF BoardTypes, board
<1>00. VerifierTypes /\ UNCHANGED verifiers => VerifierTypes'
  BY DEF VerifierTypes, verifiers
<1>a. interventions < MaxInterventions => interventions + 1 \in 0..MaxInterventions
  BY SchedulerAssumption DEF ControlTypes, SchedulerAssumption
<1>1. CASE CancelRun
  <2>1. ControlTypes'
    BY <1>1, <1>a DEF CancelRun, ControlTypes
  <2> QED BY <1>0, <1>00, <1>1, <2>1 DEF CancelRun, AgentTypes
<1>2. CASE PauseRun
  <2>1. ControlTypes'
    BY <1>2, <1>a DEF PauseRun, ControlTypes
  <2>2. AgentTypes'
    <3>1. \A a \in Agents : [agent[a] EXCEPT !.status = "blocked"]
                                \in [status : AgentStatus, task : Tasks \cup {NoTask}]
      BY AgentMoves
    <3> QED BY <1>2, <3>1 DEF PauseRun, AgentTypes
  <2> QED BY <1>0, <1>00, <1>2, <2>1, <2>2 DEF PauseRun
<1>3. CASE ResumeRun
  <2>0. resumes + 1 \in 0..MaxResumes /\ 0 \in 0..MaxRounds
    BY <1>3, SchedulerAssumption DEF ResumeRun, ControlTypes, SchedulerAssumption
  <2>1. ControlTypes'
    BY <1>3, <2>0 DEF ResumeRun, ControlTypes
  <2>2. AgentTypes'
    BY <1>3, AgentRecords DEF ResumeRun, AgentTypes
  <2>3. BoardTypes'
    <3>1. \A t \in Tasks : mem[t] \in Board!BoardTask /\ Board!Requeued(mem[t]) \in Board!BoardTask
      BY RequeuedRecord DEF BoardTypes
    <3> QED BY <1>3, <3>1 DEF ResumeRun, BoardTypes
  <2> QED BY <1>00, <1>3, <2>1, <2>2, <2>3 DEF ResumeRun
<1>4. ASSUME NEW a \in Agents, StopAgent(a) PROVE Typed'
  <2>1. ControlTypes'
    BY <1>4, <1>a DEF StopAgent, ControlTypes
  <2>2. AgentTypes'
    <3>1. [agent[a] EXCEPT !.status = Halted(@)]
              \in [status : AgentStatus, task : Tasks \cup {NoTask}]
      BY AgentMoves
    <3>2. agent' = [agent EXCEPT ![a] = [agent[a] EXCEPT !.status = Halted(@)]]
      BY <1>4 DEF StopAgent, AgentTypes
    <3>3. pc' \in [Tasks -> Holding \cup {"none", "queued", "leaving", "finished"}]
      BY <1>4 DEF StopAgent, AgentTypes, Holding
    <3> QED BY <1>4, <3>1, <3>2, <3>3 DEF StopAgent, AgentTypes
  <2> QED BY <1>0, <1>00, <1>4, <2>1, <2>2 DEF StopAgent
<1>5. ASSUME NEW a \in Agents, Expire(a) PROVE Typed'
  <2>1. ControlTypes'
    BY <1>5, <1>a DEF Expire, ControlTypes
  <2>2. AgentTypes'
    <3>1. [agent[a] EXCEPT !.status = "failed"]
              \in [status : AgentStatus, task : Tasks \cup {NoTask}]
      BY AgentMoves
    <3>2. agent' = [agent EXCEPT ![a] = [agent[a] EXCEPT !.status = "failed"]]
      BY <1>5 DEF Expire
    <3> QED BY <1>5, <3>1, <3>2 DEF Expire, AgentTypes
  <2> QED BY <1>0, <1>00, <1>5, <2>1, <2>2 DEF Expire
<1>6. ASSUME NEW t \in Tasks, NEW a \in Agents, ToolCall(t, a) PROVE Typed'
  <2>1. ControlTypes'
    BY <1>6, <1>a DEF ToolCall, ControlTypes
  <2>2. BoardTypes'
    BY <1>6, MarkEdits, ClaimEdits, EditsKeepTypes DEF ToolCall
  <2> QED BY <1>00, <1>6, <2>1, <2>2 DEF ToolCall, AgentTypes
<1> QED BY <1>1, <1>2, <1>3, <1>4, <1>5, <1>6 DEF Control

LEMMA TypeStep == TypeOK /\ [Next]_vars => TypeOK'
<1> SUFFICES ASSUME Typed, [Next]_vars PROVE Typed'
  BY TypesApart, PTL DEF Typed
<1>1. CASE UNCHANGED vars
  BY <1>1 DEF vars, board, verifiers, control, Typed, BoardTypes, AgentTypes, VerifierTypes, ControlTypes
<1>2. ASSUME NEW t \in Tasks, CancelNext(t) PROVE Typed'
  <2>1. BoardTypes'
    BY <1>2, CancelledRecords DEF CancelNext, BoardTypes, Typed
  <2>2. ControlTypes'
    BY <1>2 DEF CancelNext, ControlTypes, Typed
  <2> QED BY <1>2, <2>1, <2>2 DEF CancelNext, AgentTypes, VerifierTypes, verifiers, Typed
<1> QED
  BY <1>1, <1>2, CoroutineTypes, LoopTypes, StrayTypes, ControlStepTypes DEF Next

LEMMA TypeInit == Init => TypeOK
<1>1. Init => Board!NewTask \in Board!BoardTask
  BY SchedulerAssumption DEF SchedulerAssumption, Board!NewTask, Board!BoardTask, Board!Status
<1>2. Init => BoardTypes
  BY <1>1 DEF Init, BoardTypes
<1>3. Init => AgentTypes
  BY DEF Init, AgentTypes, NewAgent, AgentStatus
<1>4. Init => VerifierTypes
  BY DEF Init, VerifierTypes
<1>5. Init => ControlTypes
  <2>1. 0 \in 0..MaxRounds /\ 0 \in 0..MaxInterventions /\ 0 \in 0..MaxResumes
    BY SchedulerAssumption DEF SchedulerAssumption
  <2> QED BY <2>1 DEF Init, ControlTypes
<1> QED BY <1>2, <1>3, <1>4, <1>5, TypesApart

\* Every variable of the scheduler keeps its type, whoever intervenes.
THEOREM TypeCorrect == Spec => []TypeOK
  BY TypeInit, TypeStep, PTL DEF Spec

-----------------------------------------------------------------------------
(* Coroutines and their agents *)

Busy(a) == agent[a].status \in {"claiming", "running", "stopping"}

\* The agent of a live coroutine is reserved for its task, or was taken from it.
HasItsAgent(t) ==
    /\ worker[t] \in Agents
    /\ agent[worker[t]].task = t
    /\ agent[worker[t]].status \in {"claiming", "running", "stopping", "stopped", "failed"}

Held(a) == \E t \in Tasks : Live(t) /\ worker[t] = a /\ agent[a].task = t

\* The inductive invariant behind ReservationHeld: two coroutines have different
\* agents because an agent names one task.
Reservations ==
    /\ \A t \in Tasks : Live(t) => HasItsAgent(t)
    /\ sched = "running" => \A a \in Agents : Busy(a) => Held(a) \/ LeftBehind(a)
    /\ sched # "running" =>
         /\ \A t \in Tasks : pc[t] = "none"
         /\ ~Hooks => \A a \in Agents : ~Busy(a)

\* What a step of the coroutine of t can do to it and to the agents.
Advances(t) ==
    /\ pc[t] \in Holding
    /\ \E p \in Holding : GoTo(t, p)
    /\ UNCHANGED <<agent, worker>>

Passes(t) ==
    /\ pc[t] \notin Holding \cup {"none", "finished"}
    /\ GoTo(t, "finished")
    /\ UNCHANGED <<agent, worker>>

Reserves(t) ==
    /\ pc[t] = "queued"
    /\ \E a \in Idle : /\ agent' = [agent EXCEPT ![a] = Reserved(t)]
                       /\ worker' = [worker EXCEPT ![t] = a]
    /\ GoTo(t, "claimed")

Puts(t) ==
    /\ pc[t] = "started" /\ MayRun(worker[t])
    /\ Hand(t)
    /\ UNCHANGED worker

GivesBack(t) ==
    /\ pc[t] \in Holding
    /\ agent' = [agent EXCEPT ![worker[t]] = Released(worker[t], t)]
    /\ worker' = [worker EXCEPT ![t] = NoAgent]
    /\ \E p \in {"leaving", "finished"} : GoTo(t, p)

Moves(t) ==
    /\ \/ Advances(t) \/ Passes(t) \/ Reserves(t) \/ Puts(t) \/ GivesBack(t)
       \/ UNCHANGED <<agent, pc, worker>>
    /\ UNCHANGED <<sched, round, resumes>>

LEMMA CoroutineMoves ==
    ASSUME NEW t \in Tasks, Coroutine(t) PROVE Moves(t)
<1> USE DEF Moves, control
<1>1. CASE Turn(t)
  BY <1>1 DEF Turn, Passes, At, Holding
<1>2. ASSUME NEW a \in Agents, Claim(t, a) PROVE Moves(t)
  BY <1>2 DEF Claim, Reserves, At
<1>3. CASE HookRefuses(t)
  BY <1>3 DEF HookRefuses, Leave, GivesBack, GoTo, At, Holding
<1>4. CASE Start(t)
  BY <1>4 DEF Start, Leave, GivesBack, Advances, GoTo, At, Holding
<1>5. CASE Begin(t)
  BY <1>5 DEF Begin, Leave, GivesBack, Puts, GoTo, At, Holding
<1>6. CASE WaitForHuman(t)
  BY <1>6 DEF WaitForHuman, Leave, Return, GivesBack, Advances, GoTo, At, Executing, Holding
<1>7. CASE ReturnCancelled(t)
  BY <1>7 DEF ReturnCancelled, Return, Advances, At, Executing, Holding
<1>8. CASE ReturnResult(t)
  BY <1>8 DEF ReturnResult, Return, Advances, At, Holding
<1>9. CASE ReturnFailure(t)
  BY <1>9 DEF ReturnFailure, Return, Advances, At, Executing, Holding
<1>10. CASE Submit(t)
  BY <1>10 DEF Submit, Return, Advances, At, Holding
<1>11. CASE VerifierReads(t)
  BY <1>11 DEF VerifierReads
<1>12. CASE VerifierWrites(t)
  BY <1>12 DEF VerifierWrites, Advances, Holding
<1>13. CASE VerifierFindsNothing(t)
  BY <1>13 DEF VerifierFindsNothing, Advances, At, Holding
<1>14. CASE Rejected(t)
  BY <1>14 DEF Rejected, SendToRepair, Return, Advances, At, Holding
<1>15. CASE MergeConflict(t)
  BY <1>15 DEF MergeConflict, Return, Advances, At, Holding
<1>16. CASE VerifyEvidence(t)
  BY <1>16 DEF VerifyEvidence, SendToRepair, Return, Advances, At, Holding
<1>17. CASE Commit(t)
  BY <1>17 DEF Commit, Return, Advances, At, Holding
<1>18. CASE End(t)
  BY <1>18 DEF End, GivesBack, GoTo, At, Holding
<1>19. CASE Depart(t)
  BY <1>19 DEF Depart, Passes, At, Holding
<1> QED
  BY <1>1, <1>2, <1>3, <1>4, <1>5, <1>6, <1>7, <1>8, <1>9, <1>10, <1>11, <1>12, <1>13, <1>14,
     <1>15, <1>16, <1>17, <1>18, <1>19 DEF Coroutine

LEMMA MovesKeepReservations ==
    ASSUME AgentTypes, Reservations, NEW t \in Tasks, Moves(t) PROVE Reservations'
<1> USE DEF Moves, GoTo, AgentTypes
<1>1. CASE Advances(t)
  <2>1. sched = "running"
    BY <1>1 DEF Reservations, Advances, Holding
  <2>2. \A u \in Tasks : Live(u)' <=> Live(u)
    BY <1>1 DEF Advances, Live
  <2> QED BY <1>1, <2>1, <2>2 DEF Reservations, Advances, HasItsAgent, Held, Busy, LeftBehind
<1>2. CASE Passes(t)
  <2>1. sched = "running"
    BY <1>2 DEF Reservations, Passes, Holding
  <2>2. \A u \in Tasks : Live(u)' <=> Live(u)
    BY <1>2 DEF Passes, Live, Holding
  <2> QED BY <1>2, <2>1, <2>2 DEF Reservations, Passes, HasItsAgent, Held, Busy, LeftBehind
<1>3. CASE Reserves(t)
  <2>1. PICK a \in Idle : /\ agent' = [agent EXCEPT ![a] = Reserved(t)]
                          /\ worker' = [worker EXCEPT ![t] = a]
    BY <1>3 DEF Reserves
  <2>2. a \in Agents /\ agent[a].status = "idle" /\ sched = "running" /\ ~Live(t)
    BY <1>3, <2>1 DEF Reservations, Reserves, Idle, Live, Holding
  <2>3. Live(t)' /\ \A u \in Tasks \ {t} : Live(u)' <=> Live(u)
    BY <1>3 DEF Reserves, Live, Holding
  <2>4. worker'[t] = a /\ \A u \in Tasks \ {t} : worker'[u] = worker[u]
    BY <2>1
  <2>5. agent'[a] = Reserved(t) /\ \A b \in Agents \ {a} : agent'[b] = agent[b]
    BY <2>1, <2>2
  <2>6. \A u \in Tasks : Live(u) => worker[u] # a
    BY <2>2 DEF Reservations, HasItsAgent
  <2>7. \A u \in Tasks : Live(u)' => HasItsAgent(u)'
    BY <2>2, <2>3, <2>4, <2>5, <2>6 DEF Reservations, HasItsAgent, Reserved
  <2>8. \A b \in Agents : Busy(b)' => Held(b)' \/ LeftBehind(b)'
    <3>1. Held(a)'
      BY <2>3, <2>4, <2>5 DEF Held, Reserved
    <3>2. ASSUME NEW b \in Agents \ {a}, Busy(b)' PROVE Held(b)' \/ LeftBehind(b)'
      <4>1. Held(b) \/ LeftBehind(b)
        BY <2>2, <2>5, <3>2 DEF Reservations, Busy
      <4>2. Held(b) => Held(b)'
        BY <2>2, <2>3, <2>4, <2>5 DEF Held
      <4> QED BY <2>5, <4>1, <4>2 DEF LeftBehind
    <3> QED BY <3>1, <3>2
  <2> QED BY <2>2, <2>7, <2>8 DEF Reservations
<1>4. CASE Puts(t)
  <2>1. sched = "running" /\ Live(t) /\ agent[worker[t]].status = "claiming" /\ worker[t] \in Agents
    BY <1>4 DEF Reservations, Puts, Live, Holding, MayRun, HasItsAgent
  <2>2. \A u \in Tasks : Live(u)' <=> Live(u)
    BY <1>4 DEF Puts, Hand, Live, Holding
  <2>3. agent' = [agent EXCEPT ![worker[t]].status = "running"] /\ worker' = worker
    BY <1>4 DEF Puts, Hand
  <2>4. \A b \in Agents : agent'[b].task = agent[b].task
    BY <2>3
  <2>5. agent'[worker[t]].status = "running" /\ \A b \in Agents \ {worker[t]} : agent'[b] = agent[b]
    BY <2>1, <2>3
  <2>6. \A u \in Tasks : Live(u)' => HasItsAgent(u)'
    BY <2>2, <2>3, <2>4, <2>5 DEF Reservations, HasItsAgent
  <2>7. \A b \in Agents : Busy(b)' => Held(b)' \/ LeftBehind(b)'
    BY <2>1, <2>2, <2>3, <2>4, <2>5 DEF Reservations, Busy, Held, LeftBehind
  <2> QED BY <2>1, <2>6, <2>7 DEF Reservations
<1>5. CASE GivesBack(t)
  <2>1. sched = "running" /\ Live(t) /\ HasItsAgent(t)
    BY <1>5 DEF Reservations, GivesBack, Live, Holding
  <2>2. ~Live(t)' /\ \A u \in Tasks \ {t} : Live(u)' <=> Live(u)
    BY <1>5 DEF GivesBack, Live, Holding
  <2>3. /\ agent' = [agent EXCEPT ![worker[t]] = Released(worker[t], t)]
        /\ worker' = [worker EXCEPT ![t] = NoAgent]
    BY <1>5 DEF GivesBack
  <2>4. agent'[worker[t]].status \notin {"claiming", "running", "stopping"}
    BY <2>1, <2>3 DEF Released, HasItsAgent
  <2>5. \A b \in Agents \ {worker[t]} : agent'[b] = agent[b]
    BY <2>3
  <2>6. \A u \in Tasks \ {t} : worker'[u] = worker[u] /\ (Live(u) => worker[u] # worker[t])
    BY <2>1, <2>3 DEF Reservations, HasItsAgent
  <2>7. \A u \in Tasks : Live(u)' => HasItsAgent(u)'
    BY <2>2, <2>5, <2>6 DEF Reservations, HasItsAgent
  <2>8. ASSUME NEW b \in Agents, Busy(b)' PROVE Held(b)' \/ LeftBehind(b)'
    <3>1. b # worker[t] /\ agent'[b] = agent[b]
      BY <2>4, <2>5, <2>8 DEF Busy
    <3>2. Held(b) \/ LeftBehind(b)
      BY <2>1, <2>8, <3>1 DEF Reservations, Busy
    <3>3. Held(b) => Held(b)'
      BY <2>1, <2>2, <2>6, <3>1 DEF Held
    <3> QED BY <3>1, <3>2, <3>3 DEF LeftBehind
  <2> QED BY <2>1, <2>7, <2>8 DEF Reservations
<1>6. CASE UNCHANGED <<agent, pc, worker>>
  BY <1>6 DEF Reservations, Live, HasItsAgent, Held, Busy, LeftBehind
<1> QED BY <1>1, <1>2, <1>3, <1>4, <1>5, <1>6

\* When the loop ends, an assignment that had begun gives its agent back; at a
\* hook, and only there, an agent may be left behind.
LEMMA StopKeepsReservations ==
    ASSUME AgentTypes, Reservations, LoopIsFree, NEW result \in Results, Stop(result)
    PROVE  Reservations'
<1>1. sched = "running" /\ sched' # "running" /\ \A t \in Tasks : pc'[t] = "none"
  BY DEF LoopIsFree, Stop, Results
<1>3. ASSUME ~Hooks, NEW a \in Agents PROVE ~Busy(a)'
  <2>1. /\ agent'[a] = IF \E t \in Tasks : worker[t] = a /\ pc[t] \in Holding \ {"claimed", "started"}
                       THEN Released(a, agent[a].task) ELSE agent[a]
    BY DEF Stop
  <2>2. CASE Busy(a)
    <3>1. PICK t \in Tasks : Live(t) /\ worker[t] = a
      BY <1>1, <1>3, <2>2 DEF Reservations, Held, LeftBehind
    <3>2. pc[t] \notin {"claimed", "started"}
      BY <1>3 DEF LoopIsFree, Suspended, HookPoints
    <3>3. agent'[a] = Released(a, agent[a].task)
      BY <2>1, <3>1, <3>2 DEF Live
    <3> QED BY <2>2, <3>3 DEF Busy, Released
  <2>3. CASE ~Busy(a)
    BY <2>1, <2>3 DEF Busy, Released
  <2> QED BY <2>2, <2>3
<1> QED BY <1>1, <1>3 DEF Reservations, Live, Holding

LEMMA LoopKeepsReservations ==
    ASSUME AgentTypes, Reservations, Loop PROVE Reservations'
<1>1. CASE Dispatch
  <2>1. sched = "running" /\ UNCHANGED <<agent, worker, sched, resumes>>
    BY <1>1 DEF Dispatch, GoesOn, LoopIsFree, control
  <2>w. PICK late : \E wave \in Waves(late) :
             pc' = [t \in Tasks |-> IF t \in wave THEN "queued" ELSE Popped[t]]
    BY <1>1 DEF Dispatch
  <2>2. PICK wave \in Waves(late) :
             pc' = [t \in Tasks |-> IF t \in wave THEN "queued" ELSE Popped[t]]
    BY <2>w
  <2>3. wave \cap Running = {}
    BY DEF Waves, Ready
  <2>4. \A t \in Tasks : Live(t)' <=> Live(t)
    BY <2>2, <2>3 DEF Live, Running, Popped, Done, Holding, AgentTypes
  <2> QED BY <2>1, <2>4 DEF Reservations, HasItsAgent, Held, Busy, LeftBehind
<1>2. ASSUME LoopIsFree, NEW result \in Results, Stop(result) PROVE Reservations'
  BY <1>2, StopKeepsReservations
<1>3. Loop => Dispatch \/ (LoopIsFree /\ \E result \in Results : Stop(result))
  BY DEF Loop, ObserveCancel, ObservePause, ObserveSuccess, ExhaustRounds, ResolveIdle, GoesOn,
     Results
<1> QED BY <1>1, <1>2, <1>3

LEMMA ControlKeepsReservations ==
    ASSUME AgentTypes, ControlTypes, Reservations, Control PROVE Reservations'
<1>1. CASE CancelRun
  BY <1>1 DEF CancelRun, Reservations, Live, HasItsAgent, Held, Busy, LeftBehind
<1>2. CASE PauseRun
  <2>1. sched = "running" /\ UNCHANGED <<pc, worker, sched, resumes>>
    BY <1>2 DEF PauseRun
  <2>2. \A a \in Agents : /\ agent'[a].task = agent[a].task
                          /\ agent[a].status # "idle" => agent'[a].status = agent[a].status
                          /\ agent[a].status = "idle" => agent'[a].status = "blocked"
    BY <1>2 DEF PauseRun, AgentTypes
  <2>3. \A t \in Tasks : Live(t) => HasItsAgent(t)'
    BY <2>1, <2>2 DEF Reservations, HasItsAgent
  <2>4. \A a \in Agents : Busy(a)' => Busy(a) /\ agent'[a].status = agent[a].status
    BY <2>2 DEF Busy
  <2> QED BY <2>1, <2>2, <2>3, <2>4 DEF Reservations, Live, Held, LeftBehind
<1>3. CASE ResumeRun
  <2>1. sched # "running" /\ sched' = "running" /\ UNCHANGED <<pc, worker>>
    BY <1>3 DEF ResumeRun
  <2>2. \A t \in Tasks : ~Live(t)'
    BY <2>1 DEF Reservations, Live, Holding
  <2>3. resumes' > 0
    <3>1. resumes \in Nat
      BY SchedulerAssumption DEF ControlTypes, SchedulerAssumption
    <3> QED BY <1>3, <3>1 DEF ResumeRun
  <2>4. ASSUME NEW a \in Agents, Busy(a)' PROVE LeftBehind(a)'
    <3>1. agent'[a].status = "stopping" /\ agent[a].status = "stopping"
      BY <1>3, <2>4 DEF ResumeRun, Busy, NewAgent
    <3>2. Hooks
      BY <2>1, <3>1 DEF Reservations, Busy
    <3> QED BY <2>3, <3>1, <3>2 DEF LeftBehind
  <2> QED BY <2>1, <2>2, <2>4 DEF Reservations
<1>4. ASSUME NEW a \in Agents, StopAgent(a) PROVE Reservations'
  <2>1. /\ agent' = [agent EXCEPT ![a].status = Halted(@)]
        /\ agent[a].status \notin {"stopping", "stopped"}
        /\ UNCHANGED <<worker, sched, resumes>>
        /\ \A t \in Tasks : Live(t)' <=> Live(t)
        /\ sched # "running" => \A t \in Tasks : pc'[t] = "none"
    BY <1>4 DEF StopAgent, Live, Holding, Reservations
  <2>2. /\ \A b \in Agents : agent'[b].task = agent[b].task
        /\ \A b \in Agents \ {a} : agent'[b] = agent[b]
        /\ agent'[a].status = Halted(agent[a].status)
    BY <2>1 DEF AgentTypes
  <2>3. \A t \in Tasks : Live(t) => HasItsAgent(t)'
    BY <2>1, <2>2 DEF Reservations, HasItsAgent, Halted
  <2>4. \A b \in Agents : Busy(b)' => Busy(b)
    BY <2>2 DEF Busy, Halted
  <2>5. \A b \in Agents : Held(b) => Held(b)'
    BY <2>1, <2>2 DEF Held
  <2>6. \A b \in Agents : LeftBehind(b) => LeftBehind(b)'
    BY <2>1, <2>2 DEF LeftBehind
  <2> QED BY <2>1, <2>3, <2>4, <2>5, <2>6 DEF Reservations
<1>5. ASSUME NEW a \in Agents, Expire(a) PROVE Reservations'
  <2>1. /\ agent' = [agent EXCEPT ![a].status = "failed"]
        /\ sched = "running" /\ UNCHANGED <<pc, worker, sched, resumes>>
    BY <1>5 DEF Expire, LoopIsFree
  <2>2. /\ \A b \in Agents : agent'[b].task = agent[b].task
        /\ \A b \in Agents \ {a} : agent'[b] = agent[b]
        /\ agent'[a].status = "failed"
    BY <2>1 DEF AgentTypes
  <2>3. \A t \in Tasks : Live(t)' => HasItsAgent(t)'
    BY <2>1, <2>2 DEF Reservations, HasItsAgent, Live
  <2>4. \A b \in Agents : Busy(b)' => b # a /\ Busy(b)
    BY <2>2 DEF Busy
  <2> QED BY <2>1, <2>2, <2>3, <2>4 DEF Reservations, Live, Held, LeftBehind
<1>6. ASSUME NEW t \in Tasks, NEW a \in Agents, ToolCall(t, a) PROVE Reservations'
  BY <1>6 DEF ToolCall, Reservations, Live, HasItsAgent, Held, Busy, LeftBehind
<1> QED BY <1>1, <1>2, <1>3, <1>4, <1>5, <1>6 DEF Control

LEMMA ReservationStep ==
    TypeOK /\ Reservations /\ [Next]_vars => Reservations'
<1> SUFFICES ASSUME AgentTypes, ControlTypes, Reservations, [Next]_vars PROVE Reservations'
  BY TypesApart
<1>1. UNCHANGED <<agent, pc, worker, sched, resumes>> => Reservations'
  BY DEF Reservations, Live, HasItsAgent, Held, Busy, LeftBehind
<1>2. UNCHANGED vars => UNCHANGED <<agent, pc, worker, sched, resumes>>
  BY DEF vars, control
<1>3. Stray => UNCHANGED <<agent, pc, worker, sched, resumes>>
  BY DEF Stray, StrayReads, StrayWrites, control
<1>4. \A t \in Tasks : CancelNext(t) => UNCHANGED <<agent, pc, worker, sched, resumes>>
  BY DEF CancelNext, control
<1> QED
  BY <1>1, <1>2, <1>3, <1>4, CoroutineMoves, MovesKeepReservations, LoopKeepsReservations,
     ControlKeepsReservations DEF Next

\* Two live coroutines hold different agents.
LEMMA ReservationsHold == Reservations => ReservationHeld
  BY DEF Reservations, HasItsAgent, Held, Busy, ReservationHeld

\* No reservation is shared, and none is leaked by a refused hook, a lost claim, a
\* conflict, a stop or a failure, whoever intervenes (parallel_scheduler.py:1304-1338).
THEOREM NoReservationIsLeaked == Spec => []ReservationHeld
<1>1. Init => Reservations
  BY DEF Init, Reservations, Live, Holding, Busy, NewAgent
<1>2. Spec => []Reservations
  BY <1>1, TypeCorrect, ReservationStep, PTL DEF Spec
<1> QED BY <1>2, ReservationsHold, PTL

-----------------------------------------------------------------------------
(* The barrier *)

\* Barrier, said of every task that has a coroutine, whether it holds an agent
\* already or not: what is queued together must be allowed to run together.
Exclusion ==
    /\ \A t \in Exclusive, u \in Tasks : t # u => ~(t \in Running /\ u \in Running)
    /\ Cardinality(Running) <= MaxConcurrency

LEMMA RunningIsFinite == IsFiniteSet(Running)
  BY SchedulerAssumption, FS_Subset DEF SchedulerAssumption, Running

\* With fewer coroutines nothing is violated.
LEMMA FewerCoroutines ==
    ASSUME Exclusion, Running' \subseteq Running PROVE Exclusion'
<1>1. Cardinality(Running') <= Cardinality(Running)
  BY RunningIsFinite, FS_Subset
<1>2. IsFiniteSet(Running')
  BY RunningIsFinite, FS_Subset
<1>3. Cardinality(Running') \in Nat /\ Cardinality(Running) \in Nat
  BY <1>2, RunningIsFinite, FS_CardinalityType
<1>4. MaxConcurrency \in Nat
  BY SchedulerAssumption DEF SchedulerAssumption
<1> QED BY <1>1, <1>3, <1>4 DEF Exclusion

\* A wave joins only what it may run beside.
LEMMA WaveKeepsExclusion ==
    ASSUME Exclusion, NEW late, NEW wave \in Waves(late), Running' = Running \cup wave PROVE Exclusion'
<1> DEFINE ready == Ready(late)
           alone == Running = {} /\ ready \cap Exclusive # {}
           pool == IF alone THEN ready \cap Exclusive ELSE ready
           capacity == IF alone THEN 1 ELSE MaxConcurrency - Cardinality(Running)
<1>1. wave \subseteq pool /\ Cardinality(wave) <= capacity
  BY DEF Waves
<1>2. /\ ready \subseteq Tasks \ Running
      /\ Running \cap Exclusive # {} => ready = {}
      /\ Running # {} => ready \cap Exclusive = {}
  BY DEF Ready
<1>3. wave \subseteq Tasks /\ wave \cap Running = {}
  BY <1>1, <1>2
<1>4. IsFiniteSet(wave) /\ Cardinality(wave) \in Nat
  BY <1>3, SchedulerAssumption, FS_Subset, FS_CardinalityType DEF SchedulerAssumption
<1>5. MaxConcurrency \in Nat \ {0}
  BY SchedulerAssumption DEF SchedulerAssumption
<1>6. Cardinality(Running) \in Nat /\ IsFiniteSet(Running)
  BY RunningIsFinite, FS_CardinalityType
<1>7. CASE alone
  <2>1. Running' = wave /\ Cardinality(wave) <= 1
    BY <1>1, <1>7
  <2>2. ASSUME NEW t \in wave, NEW u \in wave PROVE t = u
    <3>1. Cardinality(wave) = 0 \/ Cardinality(wave) = 1
      BY <1>4, <2>1
    <3> QED BY <1>4, <3>1, FS_EmptySet, FS_Singleton
  <2> QED BY <1>4, <1>5, <2>1, <2>2 DEF Exclusion
<1>8. CASE ~alone
  <2>1. Cardinality(Running') = Cardinality(Running) + Cardinality(wave)
    <3>1. Cardinality(Running \cup wave)
              = Cardinality(Running) + Cardinality(wave) - Cardinality(Running \cap wave)
      BY <1>4, <1>6, FS_Union
    <3>2. Cardinality(Running \cap wave) = 0
      BY <1>3, FS_EmptySet
    <3> QED BY <1>4, <1>6, <3>1, <3>2
  <2>2. Cardinality(Running') <= MaxConcurrency
    BY <1>1, <1>4, <1>5, <1>6, <1>8, <2>1
  <2>3. ASSUME NEW t \in Exclusive, NEW u \in Tasks, t # u, t \in Running', u \in Running'
        PROVE  FALSE
    <3>1. t \notin wave
      BY <1>1, <1>2, <1>8
    <3>2. t \in Running /\ wave = {}
      BY <1>1, <1>2, <1>8, <2>3, <3>1
    <3> QED BY <2>3, <3>2 DEF Exclusion
  <2> QED BY <2>2, <2>3 DEF Exclusion
<1> QED BY <1>7, <1>8

LEMMA ExclusionStep ==
    TypeOK /\ Reservations /\ Exclusion /\ [Next]_vars => Exclusion'
<1> SUFFICES ASSUME AgentTypes, Reservations, Exclusion, [Next]_vars PROVE Exclusion'
  BY TypesApart
<1>1. ASSUME NEW t \in Tasks, Moves(t) PROVE Running' \subseteq Running
  BY <1>1 DEF Moves, Advances, Passes, Reserves, Puts, Hand, GivesBack, GoTo, Running, Holding, AgentTypes
<1>2. ASSUME Loop PROVE Exclusion'
  <2>1. CASE Dispatch
    <3>w. PICK late : \E wave \in Waves(late) :
               pc' = [t \in Tasks |-> IF t \in wave THEN "queued" ELSE Popped[t]]
      BY <2>1 DEF Dispatch
    <3>1. PICK wave \in Waves(late) :
               pc' = [t \in Tasks |-> IF t \in wave THEN "queued" ELSE Popped[t]]
      BY <3>w
    <3>2. wave \subseteq Tasks
      BY DEF Waves, Ready
    <3>3. Running' = Running \cup wave
      BY <3>1, <3>2 DEF Running, Popped, Done
    <3> QED BY <3>3, WaveKeepsExclusion
  <2>2. ASSUME NEW result, Stop(result) PROVE Running' \subseteq Running
    BY <2>2 DEF Stop, Running
  <2>3. Loop => Dispatch \/ \E result \in Results : Stop(result)
    BY DEF Loop, ObserveCancel, ObservePause, ObserveSuccess, ExhaustRounds, ResolveIdle, Results
  <2> QED BY <1>2, <2>1, <2>2, <2>3, FewerCoroutines
<1>3. ASSUME UNCHANGED pc PROVE Exclusion'
  BY <1>3 DEF Exclusion, Running
<1>4. ASSUME NEW a \in Agents, StopAgent(a) PROVE Running' \subseteq Running
  BY <1>4 DEF StopAgent, Running
<1>5. Stray \/ UNCHANGED vars => UNCHANGED pc
  BY DEF Stray, StrayReads, StrayWrites, vars
<1>6. \A t \in Tasks : CancelNext(t) => UNCHANGED pc
  BY DEF CancelNext
<1>7. Control => UNCHANGED pc \/ \E a \in Agents : StopAgent(a)
  BY DEF Control, CancelRun, PauseRun, ResumeRun, Expire, ToolCall
<1> QED
  BY <1>1, <1>2, <1>3, <1>4, <1>5, <1>6, <1>7, CoroutineMoves, FewerCoroutines DEF Next

LEMMA ExclusionIsBarrier == Exclusion => Barrier
<1> SUFFICES ASSUME Exclusion PROVE Barrier
  OBVIOUS
<1> DEFINE live == {t \in Tasks : Live(t)}
<1>1. live \subseteq Running
  BY DEF Live, Running, Holding
<1>2. Cardinality(live) <= Cardinality(Running) /\ IsFiniteSet(live)
  BY <1>1, RunningIsFinite, FS_Subset
<1>3. Cardinality(live) \in Nat /\ Cardinality(Running) \in Nat /\ MaxConcurrency \in Nat
  BY <1>2, RunningIsFinite, FS_CardinalityType, SchedulerAssumption DEF SchedulerAssumption
<1>4. Cardinality(live) <= MaxConcurrency
  BY <1>2, <1>3 DEF Exclusion
<1>5. ASSUME NEW t \in Exclusive, NEW u \in Tasks, t # u, Live(t), Live(u) PROVE FALSE
  <2>1. t \in Tasks
    BY SchedulerAssumption DEF SchedulerAssumption
  <2> QED BY <1>1, <1>5, <2>1 DEF Exclusion
<1> QED BY <1>4, <1>5 DEF Barrier

\* An exclusive task shares the scheduler with no other one, and no wave exceeds
\* the concurrency limit (parallel_scheduler.py:349-535, docs/architecture.md:58).
THEOREM BarrierHolds == Spec => []Barrier
<1>1. Init => Reservations /\ Exclusion
  <2>1. Init => Running = {}
    BY DEF Init, Running
  <2>2. Cardinality({}) <= MaxConcurrency
    BY FS_EmptySet, SchedulerAssumption DEF SchedulerAssumption
  <2>3. Init => Exclusion
    BY <2>1, <2>2 DEF Exclusion
  <2>4. Init => Reservations
    BY DEF Init, Reservations, Live, Holding, Busy, NewAgent
  <2> QED BY <2>3, <2>4
<1>2. Spec => [](Reservations /\ Exclusion)
  BY <1>1, TypeCorrect, ReservationStep, ExclusionStep, PTL DEF Spec
<1> QED BY <1>2, ExclusionIsBarrier, PTL

\* Types, reservations and the barrier together.
THEOREM SchedulerIsSafe == Spec => []Safety
  BY TypeCorrect, NoReservationIsLeaked, BarrierHolds, PTL DEF Safety

-----------------------------------------------------------------------------
(* Evidence *)

\* The coroutine has yet to settle its task.
Working == Holding \ {"ending"}

\* A verifier thread without a coroutine has read that t succeeded.
StrayTrace(t) ==
    \E s \in strays : s.task = t /\ s.copy # NoCopy /\ s.copy.status = "succeeded"

\* Somebody holds a record that says t succeeded, and it is or may become the board's.
Traces(t) == mem[t].status = "succeeded" \/ StrayTrace(t)

\* The artifacts of the latest attempt, on their way through its verification: none
\* are refused before the verdict, and a verdict that reads the task's record finds
\* in the store what the contract names.
Settled(t) ==
    /\ pc[t] \in {"produced", "verifying", "passed"} => evidence[t] \notin {"verified", "rejected"}
    /\ pc[t] = "passed" \/ (pc[t] = "verifying" /\ copy[t] # NoCopy) => evidence[t] # "none"
    /\ pc[t] = "committing" => Backed(t)

\* What makes SucceededHasEvidence inductive: while a coroutine works on t nobody
\* knows of a success, which stays true because a task that succeeded is not
\* queued again, by a run that goes on or by one that is resumed.
Traced(t) ==
    /\ Traces(t) => Backed(t)
    /\ Settled(t)
    /\ pc[t] \in Working => ~Traces(t)
    /\ sched = "running" /\ mem[t].status = "pending" => ~Traces(t)
    /\ copy[t] # NoCopy => copy[t].status # "succeeded"
    /\ resumes = 0 /\ Traces(t) =>
         /\ mem[t].status \notin Board!InFlight \cup {"blocked", "pending"}
         /\ \A s \in strays : s.task # t

\* A verifier thread loses its coroutine where a loop ends, and there is one
\* resume at most.
FewStrays ==
    /\ resumes = 0 /\ sched = "running" => strays = {}
    /\ resumes = 0 \/ sched = "running" => \A s, r \in strays : s.task = r.task => s = r

Tracing == FewStrays /\ \A t \in Tasks : Traced(t)

\* A coroutine leaves the records and the evidence of other tasks alone, and the
\* verifier threads that have no coroutine.
LEMMA CoroutineFrame ==
    ASSUME Typed, NEW t \in Tasks, Coroutine(t), NEW u \in Tasks \ {t}
    PROVE  /\ mem'[u] = mem[u] /\ pc'[u] = pc[u] /\ worker'[u] = worker[u]
           /\ copy'[u] = copy[u] /\ evidence'[u] = evidence[u]
<1> USE DEF Typed
<1>a. Edits(t) \/ UNCHANGED board => mem'[u] = mem[u]
  BY DEF Edits, board, BoardTypes
<1>b. Moves(t)
  BY CoroutineMoves
<1>1. pc'[u] = pc[u] /\ worker'[u] = worker[u]
  BY <1>b DEF Moves, Advances, Passes, Reserves, Puts, Hand, GivesBack, GoTo, AgentTypes
<1>2. copy'[u] = copy[u] /\ evidence'[u] = evidence[u]
  BY DEF Coroutine, Turn, Claim, HookRefuses, Start, Begin, WaitForHuman, ReturnCancelled,
     ReturnResult, ReturnFailure, Submit, VerifierReads, VerifierWrites, VerifierFindsNothing,
     Rejected, MergeConflict, VerifyEvidence, Commit, End, Depart, verifiers, VerifierTypes
<1>3. Turn(t) \/ VerifierReads(t) \/ VerifierFindsNothing(t) \/ End(t) => UNCHANGED board
  BY DEF Turn, VerifierReads, VerifierFindsNothing, End
<1>4. \A a \in Agents : Claim(t, a) => Edits(t)
  BY ClaimEdits DEF Claim
<1>5. HookRefuses(t) \/ Start(t) \/ Begin(t) => Edits(t) \/ UNCHANGED board
  BY StartEdits, ReleaseIfHeldEdits DEF HookRefuses, Start, Begin
<1>6. WaitForHuman(t) \/ VerifierWrites(t) \/ MergeConflict(t) => mem'[u] = mem[u]
  BY DEF WaitForHuman, VerifierWrites, MergeConflict, Overwrite, BoardTypes
<1>7. ReturnCancelled(t) => mem'[u] = mem[u]
  BY <1>a, ReleaseIfHeldEdits DEF ReturnCancelled, BoardTypes
<1>8. ReturnResult(t) \/ Submit(t) \/ Commit(t) \/ Depart(t) => Edits(t) \/ UNCHANGED board
  BY MarkEdits DEF ReturnResult, Submit, Commit, Depart
<1>9. ReturnFailure(t) => Edits(t) \/ UNCHANGED board
  BY FailIfOwnedEdits DEF ReturnFailure
<1>10. Rejected(t) \/ VerifyEvidence(t) => Edits(t) \/ UNCHANGED board
  BY MarkEdits DEF Rejected, VerifyEvidence, SendToRepair
<1> QED
  BY <1>a, <1>1, <1>2, <1>3, <1>4, <1>5, <1>6, <1>7, <1>8, <1>9, <1>10 DEF Coroutine

LEMMA CoroutineKeepsStrays ==
    ASSUME NEW t \in Tasks, Coroutine(t) PROVE UNCHANGED <<strays, sched, resumes>>
  BY DEF Coroutine, Turn, Claim, HookRefuses, Start, Begin, WaitForHuman, ReturnCancelled,
     ReturnResult, ReturnFailure, Submit, VerifierReads, VerifierWrites, VerifierFindsNothing,
     Rejected, MergeConflict, VerifyEvidence, Commit, End, Depart, verifiers, control

LEMMA CoroutineRuns ==
    ASSUME NEW t \in Tasks, Coroutine(t) PROVE pc[t] # "none"
  BY DEF Coroutine, Turn, Claim, HookRefuses, Start, Begin, WaitForHuman, ReturnCancelled,
     ReturnResult, ReturnFailure, Submit, VerifierReads, VerifierWrites, VerifierFindsNothing,
     Rejected, MergeConflict, VerifyEvidence, Commit, End, Depart, At, Executing

LEMMA CoroutineIsTraced ==
    ASSUME Typed, Reservations, FewStrays, NEW t \in Tasks, Traced(t), Coroutine(t)
    PROVE  Traced(t)'
<1> DEFINE stray == StrayTrace(t)
<1>0. StrayTrace(t)' <=> stray
  BY CoroutineKeepsStrays DEF StrayTrace
<1>00. sched = "running" /\ sched' = "running" /\ resumes' = resumes /\ strays' = strays
  BY CoroutineRuns, CoroutineKeepsStrays DEF Reservations
<1>000. resumes = 0 => strays = {}
  BY <1>00 DEF FewStrays
<1> HIDE DEF stray
\* It is enough to look at the record, the copy and the evidence of t.
<1>s. SUFFICES
        /\ mem'[t].status = "succeeded" \/ stray => Backed(t)'
        /\ Settled(t)'
        /\ pc'[t] \in Working => mem'[t].status # "succeeded" /\ ~stray
        /\ mem'[t].status = "pending" => ~stray
        /\ copy'[t] # NoCopy => copy'[t].status # "succeeded"
  <2>1. strays = {} => ~StrayTrace(t)
    BY DEF StrayTrace
  <2>2. resumes = 0 => strays' = {} /\ ~StrayTrace(t)'
    BY <1>0, <1>00, <1>000, <2>1 DEF stray
  <2> QED BY <1>0, <1>00, <2>2 DEF Traced, Traces, Board!InFlight
<1>t. /\ mem[t].status = "succeeded" \/ stray => Backed(t)
      /\ Settled(t)
      /\ pc[t] \in Working => mem[t].status # "succeeded" /\ ~stray
      /\ mem[t].status = "pending" => ~stray
      /\ copy[t] # NoCopy => copy[t].status # "succeeded"
  BY <1>00 DEF Traced, Traces, stray
<1> USE DEF Typed
<1>p. \A p : GoTo(t, p) => pc'[t] = p
  BY DEF GoTo, AgentTypes
<1>u. UNCHANGED board => mem'[t] = mem[t]
  BY DEF board
<1>v. UNCHANGED verifiers => copy'[t] = copy[t] /\ evidence'[t] = evidence[t]
  BY DEF verifiers
<1>l. Leave(t) => pc'[t] = "finished"
  BY DEF Leave, AgentTypes
<1>r. Return(t) => pc'[t] = "ending"
  BY <1>p DEF Return
<1>w. Working = {"claimed", "started", "executing", "halting", "produced", "verifying",
                 "passed", "rejected", "committing"}
  BY DEF Working, Holding
\* Where the artifacts of t stay as they are, and where its verification is over.
<1>k. evidence'[t] = evidence[t] => (Backed(t)' <=> Backed(t))
  BY DEF Backed
<1>m. pc'[t] \notin {"produced", "verifying", "passed", "committing"} => Settled(t)'
  BY DEF Settled
<1>1. CASE Turn(t)
  BY <1>1, <1>k, <1>m, <1>t, <1>p, <1>u, <1>v, <1>w DEF Turn
<1>2. ASSUME NEW a \in Agents, Claim(t, a) PROVE <1>s!1
  <2>1. mem[t].status = "pending" /\ mem'[t].status = "claimed"
    BY <1>2, ClaimEdits DEF Claim
  <2>2. copy'[t] = NoCopy /\ evidence'[t] = evidence[t] /\ pc'[t] = "claimed"
    BY <1>2, <1>p DEF Claim, VerifierTypes
  <2> QED BY <1>k, <1>m, <1>t, <2>1, <2>2
<1>3. CASE HookRefuses(t)
  <2>1. pc[t] \in Working /\ (mem'[t].status = "pending" \/ mem'[t] = mem[t])
    BY <1>3, <1>u, <1>w, ReleaseIfHeldEdits DEF HookRefuses, At
  <2> QED BY <1>3, <1>k, <1>m, <1>t, <1>l, <1>v, <1>w, <2>1 DEF HookRefuses
<1>4. CASE Start(t)
  <2>1. /\ pc[t] \in Working /\ pc'[t] \in {"started", "finished"}
        /\ mem'[t].status \in {"pending", "running"} \/ mem'[t] = mem[t]
    BY <1>4, <1>l, <1>p, <1>u, <1>w, StartEdits, ReleaseIfHeldEdits DEF Start, At
  <2> QED BY <1>4, <1>k, <1>m, <1>t, <1>v, <1>w, <2>1 DEF Start
<1>5. CASE Begin(t)
  <2>1. /\ pc[t] \in Working /\ pc'[t] \in {"executing", "finished"}
        /\ mem'[t].status = "pending" \/ mem'[t] = mem[t]
    BY <1>5, <1>l, <1>p, <1>u, <1>w, ReleaseIfHeldEdits DEF Begin, Hand, At
  <2> QED BY <1>5, <1>k, <1>m, <1>t, <1>v, <1>w, <2>1 DEF Begin
<1>6. CASE WaitForHuman(t)
  <2>1. /\ pc[t] \in Working /\ pc'[t] \in {"ending", "finished"}
        /\ copy'[t] = NoCopy /\ evidence'[t] = evidence[t]
    BY <1>6, <1>l, <1>r, <1>w DEF WaitForHuman, At, Executing, VerifierTypes
  <2>2. mem'[t].status = "blocked"
    <3> DEFINE old == IF copy[t] = NoCopy THEN mem[t] ELSE copy[t]
    <3>1. mem'[t] = [old EXCEPT !.status = "blocked"] /\ old \in Board!BoardTask
      BY <1>6 DEF WaitForHuman, BoardTypes, VerifierTypes
    <3> HIDE DEF old
    <3> QED BY <3>1 DEF Board!BoardTask
  <2> QED BY <1>k, <1>m, <1>t, <1>w, <2>1, <2>2
<1>7. CASE ReturnCancelled(t)
  <2>1. pc[t] \in Working /\ pc'[t] = "ending"
    BY <1>7, <1>r, <1>w DEF ReturnCancelled, At, Executing
  <2>2. mem'[t].status # "succeeded"
    <3>1. CASE cancelEvent
      <4>1. mem'[t] = CancelledRecord(t)
        BY <1>7, <3>1 DEF ReturnCancelled, BoardTypes
      <4> QED BY <1>k, <1>m, <1>t, <2>1, <4>1, CancelledRecords
    <3>2. CASE ~cancelEvent
      BY <1>7, <1>k, <1>m, <1>t, <1>u, <2>1, <3>2, ReleaseIfHeldEdits DEF ReturnCancelled
    <3> QED BY <3>1, <3>2
  <2> QED BY <1>7, <1>k, <1>m, <1>t, <1>v, <1>w, <2>1, <2>2 DEF ReturnCancelled
<1>8. CASE ReturnResult(t)
  <2>1. /\ pc[t] \in Working /\ pc'[t] \in {"produced", "ending"} /\ copy'[t] = copy[t]
        /\ mem'[t].status = "produced" \/ mem'[t] = mem[t]
    BY <1>8, <1>p, <1>r, <1>u, <1>w, MarkEdits DEF ReturnResult, At
  <2>2. pc'[t] = "produced" => evidence'[t] \in Outcomes(t)
    BY <1>8, <1>r DEF ReturnResult, VerifierTypes
  <2>3. Settled(t)'
    BY <2>1, <2>2 DEF Settled, Outcomes
  <2> QED BY <1>t, <1>w, <2>1, <2>3
<1>9. CASE ReturnFailure(t)
  <2>1. /\ pc[t] \in Working /\ pc'[t] = "ending"
        /\ mem'[t].status \in {"pending", "failed"} \/ mem'[t] = mem[t]
    BY <1>9, <1>r, <1>u, <1>w, FailIfOwnedEdits DEF ReturnFailure, At, Executing
  <2> QED BY <1>9, <1>k, <1>m, <1>t, <1>v, <1>w, <2>1 DEF ReturnFailure
<1>10. CASE Submit(t)
  <2>1. /\ pc[t] \in Working /\ pc'[t] \in {"verifying", "ending"} /\ copy'[t] = NoCopy
        /\ mem'[t].status = "verifying" \/ mem'[t] = mem[t]
    BY <1>10, <1>p, <1>r, <1>u, <1>w, MarkEdits DEF Submit, At, VerifierTypes
  <2>2. pc[t] = "produced" /\ (pc'[t] = "verifying" => evidence'[t] = evidence[t])
    BY <1>10, <1>r DEF Submit, At
  <2>3. Settled(t)'
    BY <1>t, <2>1, <2>2 DEF Settled
  <2> QED BY <1>t, <1>w, <2>1, <2>3
<1>11. CASE VerifierReads(t)
  <2>1. /\ pc[t] \in Working /\ pc'[t] = pc[t] /\ copy'[t] = mem[t]
        /\ mem'[t] = mem[t] /\ evidence'[t] = evidence[t]
    BY <1>11, <1>u, <1>w DEF VerifierReads, VerifierTypes
  <2>2. Settled(t)'
    BY <1>11, <1>t, <2>1 DEF Settled, VerifierReads
  <2> QED BY <1>t, <2>1, <2>2
<1>12. CASE VerifierWrites(t)
  <2>1. /\ pc[t] \in Working /\ pc'[t] \in {"passed", "rejected"} /\ copy'[t] = NoCopy
        /\ mem'[t] = copy[t] /\ copy[t] # NoCopy /\ evidence'[t] = evidence[t]
    BY <1>12, <1>p, <1>w DEF VerifierWrites, VerifierTypes, BoardTypes
  <2>2. Settled(t)'
    BY <1>12, <1>t, <2>1 DEF Settled, VerifierWrites
  <2> QED BY <1>t, <1>w, <2>1, <2>2
<1>13. CASE VerifierFindsNothing(t)
  BY <1>13, <1>k, <1>m, <1>t, <1>p, <1>u, <1>v, <1>w DEF VerifierFindsNothing, At
<1>a. SendToRepair(t) => /\ mem'[t].status = "repair_required" \/ mem'[t] = mem[t]
                         /\ pc'[t] = "ending"
  BY <1>r, <1>u, MarkEdits DEF SendToRepair
<1>14. CASE Rejected(t)
  <2>1. /\ pc[t] \in Working /\ pc'[t] = "ending" /\ copy'[t] = copy[t]
        /\ mem'[t].status = "repair_required" \/ mem'[t] = mem[t]
    BY <1>14, <1>a, <1>w DEF Rejected, At
  <2> QED BY <1>k, <1>m, <1>t, <1>w, <2>1
<1>15. CASE MergeConflict(t)
  <2>1. /\ pc[t] \in Working /\ pc'[t] = "ending" /\ mem'[t].status = "repair_required"
    BY <1>15, <1>r, <1>w DEF MergeConflict, Overwrite, At, BoardTypes, Board!BoardTask
  <2> QED BY <1>15, <1>k, <1>m, <1>t, <1>v, <1>w, <2>1 DEF MergeConflict
<1>16. CASE VerifyEvidence(t)
  <2>1. /\ pc[t] \in Working /\ copy'[t] = copy[t]
        /\ mem'[t].status = "repair_required" \/ mem'[t] = mem[t]
        /\ pc'[t] \in {"committing", "ending"}
        /\ pc'[t] = "committing" =>
              evidence'[t] = (IF evidence[t] = "produced" THEN "verified" ELSE evidence[t])
    BY <1>16, <1>a, <1>p, <1>u, <1>w DEF VerifyEvidence, At, VerifierTypes
  <2>2. evidence[t] \in {"without", "produced"}
    BY <1>16, <1>t DEF VerifyEvidence, At, Settled, VerifierTypes
  <2>3. Settled(t)'
    BY <2>1, <2>2 DEF Settled, Backed
  <2> QED BY <1>t, <1>w, <2>1, <2>3
<1>17. CASE Commit(t)
  <2>1. /\ pc[t] = "committing" /\ pc'[t] = "ending" /\ copy'[t] = copy[t]
        /\ \/ mem'[t].status = "succeeded" /\ evidence'[t] = evidence[t]
           \/ mem'[t] = mem[t]
    BY <1>17, <1>r, <1>u, MarkEdits DEF Commit, At
  <2>2. Backed(t)
    BY <1>t, <2>1 DEF Settled
  <2> QED BY <1>k, <1>m, <1>t, <1>w, <2>1, <2>2
<1>18. CASE End(t)
  BY <1>18, <1>k, <1>m, <1>t, <1>p, <1>u, <1>v, <1>w DEF End, At
<1>19. CASE Depart(t)
  <2>1. pc'[t] = "finished" /\ (mem'[t].status = "replan_required" \/ mem'[t] = mem[t])
    BY <1>19, <1>p, <1>u, MarkEdits DEF Depart
  <2> QED BY <1>19, <1>k, <1>m, <1>t, <1>v, <1>w, <2>1 DEF Depart
<1> QED
  BY <1>1, <1>2, <1>3, <1>4, <1>5, <1>6, <1>7, <1>8, <1>9, <1>10, <1>11, <1>12, <1>13, <1>14,
     <1>15, <1>16, <1>17, <1>18, <1>19 DEF Coroutine

\* A step that only changes the record of t, and neither makes it succeed nor puts
\* it back in the queue, nor to work while a verifier thread remembers a success.
LEMMA RecordIsTraced ==
    ASSUME NEW t \in Tasks, Traced(t),
           pc'[t] = pc[t] \/ pc[t] \in Working \/ pc'[t] \notin Working \cup {"committing"},
           pc'[t] \in {"produced", "verifying", "passed", "committing"} => pc'[t] = pc[t],
           UNCHANGED <<evidence, copy, strays, sched, resumes>>,
           mem'[t].status = "succeeded" => mem[t].status = "succeeded",
           mem'[t].status = "pending" => mem[t].status = "pending",
           \/ mem'[t].status \notin Board!InFlight \cup {"blocked", "pending"}
           \/ mem[t].status \in Board!InFlight \cup {"blocked", "pending"}
           \/ strays = {}
    PROVE  Traced(t)'
<1>1. StrayTrace(t)' <=> StrayTrace(t)
  BY DEF StrayTrace
<1>2. Traces(t)' => Traces(t)
  BY <1>1 DEF Traces
<1>3. strays = {} => ~StrayTrace(t)
  BY DEF StrayTrace
<1>4. resumes = 0 /\ Traces(t)' =>
         /\ mem'[t].status \notin Board!InFlight \cup {"blocked", "pending"}
         /\ \A s \in strays' : s.task # t
  <2>1. SUFFICES ASSUME resumes = 0, Traces(t)'
                 PROVE  mem'[t].status \notin Board!InFlight \cup {"blocked", "pending"}
    BY <1>2 DEF Traced
  <2>2. mem[t].status \notin Board!InFlight \cup {"blocked", "pending"}
    BY <1>2, <2>1 DEF Traced
  <2>3. ASSUME strays = {} PROVE mem'[t].status = "succeeded"
    BY <1>1, <1>3, <2>1, <2>3 DEF Traces
  <2> QED BY <2>2, <2>3 DEF Board!InFlight
<1> QED BY <1>2, <1>4 DEF Traced, Settled, Backed

LEMMA StopIsTraced ==
    ASSUME Typed, Reservations, Tracing, NEW result \in Results, Stop(result), sched = "running",
           \A t \in Tasks : mem'[t] = mem[t] \/ mem'[t] = CancelledRecord(t)
    PROVE  Tracing'
<1> USE DEF Typed
<1>1. sched' # "running" /\ resumes' = resumes /\ evidence' = evidence
  BY DEF Stop, Results, control
<1>2. strays' = strays \cup
          {[task |-> t, copy |-> copy[t]] : t \in {u \in Tasks : pc[u] = "verifying"}}
  BY DEF Stop
<1>3. resumes = 0 => strays = {}
  BY DEF Tracing, FewStrays
<1>4. FewStrays'
  <2>1. resumes = 0 => \A s, r \in strays' : s.task = r.task => s = r
    BY <1>2, <1>3
  <2> QED BY <1>1, <2>1 DEF FewStrays
<1>5. ASSUME NEW t \in Tasks PROVE Traced(t)'
  <2>t. Traced(t)
    BY DEF Tracing
  <2>1. mem'[t].status = "succeeded" => mem[t].status = "succeeded" /\ mem'[t] = mem[t]
    <3>1. CancelledRecord(t) = mem[t] \/ CancelledRecord(t).status = "cancelled"
      BY CancelledRecords DEF CancelledRecord
    <3> QED BY <3>1
  <2>2. StrayTrace(t)' => StrayTrace(t)
    BY <1>2, <2>t DEF StrayTrace, Traced
  <2>3. Traces(t)' => Traces(t)
    BY <2>1, <2>2 DEF Traces
  <2>4. ASSUME resumes = 0, Traces(t)'
        PROVE  /\ mem'[t].status = "succeeded"
               /\ \A s \in strays' : s.task # t
    <3>1. ~StrayTrace(t)
      BY <1>3, <2>4 DEF StrayTrace
    <3>2. pc[t] # "verifying"
      BY <2>3, <2>4, <2>t DEF Traced, Working, Holding
    <3> QED BY <1>2, <1>3, <2>2, <2>4, <3>1, <3>2 DEF Traces
  <2>5. pc'[t] = "none" /\ copy'[t] = NoCopy
    BY DEF Stop
  <2> QED BY <1>1, <2>3, <2>4, <2>5, <2>t DEF Traced, Working, Holding, Board!InFlight, Settled, Backed
<1> QED BY <1>4, <1>5 DEF Tracing

LEMMA LoopIsTraced ==
    ASSUME Typed, Reservations, Tracing, Loop PROVE Tracing'
<1> USE DEF Typed
<1>1. CASE Dispatch
  <2>1. UNCHANGED <<mem, copy, strays, evidence, sched, resumes>>
    BY <1>1 DEF Dispatch, board, verifiers, control
  <2>2. FewStrays'
    BY <2>1 DEF Tracing, FewStrays
  <2>3. ASSUME NEW t \in Tasks PROVE Traced(t)'
    <3>1. pc'[t] = pc[t] \/ pc'[t] \in {"queued", "none"}
      BY <1>1 DEF Dispatch, Popped
    <3>2. Traced(t)
      BY DEF Tracing
    <3> QED BY <2>1, <3>1, <3>2, RecordIsTraced DEF Working, Holding
  <2> QED BY <2>2, <2>3 DEF Tracing
<1>2. CASE ~Dispatch
  <2>1. sched = "running"
    BY <1>2 DEF Loop, ObserveCancel, ObservePause, ObserveSuccess, ExhaustRounds, ResolveIdle,
       GoesOn, LoopIsFree
  <2>2. \E result \in Results : Stop(result)
    BY <1>2 DEF Loop, ObserveCancel, ObservePause, ObserveSuccess, ExhaustRounds, ResolveIdle,
       Results
  <2>3. \A t \in Tasks : mem'[t] = mem[t] \/ mem'[t] = CancelledRecord(t)
    BY <1>2 DEF Loop, ObserveCancel, ObservePause, ObserveSuccess, ExhaustRounds, ResolveIdle,
       board
  <2> QED BY <2>1, <2>2, <2>3, StopIsTraced
<1> QED BY <1>1, <1>2

LEMMA StrayIsTraced ==
    ASSUME Typed, Tracing, Stray PROVE Tracing'
<1> USE DEF Typed
<1>0. PICK s \in strays : StrayReads(s) \/ StrayWrites(s)
  BY DEF Stray
<1> DEFINE t == s.task
<1>1. UNCHANGED <<pc, evidence, sched, resumes>> /\ t \in Tasks
  BY <1>0 DEF StrayReads, StrayWrites, control, VerifierTypes
<1>2. ~(resumes = 0 /\ sched = "running")
  BY DEF Tracing, FewStrays
<1>3. CASE StrayReads(s)
  <2> DEFINE r == [s EXCEPT !.copy = mem[s.task]]
  <2>1. /\ strays' = (strays \ {s}) \cup {r} /\ UNCHANGED <<mem, copy>>
        /\ r.task = t /\ r.copy = mem[t]
    BY <1>3 DEF StrayReads, board, VerifierTypes
  <2> HIDE DEF r
  <2>2. FewStrays'
    BY <1>1, <1>2, <2>1 DEF Tracing, FewStrays
  <2>3. ASSUME NEW u \in Tasks PROVE Traced(u)'
    <3>t. Traced(u)
      BY DEF Tracing
    <3>1. StrayTrace(u)' => StrayTrace(u) \/ (u = t /\ mem[u].status = "succeeded")
      BY <2>1 DEF StrayTrace
    <3>2. Traces(u)' => Traces(u)
      BY <2>1, <3>1 DEF Traces
    <3>3. (\A q \in strays : q.task # u) => \A q \in strays' : q.task # u
      BY <2>1
    <3> QED BY <1>1, <2>1, <3>2, <3>3, <3>t DEF Traced, Settled, Backed
  <2> QED BY <2>2, <2>3 DEF Tracing
<1>4. CASE StrayWrites(s)
  <2>1. /\ s.copy # NoCopy /\ mem' = [mem EXCEPT ![t] = s.copy] /\ strays' = strays \ {s}
        /\ \A u \in Tasks :
              \/ copy'[u] = copy[u]
              \/ /\ u = t /\ copy'[t] = mem[t]
                 /\ pc[t] \in {"claimed", "started", "executing", "halting"}
    BY <1>1, <1>4 DEF StrayWrites, VerifierTypes
  <2>2. FewStrays'
    BY <1>1, <1>2, <2>1 DEF Tracing, FewStrays
  <2>3. ASSUME NEW u \in Tasks PROVE Traced(u)'
    <3>t. Traced(u)
      BY DEF Tracing
    <3>1. StrayTrace(u)' => StrayTrace(u)
      BY <2>1 DEF StrayTrace
    <3>2. CASE u # t
      <4>1. mem'[u] = mem[u] /\ copy'[u] = copy[u]
        BY <1>1, <2>1, <3>2 DEF BoardTypes
      <4>2. Traces(u)' => Traces(u)
        BY <3>1, <4>1 DEF Traces
      <4> QED BY <1>1, <2>1, <3>t, <4>1, <4>2 DEF Traced, Settled, Backed
    <3>3. CASE u = t
      <4>1. mem'[t] = s.copy
        BY <1>1, <2>1 DEF BoardTypes
      <4>2. Traces(t)' => Traces(t)
        BY <1>1, <2>1, <3>1, <3>3, <4>1 DEF Traces, StrayTrace
      <4>3. resumes # 0 \/ ~Traces(t)
        BY <3>3, <3>t DEF Traced
      <4>4. sched = "running" => ~StrayTrace(t)'
        BY <1>1, <2>1 DEF StrayTrace, Tracing, FewStrays
      <4>5. copy'[t] # NoCopy => copy'[t].status # "succeeded"
        BY <1>1, <2>1, <3>3, <3>t DEF Traced, Traces, Working, Holding
      <4>6. Settled(t)' /\ Backed(t)' = Backed(t)
        BY <1>1, <2>1, <3>3, <3>t DEF Traced, Settled, Backed
      <4> QED BY <1>1, <3>3, <3>t, <4>2, <4>3, <4>4, <4>5, <4>6 DEF Traced, Traces
    <3> QED BY <3>2, <3>3
  <2> QED BY <2>2, <2>3 DEF Tracing
<1> QED BY <1>0, <1>3, <1>4

\* Cancelling a record.
LEMMA BoardIsTraced ==
    ASSUME Typed, Tracing, NEW t \in Tasks, CancelNext(t)
    PROVE  Tracing'
<1> USE DEF Typed
<1>1. UNCHANGED <<pc, evidence, copy, strays, sched, resumes>>
  BY DEF CancelNext, verifiers, control
<1>2. FewStrays'
  BY <1>1 DEF Tracing, FewStrays
<1>3. ASSUME NEW u \in Tasks PROVE Traced(u)'
  <2>1. mem'[u].status = mem[u].status \/ mem'[u].status = "cancelled"
    <3>1. mem'[u] = mem[u] \/ mem'[u] = CancelledRecord(u)
      BY DEF CancelNext, BoardTypes
    <3> QED BY <3>1, CancelledRecords DEF CancelledRecord
  <2>2. Traced(u)
    BY DEF Tracing
  <2> QED BY <1>1, <2>1, <2>2, RecordIsTraced DEF Board!InFlight
<1> QED BY <1>2, <1>3 DEF Tracing

LEMMA ResumeIsTraced ==
    ASSUME Typed, Reservations, Tracing, ResumeRun PROVE Tracing'
<1> USE DEF Typed
<1>1. /\ sched # "running" /\ sched' = "running" /\ resumes = 0 /\ resumes' = 1
      /\ UNCHANGED <<pc, evidence, copy, strays>>
  <2>1. resumes < MaxResumes /\ resumes \in 0..MaxResumes /\ resumes' = resumes + 1
    BY DEF ResumeRun, ControlTypes
  <2>2. MaxResumes = 0 \/ MaxResumes = 1
    BY SchedulerAssumption DEF SchedulerAssumption
  <2>3. resumes = 0 /\ resumes' = 1
    BY <2>1, <2>2
  <2> QED BY <2>3 DEF ResumeRun, verifiers
<1>2. FewStrays'
  BY <1>1 DEF Tracing, FewStrays
<1>3. ASSUME NEW t \in Tasks PROVE Traced(t)'
  <2>t. Traced(t)
    BY DEF Tracing
  <2>1. \/ mem'[t] = mem[t]
        \/ /\ mem[t].status \in Board!InFlight \cup {"blocked"}
           /\ mem'[t].status = "pending"
    BY RequeuedRecord DEF ResumeRun, BoardTypes
  <2>2. StrayTrace(t)' <=> StrayTrace(t)
    BY <1>1 DEF StrayTrace
  <2>3. Traces(t)' => Traces(t) /\ mem'[t] = mem[t] /\ mem[t].status # "pending"
    BY <1>1, <2>1, <2>2, <2>t DEF Traces, Traced
  <2>4. pc[t] = "none"
    BY <1>1 DEF Reservations
  <2> QED BY <1>1, <2>3, <2>4, <2>t DEF Traced, Working, Holding, Settled, Backed
<1> QED BY <1>2, <1>3 DEF Tracing

LEMMA ToolCallIsTraced ==
    ASSUME Typed, Reservations, Tracing, NEW t \in Tasks, NEW a \in Agents, ToolCall(t, a)
    PROVE  Tracing'
<1> USE DEF Typed
<1>1. UNCHANGED <<pc, evidence, copy, strays, sched, resumes>>
  BY DEF ToolCall, verifiers
<1>2. FewStrays'
  BY <1>1 DEF Tracing, FewStrays
<1>3. sched = "running"
  BY DEF ToolCall, Reservations
<1>4. Edits(t) /\ \/ mem[t].status = "running" /\ mem'[t].status = "blocked"
                  \/ mem'[t].status = "replan_required"
                  \/ mem[t].status = "pending" /\ mem'[t].status = "claimed"
  BY MarkEdits, ClaimEdits DEF ToolCall
<1>5. ASSUME NEW u \in Tasks PROVE Traced(u)'
  <2>t. Traced(u)
    BY DEF Tracing
  <2>1. CASE u # t
    BY <1>1, <1>4, <2>1, <2>t, RecordIsTraced DEF Edits, BoardTypes, Traced, Traces, StrayTrace
  <2>2. CASE u = t
    BY <1>1, <1>4, <2>2, <2>t, RecordIsTraced DEF Board!InFlight
  <2> QED BY <2>1, <2>2
<1> QED BY <1>2, <1>5 DEF Tracing

LEMMA ControlIsTraced ==
    ASSUME Typed, Reservations, Tracing, Control PROVE Tracing'
<1> USE DEF Typed
<1>1. ASSUME UNCHANGED <<mem, evidence, copy, strays, sched, resumes>>,
             \A t \in Tasks : pc'[t] = pc[t] \/ (pc[t] = "executing" /\ pc'[t] = "halting")
      PROVE  Tracing'
  <2>1. FewStrays'
    BY <1>1 DEF Tracing, FewStrays
  <2>2. ASSUME NEW t \in Tasks PROVE Traced(t)'
    BY <1>1, RecordIsTraced DEF Tracing, Working, Holding
  <2> QED BY <2>1, <2>2 DEF Tracing
<1>2. CASE CancelRun \/ PauseRun \/ \E a \in Agents : Expire(a)
  BY <1>1, <1>2 DEF CancelRun, PauseRun, Expire, board, verifiers
<1>3. ASSUME NEW a \in Agents, StopAgent(a) PROVE Tracing'
  BY <1>1, <1>3 DEF StopAgent, board, verifiers
<1> QED BY <1>2, <1>3, ResumeIsTraced, ToolCallIsTraced DEF Control

LEMMA TracingStep ==
    TypeOK /\ Reservations /\ Tracing /\ [Next]_vars => Tracing'
<1> SUFFICES ASSUME Typed, Reservations, Tracing, [Next]_vars PROVE Tracing'
  BY TypesApart DEF Typed
<1>1. ASSUME NEW t \in Tasks, Coroutine(t) PROVE Tracing'
  <2>1. FewStrays'
    BY <1>1, CoroutineKeepsStrays DEF Tracing, FewStrays
  <2>2. Traced(t)'
    BY <1>1, CoroutineIsTraced DEF Tracing
  <2>3. ASSUME NEW u \in Tasks \ {t} PROVE Traced(u)'
    BY <1>1, CoroutineFrame, CoroutineKeepsStrays DEF Tracing, Traced, Traces, StrayTrace, Settled, Backed
  <2> QED BY <2>1, <2>2, <2>3 DEF Tracing
<1>2. CASE UNCHANGED vars
  BY <1>2 DEF vars, board, verifiers, control, Tracing, FewStrays, Traced, Traces, StrayTrace, Settled, Backed
<1> QED
  BY <1>1, <1>2, LoopIsTraced, BoardIsTraced, StrayIsTraced, ControlIsTraced DEF Next

LEMMA EvidenceInit == Init => Reservations /\ Tracing
<1>1. Init => Tracing
  BY DEF Init, Tracing, FewStrays, Traced, Traces, StrayTrace, Working, Holding, Board!NewTask, Settled, Backed
<1>2. Init => Reservations
  BY DEF Init, Reservations, Live, Holding, Busy, NewAgent
<1> QED BY <1>1, <1>2

\* No task is called succeeded over artifacts of its latest attempt that are
\* unverified or rejected, nor with an empty store if its contract names an artifact;
\* a verdict alone is enough for an attempt that handed in none.  It holds although
\* the artifacts are settled before the task, a verifier writes back a record it
\* read before its work, and the API, the tools and a resume change the record
\* meanwhile (parallel_scheduler.py:1165-1219, 1568-1571).
THEOREM SuccessHasEvidence == Spec => []SucceededHasEvidence
<1>2. Spec => []Tracing
  BY EvidenceInit, TypeCorrect, ReservationStep, TracingStep, PTL DEF Spec
<1>3. Tracing => SucceededHasEvidence
  BY DEF Tracing, Traced, Traces, SucceededHasEvidence
<1> QED BY <1>2, <1>3, PTL

-----------------------------------------------------------------------------
(* A run that nobody disturbs *)

\* The record of t is where its coroutine believes it is.
InStep(t) ==
    /\ mem[t].status # "cancelled" /\ pc[t] # "halting"
    /\ pc[t] = "claimed" => mem[t].status = "claimed" /\ mem[t].owner = worker[t]
    /\ pc[t] \in {"started", "executing"} =>
          mem[t].status = "running" /\ mem[t].owner = worker[t]
    /\ pc[t] = "produced" => mem[t].status = "produced"
    /\ pc[t] \in {"verifying", "passed", "rejected", "committing"} =>
          mem[t].status = "verifying"
    /\ pc[t] = "verifying" /\ copy[t] # NoCopy => copy[t].status = "verifying"
    /\ pc[t] \notin Working => mem[t].status \notin Board!InFlight

\* Nobody has reached into the run.
Untouched ==
    /\ ~cancelEvent /\ ~paused /\ toCancel = {} /\ resumes = 0
    /\ \A a \in Agents : agent[a].status \in {"idle", "claiming", "running"}

\* What the loop returned is what the board says.
Explained ==
    /\ sched \notin {"no_worker", "deadlock", "cancelled", "paused"}
    /\ sched = "failed" => strays = {} /\ "failed" \in Statuses
    /\ sched \in {"completed", "gated"} => strays = {} /\ AllSucceeded

\* Without intervention the board and the coroutines agree, task by task, which is
\* what leaves an idle loop with nothing it could not explain.
Undisturbed ==
    interventions = 0 =>
        /\ Untouched /\ Explained
        /\ sched = "running" => \A t \in Tasks : InStep(t)

LEMMA CoroutineInStep ==
    ASSUME Typed, Untouched, NEW t \in Tasks, InStep(t), Coroutine(t)
    PROVE  InStep(t)'
<1> USE DEF Typed
<1>p. \A p : GoTo(t, p) => pc'[t] = p
  BY DEF GoTo, AgentTypes
<1>u. UNCHANGED board => mem'[t] = mem[t]
  BY DEF board
<1>l. Leave(t) => pc'[t] = "finished"
  BY DEF Leave, AgentTypes
<1>r. Return(t) => pc'[t] = "ending"
  BY <1>p DEF Return
<1>w. /\ Working = {"claimed", "started", "executing", "halting", "produced", "verifying",
                    "passed", "rejected", "committing"}
      /\ Board!InFlight = {"claimed", "running", "produced", "verifying"}
  BY DEF Working, Holding, Board!InFlight
<1>n. ~TokenSet(t)
  BY DEF TokenSet, Untouched, InStep
\* A coroutine that is through with its task leaves it in nobody's hands.
<1>o. ASSUME pc'[t] \in {"ending", "leaving", "finished"},
             mem'[t].status \notin Board!InFlight \cup {"cancelled"}
      PROVE  InStep(t)'
  BY <1>o, <1>w DEF InStep
<1>1. CASE Turn(t)
  <2>1. pc[t] = "queued" /\ pc'[t] = "finished" /\ mem'[t] = mem[t]
    BY <1>1, <1>p, <1>u DEF Turn, At
  <2> QED BY <1>o, <1>w, <2>1 DEF InStep
<1>2. ASSUME NEW a \in Agents, Claim(t, a) PROVE InStep(t)'
  <2>1. /\ mem'[t].status = "claimed" /\ mem'[t].owner = a
        /\ pc'[t] = "claimed" /\ worker'[t] = a
    BY <1>2, <1>p, ClaimEdits DEF Claim, AgentTypes
  <2> QED BY <1>w, <2>1 DEF InStep
<1>3. CASE HookRefuses(t)
  <2>1. Holds(t, {"claimed", "running", "blocked"}) /\ pc'[t] = "finished"
    BY <1>3, <1>l DEF HookRefuses, At, Holds, InStep
  <2>2. mem'[t].status = "pending"
    BY <1>3, <2>1, ReleaseEdits DEF HookRefuses, ReleaseIfHeld
  <2> QED BY <1>o, <1>w, <2>1, <2>2
<1>4. CASE Start(t)
  <2>1. Holds(t, {"claimed"})
    BY <1>4 DEF Start, At, Holds, InStep
  <2>2. /\ mem'[t].status = "running" /\ mem'[t].owner = worker[t] /\ worker' = worker
        /\ pc'[t] = "started"
    BY <1>4, <1>p, <2>1, StartEdits DEF Start
  <2> QED BY <1>w, <2>2 DEF InStep
<1>5. CASE Begin(t)
  <2>1. Holds(t, {"claimed", "running", "blocked"})
    BY <1>5 DEF Begin, At, Holds, InStep
  <2>2. CASE MayRun(worker[t])
    <3>1. pc[t] = "started" /\ pc'[t] = "executing" /\ mem'[t] = mem[t] /\ worker' = worker
      BY <1>5, <1>p, <1>u, <2>2 DEF Begin, Hand, At
    <3> QED BY <1>w, <3>1 DEF InStep
  <2>3. CASE ~MayRun(worker[t])
    <3>1. pc'[t] = "finished" /\ mem'[t].status = "pending"
      BY <1>5, <1>l, <2>1, <2>3, ReleaseEdits DEF Begin, ReleaseIfHeld
    <3> QED BY <1>o, <1>w, <3>1
  <2> QED BY <2>2, <2>3
<1>6. CASE WaitForHuman(t)
  <2>1. pc'[t] \in {"ending", "finished"}
    BY <1>6, <1>l, <1>r DEF WaitForHuman
  <2>2. mem'[t].status = "blocked"
    <3> DEFINE old == IF copy[t] = NoCopy THEN mem[t] ELSE copy[t]
    <3>1. mem'[t] = [old EXCEPT !.status = "blocked"] /\ old \in Board!BoardTask
      BY <1>6 DEF WaitForHuman, BoardTypes, VerifierTypes
    <3> HIDE DEF old
    <3> QED BY <3>1 DEF Board!BoardTask
  <2> QED BY <1>o, <1>w, <2>1, <2>2
<1>7. CASE ReturnCancelled(t)
  BY <1>7, <1>n DEF ReturnCancelled
<1>8. CASE ReturnResult(t)
  <2>1. Holds(t, {"running"})
    BY <1>8 DEF ReturnResult, At, Holds, InStep
  <2>2. mem'[t].status = "produced" /\ pc'[t] = "produced"
    BY <1>8, <1>p, <2>1, MarkEdits DEF ReturnResult
  <2> QED BY <1>w, <2>2 DEF InStep
<1>9. CASE ReturnFailure(t)
  <2>1. mem[t].owner = worker[t] /\ pc'[t] = "ending"
    BY <1>9, <1>r DEF ReturnFailure, Executing, At, InStep
  <2>2. mem'[t].status \in {"pending", "failed"}
    BY <1>9, <2>1, FailEdits DEF ReturnFailure, FailIfOwned
  <2> QED BY <1>o, <1>w, <2>1, <2>2
<1>10. CASE Submit(t)
  <2>1. mem[t].status = "produced"
    BY <1>10 DEF Submit, At, InStep
  <2>2. mem'[t].status = "verifying" /\ pc'[t] = "verifying" /\ copy'[t] = NoCopy
    BY <1>10, <1>p, <2>1, MarkEdits DEF Submit, VerifierTypes
  <2> QED BY <1>w, <2>2 DEF InStep
<1>11. CASE VerifierReads(t)
  <2>1. pc[t] = "verifying" /\ pc'[t] = pc[t] /\ copy'[t] = mem[t] /\ mem'[t] = mem[t]
    BY <1>11, <1>u DEF VerifierReads, VerifierTypes
  <2> QED BY <1>w, <2>1 DEF InStep
<1>12. CASE VerifierWrites(t)
  <2>1. /\ pc[t] = "verifying" /\ pc'[t] \in {"passed", "rejected"}
        /\ mem'[t] = copy[t] /\ copy[t] # NoCopy
    BY <1>12, <1>p DEF VerifierWrites, BoardTypes
  <2>2. mem'[t].status = "verifying"
    BY <2>1 DEF InStep
  <2> QED BY <1>w, <2>1, <2>2 DEF InStep
<1>13. CASE VerifierFindsNothing(t)
  <2>1. pc[t] = "verifying" /\ pc'[t] = "rejected" /\ mem'[t] = mem[t]
    BY <1>13, <1>p, <1>u DEF VerifierFindsNothing, At
  <2> QED BY <1>w, <2>1 DEF InStep
<1>s. ASSUME pc[t] \in {"passed", "rejected"}, SendToRepair(t) PROVE InStep(t)'
  <2>1. mem[t].status = "verifying" /\ pc'[t] = "ending"
    BY <1>s, <1>r DEF SendToRepair, InStep
  <2>2. mem'[t].status = "repair_required"
    BY <1>s, <2>1, MarkEdits DEF SendToRepair
  <2> QED BY <1>o, <1>w, <2>1, <2>2
<1>14. CASE Rejected(t)
  BY <1>14, <1>s DEF Rejected, At
<1>15. CASE MergeConflict(t)
  <2>1. pc'[t] = "ending" /\ mem'[t].status = "repair_required"
    BY <1>15, <1>r DEF MergeConflict, Overwrite, BoardTypes, Board!BoardTask
  <2> QED BY <1>o, <1>w, <2>1
<1>16. CASE VerifyEvidence(t)
  <2>1. pc[t] = "passed"
    BY <1>16 DEF VerifyEvidence, At
  <2>2. CASE SendToRepair(t)
    BY <1>s, <2>1, <2>2
  <2>3. CASE ~SendToRepair(t)
    <3>1. pc'[t] = "committing" /\ mem'[t] = mem[t]
      BY <1>16, <1>p, <1>u, <2>3 DEF VerifyEvidence
    <3> QED BY <1>w, <2>1, <3>1 DEF InStep
  <2> QED BY <2>2, <2>3
<1>17. CASE Commit(t)
  <2>1. mem[t].status = "verifying"
    BY <1>17 DEF Commit, At, InStep
  <2>2. pc'[t] = "ending" /\ mem'[t].status = "succeeded"
    BY <1>17, <1>r, <2>1, MarkEdits DEF Commit
  <2> QED BY <1>o, <1>w, <2>2
<1>18. CASE End(t)
  <2>1. pc[t] = "ending" /\ pc'[t] = "leaving" /\ mem'[t] = mem[t]
    BY <1>18, <1>p, <1>u DEF End, At
  <2> QED BY <1>o, <1>w, <2>1 DEF InStep
<1>19. CASE Depart(t)
  <2>1. /\ pc[t] = "leaving" /\ pc'[t] = "finished"
        /\ mem'[t].status = "replan_required" \/ mem'[t] = mem[t]
    BY <1>19, <1>p, <1>u, MarkEdits DEF Depart, At
  <2> QED BY <1>o, <1>w, <2>1 DEF InStep
<1> QED
  BY <1>1, <1>2, <1>3, <1>4, <1>5, <1>6, <1>7, <1>8, <1>9, <1>10, <1>11, <1>12, <1>13, <1>14,
     <1>15, <1>16, <1>17, <1>18, <1>19 DEF Coroutine

LEMMA CoroutineIsUntouched ==
    ASSUME Typed, Untouched, NEW t \in Tasks, Coroutine(t) PROVE Untouched'
<1>1. UNCHANGED <<cancelEvent, paused, toCancel, resumes>>
  BY DEF Coroutine, Turn, Claim, HookRefuses, Start, Begin, WaitForHuman, ReturnCancelled,
     ReturnResult, ReturnFailure, Submit, VerifierReads, VerifierWrites, VerifierFindsNothing,
     Rejected, MergeConflict, VerifyEvidence, Commit, End, Depart, control
<1>2. \A a \in Agents : agent'[a].status \in {"idle", "claiming", "running"}
  <2>1. Moves(t)
    BY CoroutineMoves
  <2>2. \A a \in Agents : Released(a, t).status \in {"idle", "claiming", "running"}
    BY DEF Released, Untouched
  <2> QED BY <2>1, <2>2 DEF Moves, Advances, Passes, Reserves, Reserved, Puts, Hand, GivesBack,
       Typed, AgentTypes, Untouched
<1> QED BY <1>1, <1>2 DEF Untouched

\* What an undisturbed board holds once no coroutine runs.
LEMMA IdleStatuses ==
    ASSUME Typed, Running = {}, \A t \in Tasks : InStep(t)
    PROVE  Statuses \subseteq {"pending", "succeeded", "failed", "blocked",
                               "repair_required", "replan_required"}
<1>1. SUFFICES ASSUME NEW t \in Tasks
               PROVE  mem[t].status \in {"pending", "succeeded", "failed", "blocked",
                                         "repair_required", "replan_required"}
  BY DEF Statuses
<1>2. pc[t] \notin Working
  BY DEF Running, Working, Holding
<1>3. mem[t].status \in Board!Status
  BY DEF Typed, BoardTypes, Board!BoardTask
<1> QED BY <1>2, <1>3 DEF InStep, Board!Status

\* An idle loop whose agents are all idle waits for nobody: among the pending tasks
\* there is one that depends on none of them, and it is ready unless something it
\* needs has failed.
LEMMA IdleHasReason ==
    ASSUME Staffed, Acyclic, Typed, Reservations, Untouched, sched = "running",
           Running = {}, Ready({}) = {}, \A t \in Tasks : InStep(t),
           Statuses \cap {"blocked", "repair_required", "replan_required"} = {},
           "pending" \in Statuses
    PROVE  \E t \in Tasks : /\ mem[t].status = "pending"
                            /\ \E d \in Deps[t] : mem[d].status \in {"failed", "cancelled"}
<1> DEFINE Waiting == {t \in Tasks : mem[t].status = "pending"}
<1>1. PICK t \in Waiting : Deps[t] \cap Waiting = {}
  BY DEF Acyclic, Statuses
<1>2. t \in Tasks /\ mem[t].status = "pending" /\ Deps[t] \subseteq Tasks
  BY SchedulerAssumption DEF SchedulerAssumption
<1>3. Idle = Agents
  BY DEF Reservations, Busy, Held, Live, Running, Holding, LeftBehind, Untouched, Idle,
     Typed, ControlTypes
<1>4. CanServe[t] \cap Idle # {}
  BY <1>2, <1>3, SchedulerAssumption DEF SchedulerAssumption, Staffed
<1>5. ~DepsSatisfied(t)
  BY <1>2, <1>4 DEF Ready
<1>6. PICK d \in Deps[t] : mem[d].status # "succeeded"
  BY <1>2, <1>5 DEF DepsSatisfied, Board!DependenciesSucceeded
<1>7. d \in Tasks /\ d \notin Waiting
  BY <1>1, <1>2, <1>6
<1>8. mem[d].status = "failed"
  BY <1>6, <1>7, IdleStatuses DEF Statuses
<1> QED BY <1>2, <1>6, <1>8

LEMMA StopIsExplained ==
    ASSUME Typed, Untouched, FewStrays, NEW result \in Results, Stop(result),
           sched = "running", UNCHANGED mem, \A t \in Tasks : InStep(t),
           result \notin {"no_worker", "deadlock", "cancelled", "paused"},
           result = "failed" => Running = {} /\ "failed" \in Statuses,
           result \in {"completed", "gated"} => AllSucceeded
    PROVE  Untouched' /\ Explained'
<1>1. Untouched'
  <2>1. UNCHANGED <<cancelEvent, paused, toCancel, resumes>>
    BY DEF Stop, control
  <2>2. \A a \in Agents : Released(a, agent[a].task).status \in {"idle", "claiming", "running"}
    BY DEF Released, Untouched
  <2>3. \A a \in Agents : agent'[a] = agent[a] \/ agent'[a] = Released(a, agent[a].task)
    BY DEF Stop
  <2> QED BY <2>1, <2>2, <2>3 DEF Untouched
<1>2. strays = {}
  BY DEF FewStrays, Untouched
<1>3. ASSUME result \in {"failed", "completed", "gated"} PROVE strays' = {}
  <2>1. \A t \in Tasks : pc[t] # "verifying"
    BY <1>3 DEF Running, AllSucceeded, InStep
  <2> QED BY <1>2, <2>1 DEF Stop
<1>4. sched' = result /\ Statuses' = Statuses /\ AllSucceeded' = AllSucceeded
  BY DEF Stop, Statuses, AllSucceeded
<1> QED BY <1>1, <1>3, <1>4 DEF Explained, Results

LEMMA LoopIsExplained ==
    ASSUME Staffed, Acyclic, Typed, Reservations, FewStrays, Untouched, sched = "running",
           \A t \in Tasks : InStep(t), Loop
    PROVE  /\ Untouched' /\ Explained'
           /\ sched' = "running" => \A t \in Tasks : InStep(t)'
<1>0. ~cancelEvent /\ ~paused
  BY DEF Untouched
<1>1. CASE Dispatch
  <2>1. UNCHANGED <<mem, agent, worker, copy, sched, control>>
    BY <1>1 DEF Dispatch, board, verifiers
  <2>w. PICK late : \E wave \in Waves(late) :
             pc' = [t \in Tasks |-> IF t \in wave THEN "queued" ELSE Popped[t]]
    BY <1>1 DEF Dispatch
  <2>2. PICK wave \in Waves(late) :
             pc' = [t \in Tasks |-> IF t \in wave THEN "queued" ELSE Popped[t]]
    BY <2>w
  <2>3. ASSUME NEW t \in Tasks PROVE InStep(t)'
    <3>1. t \in wave => mem[t].status = "pending"
      BY <2>2 DEF Waves, Ready
    <3>2. pc'[t] = pc[t] \/ (pc[t] = "finished" /\ pc'[t] = "none")
                         \/ (t \in wave /\ pc'[t] = "queued")
      BY <2>2 DEF Popped, Done
    <3> QED BY <2>1, <3>1, <3>2 DEF InStep, Working, Holding, Board!InFlight
  <2> QED BY <2>1, <2>3 DEF Untouched, Explained, control
<1>2. CASE ExhaustRounds
  <2>1. Stop("incomplete") /\ UNCHANGED mem
    BY <1>2 DEF ExhaustRounds, board
  <2> QED BY <2>1, StopIsExplained DEF Results, Stop
<1>3. CASE ObserveSuccess
  <2>1. PICK result \in {"completed", "gated"} : Stop(result)
    BY <1>3 DEF ObserveSuccess
  <2>2. UNCHANGED mem /\ AllSucceeded
    BY <1>3 DEF ObserveSuccess, board
  <2> QED BY <2>1, <2>2, StopIsExplained DEF Results, Stop
<1>4. CASE ResolveIdle
  <2>1. /\ Running = {} /\ Ready({}) = {} /\ ~AllSucceeded /\ UNCHANGED mem
        /\ Statuses \subseteq {"pending", "succeeded", "failed", "blocked",
                               "repair_required", "replan_required"}
    BY <1>4, IdleStatuses DEF ResolveIdle, board
  <2> DEFINE human == {"blocked", "repair_required", "replan_required"}
             dead == {"failed", "cancelled"}
             starved == \E t \in Tasks : /\ mem[t].status = "pending"
                                         /\ \E d \in Deps[t] : mem[d].status \in dead
             result == IF Statuses \cap human # {} THEN "waiting_human"
                       ELSE IF Statuses \subseteq dead \cup {"succeeded"}
                         THEN IF "failed" \in Statuses THEN "failed" ELSE "cancelled"
                       ELSE IF starved THEN "failed"
                       ELSE IF "pending" \in Statuses THEN "no_worker"
                       ELSE "deadlock"
  <2>2. Stop(result)
    BY <1>4 DEF ResolveIdle
  <2>3. "failed" \notin Statuses => Statuses \cap human # {} \/ "pending" \in Statuses
    <3>1. Statuses \subseteq {"succeeded"} => AllSucceeded
      BY DEF Statuses, AllSucceeded
    <3> QED BY <2>1, <3>1
  <2>4. Statuses \cap human = {} /\ "pending" \in Statuses => starved
    BY <2>1, IdleHasReason
  <2>5. starved => "failed" \in Statuses
    <3>1. \A t \in Tasks : Deps[t] \subseteq Tasks /\ mem[t].status \in Statuses
      BY SchedulerAssumption DEF SchedulerAssumption, Statuses
    <3> QED BY <2>1, <3>1
  <2>6. result = "waiting_human" \/ (result = "failed" /\ "failed" \in Statuses)
    <3> HIDE DEF starved
    <3> QED BY <2>1, <2>3, <2>4, <2>5
  <2> HIDE DEF result
  <2> QED BY <2>1, <2>2, <2>6, StopIsExplained DEF Results, Stop
<1> QED BY <1>0, <1>1, <1>2, <1>3, <1>4 DEF Loop, ObserveCancel, ObservePause

LEMMA UndisturbedStep ==
    ASSUME Staffed, Acyclic
    PROVE  TypeOK /\ Reservations /\ Tracing /\ Undisturbed /\ [Next]_vars => Undisturbed'
<1> SUFFICES ASSUME Typed, Reservations, Tracing, Undisturbed, [Next]_vars, interventions' = 0
             PROVE  /\ Untouched' /\ Explained'
                    /\ sched' = "running" => \A t \in Tasks : InStep(t)'
  BY TypesApart DEF Undisturbed, Typed
<1>1. ASSUME interventions = 0 PROVE Untouched /\ Explained /\ (sched = "running" => \A t \in Tasks : InStep(t))
  BY <1>1 DEF Undisturbed
<1>2. Control => ResumeRun \/ interventions' = interventions + 1
  BY DEF Control, CancelRun, PauseRun, StopAgent, Expire, ToolCall, Intervene
<1>3. interventions = 0
  <2>1. \/ interventions' = interventions + 1
        \/ UNCHANGED interventions
    <3>1. \A t \in Tasks : Coroutine(t) => UNCHANGED interventions
      BY DEF Coroutine, Turn, Claim, HookRefuses, Start, Begin, WaitForHuman, ReturnCancelled,
         ReturnResult, ReturnFailure, Submit, VerifierReads, VerifierWrites, VerifierFindsNothing,
         Rejected, MergeConflict, VerifyEvidence, Commit, End, Depart, control
    <3>2. Loop => UNCHANGED interventions
      BY DEF Loop, ObserveCancel, ObservePause, ObserveSuccess, ExhaustRounds, ResolveIdle,
         Dispatch, Stop, control
    <3> QED
      BY <1>2, <3>1, <3>2 DEF Next, CancelNext, Stray, StrayReads, StrayWrites,
         ResumeRun, control, vars
  <2>2. interventions \in Nat
    BY DEF Typed, ControlTypes
  <2> QED BY <2>1, <2>2
<1>4. Untouched /\ Explained /\ (sched = "running" => \A t \in Tasks : InStep(t))
  BY <1>1, <1>3
<1>5. ~Control
  BY <1>2, <1>3, <1>4 DEF ResumeRun, Explained
<1>6. sched = "running" => strays = {}
  BY <1>4 DEF Tracing, FewStrays, Untouched
<1>7. ASSUME NEW t \in Tasks, Coroutine(t)
      PROVE  /\ Untouched' /\ Explained'
             /\ sched' = "running" => \A u \in Tasks : InStep(u)'
  <2>1. sched = "running" /\ sched' = "running"
    BY <1>7, CoroutineKeepsStrays, CoroutineRuns DEF Reservations
  <2>2. InStep(t)'
    BY <1>4, <1>7, <2>1, CoroutineInStep
  <2>3. ASSUME NEW u \in Tasks \ {t} PROVE InStep(u)'
    <3>1. mem'[u] = mem[u] /\ pc'[u] = pc[u] /\ copy'[u] = copy[u] /\ worker'[u] = worker[u]
      BY <1>7, CoroutineFrame
    <3> QED BY <1>4, <2>1, <3>1 DEF InStep
  <2>4. Explained'
    BY <2>1 DEF Explained
  <2> QED BY <1>4, <1>7, <2>2, <2>3, <2>4, CoroutineIsUntouched
<1>8. ASSUME Loop
      PROVE  /\ Untouched' /\ Explained'
             /\ sched' = "running" => \A t \in Tasks : InStep(t)'
  <2>1. sched = "running"
    BY <1>8 DEF Loop, ObserveCancel, ObservePause, ObserveSuccess, ExhaustRounds, ResolveIdle,
       Dispatch, GoesOn, LoopIsFree
  <2> QED BY <1>4, <1>8, <2>1, LoopIsExplained DEF Tracing
<1>9. ASSUME Stray
      PROVE  /\ Untouched' /\ Explained'
             /\ sched' = "running" => \A t \in Tasks : InStep(t)'
  <2>1. sched # "running" /\ UNCHANGED <<sched, agent, control>> /\ strays # {}
    BY <1>6, <1>9 DEF Stray, StrayReads, StrayWrites
  <2> QED BY <1>4, <2>1 DEF Untouched, Explained, control
<1>10. \A t \in Tasks : ~CancelNext(t)
  BY <1>4 DEF CancelNext, Untouched
<1>11. ASSUME UNCHANGED vars
       PROVE  /\ Untouched' /\ Explained'
              /\ sched' = "running" => \A t \in Tasks : InStep(t)'
  BY <1>4, <1>11 DEF Untouched, Explained, InStep, Statuses, AllSucceeded, vars, board,
     verifiers, control
<1> QED BY <1>5, <1>7, <1>8, <1>9, <1>10, <1>11 DEF Next

\* With an agent for every task and no circle among them, a run nobody disturbs
\* never ends for want of a worker or with tasks in flight and nobody on them, and
\* it completes or fails only as its tasks did (parallel_scheduler.py:349-737).
THEOREM UndisturbedRunsAreExplained ==
    ASSUME Staffed, Acyclic
    PROVE  Spec => []UndisturbedRunsResolve
<1>1. Init => Reservations /\ Tracing /\ Undisturbed
  BY EvidenceInit DEF Init, Undisturbed, Untouched, Explained, InStep, Working, Holding, NewAgent,
     Board!NewTask, Board!InFlight
<1>2. TypeOK /\ Reservations /\ Tracing /\ Undisturbed /\ [Next]_vars => Undisturbed'
  BY UndisturbedStep
<1>3. Spec => []Undisturbed
  BY <1>1, <1>2, TypeCorrect, ReservationStep, TracingStep, PTL DEF Spec
<1>4. Undisturbed => UndisturbedRunsResolve
  BY DEF Undisturbed, Explained, UndisturbedRunsResolve
<1> QED BY <1>3, <1>4, PTL
=============================================================================
