-------------------------- MODULE AssignmentProofs --------------------------
(***************************************************************************)
(* Theorems about TaskBoard (who holds a task) and Staffing (who there is  *)
(* to take it), for every set of tasks, agents and runs, all dependencies, *)
(* plans and requests, and every value of the bounds.                      *)
(*                                                                         *)
(* The board: all but seven actions only rewrite one cached record and     *)
(* persist it; what the invariants need of them is collected in            *)
(* MethodStep, so each such action is examined once, and the invariants    *)
(* are proved of MethodStep.                                               *)
(*                                                                         *)
(* The staffing: a step either moves the agents there are (RowsMove) or    *)
(* brings new ones to a run (Grows); each part of StaffInv is shown of     *)
(* these, and then each action to be one of them.                          *)
(***************************************************************************)
EXTENDS TaskBoard, Staffing, FiniteSetTheorems, SequenceTheorems, TLAPS

\* The inductive invariant: ownership needs the types, and the agreement of
\* cache and row needs to know that a queued row names nobody.
Inv == TypeOK /\ OwnerDiscipline /\ OwnersAgree

\* A method rewrites the record of one cached task, attributed correctly,
\* naming the worker it named before or nobody.
MethodStep ==
    \E t \in cached, task \in BoardTask :
        /\ Attributed(task)
        /\ task.owner \in {mem[t].owner, NoAgent}
        /\ Save(t, task)

-----------------------------------------------------------------------------
\* A requeued record is nobody's and well formed.
LEMMA RequeuedRecord ==
    ASSUME NEW task \in BoardTask
    PROVE  /\ Requeued(task) \in BoardTask
           /\ Requeued(task).owner = NoAgent
           /\ Requeued(task).status = "pending"
           /\ Attributed(Requeued(task))
  BY DEF Requeued, BoardTask, Status, InFlight, Attributed

\* Changing only the status of an owned record, to any status but pending,
\* keeps it well formed and attributed.
LEMMA MoveRecord ==
    ASSUME NEW task \in BoardTask, NEW s \in Status, s # "pending",
           \/ task.owner # NoAgent
           \/ s \in {"cancelled", "replan_required", "repair_required", "blocked"}
    PROVE  /\ [task EXCEPT !.status = s] \in BoardTask
           /\ [task EXCEPT !.status = s].owner = task.owner
           /\ Attributed([task EXCEPT !.status = s])
  BY DEF BoardTask, Status, InFlight, Attributed

\* What fail() leaves is well formed, and names the caller or nobody.
LEMMA FailRecord ==
    ASSUME NEW task \in BoardTask, task.owner # NoAgent,
           NEW retryable \in BOOLEAN, NEW rateLimited \in BOOLEAN
    PROVE  /\ FailedRecord(task, retryable, rateLimited) \in BoardTask
           /\ FailedRecord(task, retryable, rateLimited).owner \in {task.owner, NoAgent}
           /\ Attributed(FailedRecord(task, retryable, rateLimited))
<1> DEFINE budgeted == retryable /\ task.attempts + 1 < task.limit
           graced == ~budgeted /\ rateLimited /\ task.grace < RateLimitGrace
           again == budgeted \/ graced
           grace == IF graced THEN task.grace + 1 ELSE task.grace
           after == FailedRecord(task, retryable, rateLimited)
<1>1. after = [task EXCEPT
                  !.attempts = task.attempts + 1,
                  !.status   = IF again THEN "pending" ELSE "failed",
                  !.owner    = IF again THEN NoAgent ELSE task.owner,
                  !.grace    = grace]
  BY DEF FailedRecord
<1>2. again \in BOOLEAN
  OBVIOUS
<1>3. grace \in Nat /\ task.attempts + 1 \in Nat
  BY DEF BoardTask
<1> HIDE DEF again, graced, grace, after
<1>4. CASE again
  <2>1. after = [task EXCEPT !.attempts = task.attempts + 1, !.status = "pending",
                             !.owner = NoAgent, !.grace = grace]
    BY <1>1, <1>4, Zenon
  <2>2. after \in BoardTask /\ after.owner = NoAgent /\ after.status = "pending"
    BY <1>3, <2>1 DEF BoardTask, Status, InFlight
  <2> QED BY <2>2 DEF Attributed, InFlight, after
<1>5. CASE ~again
  <2>1. after = [task EXCEPT !.attempts = task.attempts + 1, !.status = "failed",
                             !.owner = task.owner, !.grace = grace]
    BY <1>1, <1>2, <1>5, Zenon
  <2>2. after \in BoardTask /\ after.owner = task.owner /\ after.status = "failed"
    BY <1>3, <2>1 DEF BoardTask, Status, InFlight
  <2> QED BY <2>2 DEF Attributed, InFlight, after
<1> QED BY <1>4, <1>5

\* What retry() leaves is well formed and nobody's.
LEMMA RetryRecord ==
    ASSUME NEW task \in BoardTask, NEW reset \in BOOLEAN
    PROVE  /\ RetriedRecord(task, reset) \in BoardTask
           /\ RetriedRecord(task, reset).owner = NoAgent
           /\ Attributed(RetriedRecord(task, reset))
<1> DEFINE attempts == IF reset THEN 0 ELSE task.attempts
           limit == IF ~reset /\ task.attempts >= task.limit
                    THEN task.attempts + 1 ELSE task.limit
           after == RetriedRecord(task, reset)
<1>1. /\ attempts \in Nat /\ limit \in Nat
      /\ Requeued(task) \in BoardTask /\ Requeued(task).owner = NoAgent
      /\ Requeued(task).status = "pending"
  BY RequeuedRecord DEF BoardTask
<1>0. Requeued(task).attempts = task.attempts /\ Requeued(task).limit = task.limit
  BY DEF BoardTask, Requeued
<1>2. after = [Requeued(task) EXCEPT !.attempts = attempts, !.limit = limit]
  BY <1>0, <1>1 DEF RetriedRecord
<1> HIDE DEF attempts, limit, after
<1>3. after \in BoardTask /\ after.owner = NoAgent /\ after.status = "pending"
  BY <1>1, <1>2 DEF BoardTask
<1> QED BY <1>3 DEF Attributed, InFlight, after

\* A new record is well formed and nobody's.
LEMMA NewRecord ==
    NewTask \in BoardTask /\ NewTask.owner = NoAgent /\ Attributed(NewTask)
  BY BoardAssumption DEF BoardAssumption, NewTask, BoardTask, Status, InFlight, Attributed

-----------------------------------------------------------------------------
\* The worker-owned methods other than claim are method steps.
LEMMA WorkerMethod ==
    ASSUME Inv, NEW t \in Tasks, NEW a \in Agents,
           \/ Start(t, a) \/ Release(t, a) \/ MarkProduced(t, a) \/ Complete(t, a)
           \/ MarkBlocked(t, a)
           \/ \E retryable, rateLimited \in BOOLEAN : Fail(t, a, retryable, rateLimited)
    PROVE  MethodStep
<1> mem[t] \in BoardTask
  BY DEF Inv, TypeOK
<1> USE DEF Owns
<1>1. ASSUME Start(t, a) PROVE MethodStep
  <2>1. t \in cached /\ mem[t].owner # NoAgent /\ Move(t, "running")
    BY <1>1, BoardAssumption DEF Start, BoardAssumption
  <2>2. "running" \in Status
    BY DEF Status, InFlight
  <2> QED BY <2>1, <2>2, MoveRecord DEF MethodStep, Move
<1>2. ASSUME Release(t, a) PROVE MethodStep
  <2> DEFINE after == [Requeued(mem[t]) EXCEPT !.attempts = @ + 1]
  <2>1. t \in cached /\ Save(t, after)
    BY <1>2 DEF Release
  <2>2. Requeued(mem[t]) \in BoardTask /\ Attributed(Requeued(mem[t]))
        /\ Requeued(mem[t]).owner = NoAgent
    BY RequeuedRecord
  <2>3. after \in BoardTask /\ after.owner = NoAgent /\ Attributed(after)
    BY <2>2 DEF BoardTask, Attributed
  <2> HIDE DEF after
  <2> QED BY <2>1, <2>3 DEF MethodStep
<1>3. ASSUME MarkProduced(t, a) PROVE MethodStep
  <2>1. t \in cached /\ mem[t].owner # NoAgent /\ Move(t, "produced")
    BY <1>3, BoardAssumption DEF MarkProduced, BoardAssumption
  <2>2. "produced" \in Status
    BY DEF Status, InFlight
  <2> QED BY <2>1, <2>2, MoveRecord DEF MethodStep, Move
<1>4. ASSUME MarkBlocked(t, a) PROVE MethodStep
  <2>1. t \in cached /\ mem[t].owner # NoAgent /\ Move(t, "blocked")
    BY <1>4, BoardAssumption DEF MarkBlocked, BoardAssumption
  <2>2. "blocked" \in Status
    BY DEF Status
  <2> QED BY <2>1, <2>2, MoveRecord DEF MethodStep, Move
<1>5. ASSUME NEW retryable \in BOOLEAN, NEW rateLimited \in BOOLEAN,
             Fail(t, a, retryable, rateLimited)
      PROVE  MethodStep
  <2> DEFINE after == FailedRecord(mem[t], retryable, rateLimited)
  <2>1. t \in cached /\ mem[t].owner # NoAgent /\ Save(t, after)
    BY <1>5, BoardAssumption DEF Fail, BoardAssumption
  <2>2. after \in BoardTask /\ after.owner \in {mem[t].owner, NoAgent} /\ Attributed(after)
    BY <2>1, FailRecord
  <2> HIDE DEF after
  <2> QED BY <2>1, <2>2 DEF MethodStep
<1>6. ASSUME Complete(t, a) PROVE MethodStep
  <2>1. t \in cached /\ mem[t].owner # NoAgent /\ Move(t, "succeeded")
    BY <1>6, BoardAssumption DEF Complete, BoardAssumption
  <2>2. "succeeded" \in Status
    BY DEF Status
  <2> QED BY <2>1, <2>2, MoveRecord DEF MethodStep, Move
<1> QED BY <1>1, <1>2, <1>3, <1>4, <1>5, <1>6

\* So are the control-plane methods on one cached task.
LEMMA ControlMethod ==
    ASSUME Inv, NEW t \in Tasks,
           \/ MarkVerifying(t) \/ MarkVerified(t) \/ MarkRepairRequired(t)
           \/ SupersedeWithRepair(t) \/ Cancel(t) \/ RequestReplan(t)
           \/ \E reset \in BOOLEAN : Retry(t, reset)
    PROVE  MethodStep
<1>0. mem[t] \in BoardTask /\ Attributed(mem[t])
  BY DEF Inv, TypeOK, OwnerDiscipline
<1>1. ASSUME NEW s \in {"verifying", "succeeded", "repair_required"},
             t \in cached, mem[t].status \in {"produced", "verifying"}, Move(t, s)
      PROVE  MethodStep
  <2>1. mem[t].owner # NoAgent
    BY <1>0, <1>1 DEF Attributed, InFlight
  <2>2. s \in Status /\ s # "pending"
    BY DEF Status, InFlight
  <2> QED BY <1>0, <1>1, <2>1, <2>2, MoveRecord DEF MethodStep, Move
<1>2. ASSUME NEW s \in {"cancelled", "replan_required"}, t \in cached, Move(t, s)
      PROVE  MethodStep
  <2>1. s \in Status /\ s # "pending"
    BY DEF Status
  <2> QED BY <1>0, <1>2, <2>1, MoveRecord DEF MethodStep, Move
<1>3. ASSUME SupersedeWithRepair(t) PROVE MethodStep
  BY <1>0, <1>3 DEF SupersedeWithRepair, MethodStep
<1>4. ASSUME NEW reset \in BOOLEAN, Retry(t, reset) PROVE MethodStep
  <2>1. t \in cached /\ Save(t, RetriedRecord(mem[t], reset))
    BY <1>4 DEF Retry
  <2> QED BY <1>0, <2>1, RetryRecord DEF MethodStep
<1> QED
  BY <1>1, <1>2, <1>3, <1>4
  DEF MarkVerifying, MarkVerified, MarkRepairRequired, Cancel, RequestReplan

-----------------------------------------------------------------------------
\* No action gives overdraft anything but natural numbers.
LEMMA OverdraftType ==
    ASSUME TypeOK, [Next]_vars
    PROVE  overdraft' \in [Tasks -> Nat]
<1>1. CASE UNCHANGED overdraft
  BY <1>1 DEF TypeOK
<1>2. CASE \E t \in Tasks : overdraft' = [overdraft EXCEPT ![t] = @ + 1]
  BY <1>2 DEF TypeOK
<1>3. ASSUME NEW t \in Tasks, NEW a \in Agents, WorkerCall(t, a)
      PROVE  \/ UNCHANGED overdraft
             \/ overdraft' = [overdraft EXCEPT ![t] = @ + 1]
  BY <1>3 DEF WorkerCall, Claim, Start, Release, MarkProduced, Complete, MarkBlocked, Fail
<1>4. ASSUME NEW t \in Tasks, ControlCall(t) PROVE UNCHANGED overdraft
  BY <1>4 DEF ControlCall, CreateTask, MarkVerifying, MarkVerified, MarkRepairRequired,
              SupersedeWithRepair, Retry, Cancel, RequestReplan, Get
<1>5. \/ \E c \in copies : Add(c)
      \/ PrepareForResume \/ RestoreRun \/ PurgeRun \/ UNCHANGED vars
      => UNCHANGED overdraft
  BY DEF Add, PrepareForResume, RestoreRun, PurgeRun, vars
<1> QED BY <1>1, <1>2, <1>3, <1>4, <1>5 DEF Next

\* Every step is a method step or one of the seven that are not.
LEMMA StepCases ==
    ASSUME Inv, [Next]_vars
    PROVE  \/ MethodStep
           \/ \E t \in Tasks, a \in Agents : Claim(t, a)
           \/ \E t \in Tasks : CreateTask(t) \/ Get(t)
           \/ \E c \in copies : Add(c)
           \/ PrepareForResume \/ RestoreRun \/ PurgeRun
           \/ UNCHANGED vars
  BY WorkerMethod, ControlMethod DEF Next, WorkerCall, ControlCall

-----------------------------------------------------------------------------
\* A method step preserves the invariant, and changes a worker only to nobody.
LEMMA MethodInv ==
    ASSUME Inv, MethodStep, overdraft' \in [Tasks -> Nat]
    PROVE  /\ Inv'
           /\ \A t \in Tasks : mem'[t].owner \in {mem[t].owner, NoAgent}
<1>1. PICK t \in cached, task \in BoardTask :
          /\ Attributed(task)
          /\ task.owner \in {mem[t].owner, NoAgent}
          /\ Save(t, task)
  BY DEF MethodStep
<1>2. /\ t \in Tasks
      /\ mem' = [mem EXCEPT ![t] = task]
      /\ cached' = cached /\ copies' = copies /\ revived' = revived
      /\ \/ row' = [row EXCEPT ![t] = task] /\ stored' = stored \cup {t} /\ lost' = lost
         \/ row' = row /\ stored' = stored /\ lost' \in 0..LostWriteCap
  BY <1>1, BoardAssumption DEF Inv, TypeOK, Save, Persist, BoardAssumption
<1>3. TypeOK'
  BY <1>2 DEF Inv, TypeOK
<1>4. OwnerDiscipline'
  BY <1>1, <1>2 DEF Inv, TypeOK, OwnerDiscipline
<1>5. OwnersAgree'
  BY <1>1, <1>2 DEF Inv, TypeOK, OwnersAgree
<1> QED BY <1>1, <1>2, <1>3, <1>4, <1>5 DEF Inv, TypeOK

\* claim writes the same record to cache and row.
LEMMA ClaimInv ==
    ASSUME Inv, NEW t \in Tasks, NEW a \in Agents, Claim(t, a)
    PROVE  /\ Inv' /\ row[t].owner = NoAgent
           /\ t \in revived \/ mem[t].owner = NoAgent
<1> DEFINE task == [row[t] EXCEPT !.status = "claimed", !.owner = a]
<1>1. /\ t \in cached /\ t \in stored /\ row[t].status = "pending"
      /\ row' = [row EXCEPT ![t] = task] /\ mem' = [mem EXCEPT ![t] = task]
      /\ UNCHANGED <<cached, stored, copies, overdraft, lost, revived>>
  BY DEF Claim
<1>2. task \in BoardTask /\ task.owner = a /\ task.status = "claimed"
  BY DEF Inv, TypeOK, BoardTask, Status, InFlight
<1>3. Attributed(task)
  BY <1>2, BoardAssumption DEF Attributed, InFlight, BoardAssumption
<1> HIDE DEF task
<1>4. row[t].owner = NoAgent /\ (t \in revived \/ mem[t].owner = NoAgent)
  BY <1>1 DEF Inv, OwnerDiscipline, Attributed, OwnersAgree
<1>5. TypeOK'
  BY <1>1, <1>2 DEF Inv, TypeOK
<1>6. OwnerDiscipline'
  BY <1>1, <1>3 DEF Inv, TypeOK, OwnerDiscipline
<1>7. OwnersAgree'
  BY <1>1, <1>2 DEF Inv, TypeOK, OwnersAgree
<1> QED BY <1>4, <1>5, <1>6, <1>7 DEF Inv

\* A created task is queued and nobody's, in the cache and, unless lost, in its row.
LEMMA CreateInv ==
    ASSUME Inv, NEW t \in Tasks, CreateTask(t)
    PROVE  Inv'
<1>1. /\ copies' = copies /\ revived' = revived
      /\ mem' = [mem EXCEPT ![t] = NewTask] /\ cached' = cached \cup {t}
      /\ overdraft' = overdraft
      /\ \/ row' = [row EXCEPT ![t] = NewTask] /\ stored' = stored \cup {t} /\ lost' = lost
         \/ row' = row /\ stored' = stored /\ lost' \in 0..LostWriteCap
  BY BoardAssumption DEF Inv, TypeOK, CreateTask, Persist, BoardAssumption
<1>2. TypeOK'
  BY <1>1, NewRecord DEF Inv, TypeOK
<1>3. OwnerDiscipline'
  BY <1>1, NewRecord DEF Inv, TypeOK, OwnerDiscipline
<1>4. OwnersAgree'
  BY <1>1, NewRecord DEF Inv, TypeOK, OwnersAgree
<1> QED BY <1>2, <1>3, <1>4 DEF Inv

\* What a caller makes of a copy is well formed, attributed, and names the worker
\* the copy names or nobody.
LEMMA EditedRecord ==
    ASSUME NEW t \in Tasks, NEW r \in BoardTask, Attributed(r), NEW task \in Edited(t, r)
    PROVE  task \in BoardTask /\ Attributed(task) /\ task.owner \in {r.owner, NoAgent}
<1>1. CASE task = r
  BY <1>1
<1>2. CASE task = [r EXCEPT !.status = "repair_required"]
  BY <1>2 DEF BoardTask, Status, Attributed, InFlight
<1>3. CASE task = [r EXCEPT !.status = "blocked"]
  BY <1>3 DEF BoardTask, Status, Attributed, InFlight
<1>4. CASE task = Requeued(r)
  BY <1>4, RequeuedRecord
<1> QED BY <1>1, <1>2, <1>3, <1>4 DEF Edited

\* A copy is a record the cache had.
LEMMA GetInv ==
    ASSUME Inv, NEW t \in Tasks, Get(t)
    PROVE  Inv' /\ UNCHANGED <<mem, cached, row, stored, overdraft, lost, revived>>
<1>1. /\ copies' = copies \cup {[task |-> t, record |-> mem[t]]}
      /\ UNCHANGED <<mem, cached, row, stored, overdraft, lost, revived>>
  BY DEF Get
<1>2. mem[t] \in BoardTask /\ Attributed(mem[t])
  BY DEF Inv, TypeOK, OwnerDiscipline
<1>3. TypeOK'
  BY <1>1, <1>2 DEF Inv, TypeOK
<1>4. OwnerDiscipline'
  BY <1>1, <1>2 DEF Inv, OwnerDiscipline
<1>5. OwnersAgree'
  BY <1>1 DEF Inv, OwnersAgree
<1> QED BY <1>1, <1>3, <1>4, <1>5 DEF Inv

\* An added copy names nobody, or the worker the row names, or its task is
\* counted among the revived.
LEMMA AddInv ==
    ASSUME Inv, NEW c \in copies, Add(c)
    PROVE  /\ Inv'
           /\ \A t \in (cached \cap cached') \ revived' :
                 mem[t].owner # NoAgent => mem'[t].owner \in {mem[t].owner, NoAgent}
<1> DEFINE t == c.task
<1>1. /\ t \in Tasks /\ c.record \in BoardTask /\ Attributed(c.record)
  BY DEF Inv, TypeOK, OwnerDiscipline
<1>2. PICK task \in Edited(t, c.record) :
         /\ mem' = [mem EXCEPT ![t] = task]
         /\ Persist(t, task)
         /\ revived' = IF Revives(t, task) THEN revived \cup {t} ELSE revived
  BY DEF Add
<1>3. /\ cached' = cached \cup {t}
      /\ copies' \subseteq copies
      /\ UNCHANGED overdraft
  BY DEF Add
<1>4. task \in BoardTask /\ Attributed(task)
  BY <1>1, EditedRecord
<1>5. \/ row' = [row EXCEPT ![t] = task] /\ stored' = stored \cup {t} /\ lost' = lost
      \/ row' = row /\ stored' = stored /\ lost' \in 0..LostWriteCap
  BY <1>2, BoardAssumption DEF Inv, TypeOK, Persist, BoardAssumption
<1>6. revived \subseteq revived' /\ revived' \subseteq revived \cup {t}
  BY <1>2
<1>7. \/ t \in revived'
      \/ task.owner = NoAgent
      \/ t \in stored /\ row[t].owner = task.owner
  BY <1>2, <1>6 DEF Revives
<1> HIDE DEF t
<1>8. TypeOK'
  BY <1>1, <1>2, <1>3, <1>4, <1>5, <1>6 DEF Inv, TypeOK
<1>9. OwnerDiscipline'
  BY <1>1, <1>2, <1>3, <1>4, <1>5 DEF Inv, TypeOK, OwnerDiscipline
<1>10. OwnersAgree'
  BY <1>1, <1>2, <1>3, <1>4, <1>5, <1>6, <1>7 DEF Inv, TypeOK, OwnersAgree
<1>11. \A u \in (cached \cap cached') \ revived' :
         mem[u].owner # NoAgent => mem'[u].owner \in {mem[u].owner, NoAgent}
  BY <1>1, <1>2, <1>6, <1>7 DEF Inv, TypeOK, OwnersAgree
<1> QED BY <1>8, <1>9, <1>10, <1>11 DEF Inv

\* Resuming a run hands back a set of tasks, all or only some of them durably.
LEMMA ResumeInv ==
    ASSUME Inv, PrepareForResume
    PROVE  /\ Inv'
           /\ \A t \in Tasks : mem'[t].owner \in {mem[t].owner, NoAgent}
<1>1. PICK saved \in SUBSET cached, back \in SUBSET cached :
          /\ saved \subseteq back
          /\ row' = [t \in Tasks |-> IF t \in saved THEN Requeued(mem[t]) ELSE row[t]]
          /\ mem' = [t \in Tasks |-> IF t \in back THEN Requeued(mem[t]) ELSE mem[t]]
          /\ stored' = stored \cup saved
          /\ lost' \in 0..LostWriteCap
          /\ UNCHANGED <<cached, copies, overdraft, revived>>
  <2> DEFINE left == {t \in cached : mem[t].status \in InFlight}
  <2>1. PICK saved \in SUBSET left :
          /\ row' = [t \in Tasks |-> IF t \in saved THEN Requeued(mem[t]) ELSE row[t]]
          /\ stored' = stored \cup saved
          /\ \/ /\ saved = left
                /\ mem' = [t \in Tasks |-> IF t \in left THEN Requeued(mem[t]) ELSE mem[t]]
                /\ UNCHANGED lost
             \/ /\ lost < LostWriteCap
                /\ lost' = lost + 1
                /\ \E failing \in left \ saved :
                     mem' = [t \in Tasks |-> IF t \in saved \cup {failing}
                                             THEN Requeued(mem[t]) ELSE mem[t]]
    BY DEF PrepareForResume
  <2>2. UNCHANGED <<cached, copies, overdraft, revived>> /\ left \subseteq cached
    BY DEF PrepareForResume
  <2>3. lost' \in 0..LostWriteCap
    BY <2>1, BoardAssumption DEF Inv, TypeOK, BoardAssumption
  <2>4. CASE mem' = [t \in Tasks |-> IF t \in left THEN Requeued(mem[t]) ELSE mem[t]]
    BY <2>1, <2>2, <2>3, <2>4
  <2>5. CASE \E failing \in left \ saved :
                mem' = [t \in Tasks |-> IF t \in saved \cup {failing}
                                        THEN Requeued(mem[t]) ELSE mem[t]]
    <3>1. PICK failing \in left \ saved :
                mem' = [t \in Tasks |-> IF t \in saved \cup {failing}
                                        THEN Requeued(mem[t]) ELSE mem[t]]
      BY <2>5
    <3>2. saved \cup {failing} \in SUBSET cached
      BY <2>2
    <3> QED BY <2>1, <2>2, <2>3, <3>1, <3>2
  <2> QED BY <2>1, <2>4, <2>5
<1>2. \A t \in Tasks : /\ Requeued(mem[t]) \in BoardTask
                       /\ Requeued(mem[t]).owner = NoAgent
                       /\ Attributed(Requeued(mem[t]))
  BY RequeuedRecord DEF Inv, TypeOK
<1>3. TypeOK'
  BY <1>1, <1>2 DEF Inv, TypeOK
<1>4. OwnerDiscipline'
  BY <1>1, <1>2 DEF Inv, TypeOK, OwnerDiscipline
<1>5. OwnersAgree'
  BY <1>1, <1>2 DEF Inv, TypeOK, OwnersAgree
<1> QED BY <1>1, <1>2, <1>3, <1>4, <1>5 DEF Inv

\* Restoring copies rows into records the cache did not have.
LEMMA RestoreInv ==
    ASSUME Inv, RestoreRun
    PROVE  Inv' /\ \A t \in cached : mem'[t] = mem[t]
<1>1. /\ mem' = [t \in Tasks |-> IF t \in stored \ cached THEN row[t] ELSE mem[t]]
      /\ cached' = cached \cup stored
      /\ UNCHANGED <<row, stored, copies, overdraft, lost, revived>>
  BY DEF RestoreRun
<1>2. TypeOK'
  BY <1>1 DEF Inv, TypeOK
<1>3. OwnerDiscipline' /\ OwnersAgree'
  BY <1>1 DEF Inv, TypeOK, OwnerDiscipline, OwnersAgree
<1> QED BY <1>1, <1>2, <1>3 DEF Inv, TypeOK

\* An emptied cache satisfies everything said of the cached tasks.
LEMMA PurgeInv ==
    ASSUME Inv, PurgeRun
    PROVE  Inv'
  BY NewRecord DEF Inv, TypeOK, OwnerDiscipline, OwnersAgree, PurgeRun

\* Every step preserves the inductive invariant.
LEMMA InvStep ==
    ASSUME Inv, [Next]_vars
    PROVE  Inv'
<1>1. CASE UNCHANGED vars
  BY <1>1 DEF Inv, TypeOK, OwnerDiscipline, OwnersAgree, vars
<1> QED
  BY <1>1, StepCases, OverdraftType, MethodInv, ClaimInv, CreateInv, GetInv, AddInv,
     ResumeInv, RestoreInv, PurgeInv DEF Inv

\* The empty board satisfies it.
LEMMA InvInit == Init => Inv
  BY NewRecord, BoardAssumption
  DEF Init, Inv, TypeOK, OwnerDiscipline, OwnersAgree, BoardAssumption

\* The types, the ownership discipline and the agreement of cache and row hold
\* in every reachable state, however many upserts were lost.
THEOREM BoardInvariant == Spec => [](TypeOK /\ OwnerDiscipline /\ OwnersAgree)
<1>1. Inv /\ [Next]_vars => Inv'
  BY InvStep
<1> QED BY <1>1, InvInit, PTL DEF Spec, Inv

\* Records, rows and counters keep their types.
THEOREM TypeCorrect == Spec => []TypeOK
  BY BoardInvariant, PTL

\* Types, and the agreement of cache and row on the owner of a task.
THEOREM BoardIsSafe == Spec => []Safety
  BY TypeCorrect, BoardInvariant, PTL DEF Safety

\* While no upsert has raised, every record in memory is its row: each method
\* writes both or counts a loss, and what is read back is the row (_persist,
\* claim, prepare_for_resume, restore_run).
LEMMA DurableStep ==
    ASSUME Inv, CacheIsDurable, [Next]_vars
    PROVE  CacheIsDurable'
<1> USE DEF Inv, TypeOK, CacheIsDurable
<1>1. CASE MethodStep
  BY <1>1 DEF MethodStep, Save, Persist
<1>2. CASE \E t \in Tasks, a \in Agents : Claim(t, a)
  BY <1>2 DEF Claim
<1>3. CASE \E t \in Tasks : CreateTask(t) \/ Get(t)
  BY <1>3 DEF CreateTask, Get, Persist
<1>8. ASSUME NEW c \in copies, Add(c) PROVE CacheIsDurable'
  <2> DEFINE t == c.task
  <2>1. t \in Tasks /\ cached' = cached \cup {t}
    BY <1>8 DEF Add
  <2>2. PICK task \in Edited(t, c.record) :
          mem' = [mem EXCEPT ![t] = task] /\ Persist(t, task)
    BY <1>8 DEF Add
  <2> HIDE DEF t
  <2> QED BY <2>1, <2>2 DEF Persist
<1>4. CASE PrepareForResume
  <2> SUFFICES ASSUME lost' = 0 PROVE \A t \in cached' : t \in stored' /\ mem'[t] = row'[t]
    OBVIOUS
  <2> DEFINE left == {t \in cached : mem[t].status \in InFlight}
  <2>1. /\ row' = [t \in Tasks |-> IF t \in left THEN Requeued(mem[t]) ELSE row[t]]
        /\ mem' = [t \in Tasks |-> IF t \in left THEN Requeued(mem[t]) ELSE mem[t]]
        /\ stored' = stored \cup left /\ cached' = cached /\ lost = 0
    BY <1>4 DEF PrepareForResume
  <2> QED BY <2>1
<1>5. CASE RestoreRun
  BY <1>5 DEF RestoreRun
<1>6. CASE PurgeRun
  BY <1>6 DEF PurgeRun
<1>7. CASE UNCHANGED vars
  BY <1>7 DEF vars
<1> QED
  BY StepCases, <1>1, <1>2, <1>3, <1>4, <1>5, <1>6, <1>7, <1>8

\* A restart loses nothing as long as no upsert has raised, whichever methods
\* were called in between (task_board.py).
THEOREM RecordsAreDurable == Spec => []CacheIsDurable
<1>1. Init => CacheIsDurable
  BY DEF Init, CacheIsDurable
<1>2. Inv /\ Inv' /\ CacheIsDurable /\ [Next]_vars => CacheIsDurable'
  BY DurableStep
<1>3. Spec => []Inv
  BY BoardInvariant DEF Inv
<1> QED
  BY <1>1, <1>2, <1>3, PTL DEF Spec

\* No step replaces the worker of a cached task by another one, an add() of a copy
\* included, unless an add() gave the task back to a worker its row did not name.
THEOREM ClaimsAreNotStolen == Spec => NoStolenClaim
<1> DEFINE Kept == \A t \in (cached \cap cached') \ revived' :
               mem[t].owner # NoAgent => mem'[t].owner \in {mem[t].owner, NoAgent}
<1>1. Inv /\ [Next]_vars => [Kept]_vars
  <2> SUFFICES ASSUME Inv, Next PROVE Kept
    BY DEF vars
  <2>1. CASE \E t \in Tasks, a \in Agents : Claim(t, a)
    <3>1. PICK t \in Tasks, a \in Agents : Claim(t, a)
      BY <2>1
    <3>2. (t \in revived \/ mem[t].owner = NoAgent) /\ revived' = revived
      BY <3>1, ClaimInv DEF Claim
    <3>3. \A u \in Tasks : u # t => mem'[u] = mem[u]
      BY <3>1 DEF Claim, Inv, TypeOK
    <3>4. cached \subseteq Tasks
      BY DEF Inv, TypeOK
    <3> QED
      BY <3>2, <3>3, <3>4
  <2>2. ASSUME NEW t \in Tasks, CreateTask(t) PROVE Kept
    <3>1. mem' = [mem EXCEPT ![t] = NewTask] /\ mem \in [Tasks -> BoardTask]
          /\ cached \subseteq Tasks
      BY <2>2 DEF CreateTask, Inv, TypeOK
    <3> QED BY <3>1, NewRecord
  <2>3. CASE (\E t \in Tasks : Get(t)) \/ (\E c \in copies : Add(c))
    BY <2>3, AddInv DEF Get
  <2>4. CASE PurgeRun
    BY <2>4 DEF PurgeRun
  <2>5. CASE UNCHANGED vars
    BY <2>5 DEF vars
  <2>6. CASE MethodStep \/ PrepareForResume
    <3>1. \A t \in Tasks : mem'[t].owner \in {mem[t].owner, NoAgent}
      BY <2>6, OverdraftType, MethodInv, ResumeInv DEF Inv
    <3> QED BY <3>1 DEF Inv, TypeOK
  <2>7. CASE RestoreRun
    BY <2>7, RestoreInv
  <2> QED
    BY <2>1, <2>2, <2>3, <2>4, <2>5, <2>6, <2>7, StepCases
<1>2. Spec => []Inv
  BY BoardInvariant DEF Inv
<1> QED BY <1>1, <1>2, PTL DEF Spec, NoStolenClaim

-----------------------------------------------------------------------------
\* The budget invariant, strengthened: a stopped task may have spent its whole
\* budget but no more, and every limit allows one attempt.
Charged(task, over) ==
    /\ task.limit >= 1
    /\ task.attempts <= task.limit + task.grace + over
    /\ task.status \in InFlight \cup {"pending", "blocked"}
         => task.attempts < task.limit + task.grace + over
    /\ task.grace <= RateLimitGrace

BudgetInv ==
    /\ \A t \in Tasks : Charged(mem[t], overdraft[t]) /\ Charged(row[t], overdraft[t])
    /\ \A c \in copies : Charged(c.record, overdraft[c.task])

\* A method step that leaves its record charged, overdraft growing if need be.
BudgetStep ==
    \E t \in cached, task \in BoardTask, over \in Nat :
        /\ Save(t, task)
        /\ overdraft' = [overdraft EXCEPT ![t] = over]
        /\ overdraft[t] <= over
        /\ Charged(task, over)

\* Naming the three numbers a charged record exhibits.
LEMMA BudgetWitness ==
    ASSUME NEW t \in cached, NEW task \in BoardTask, NEW over \in Nat,
           Save(t, task), overdraft' = [overdraft EXCEPT ![t] = over],
           overdraft[t] <= over, Charged(task, over)
    PROVE  BudgetStep
  BY Zenon DEF BudgetStep

\* A move that does not put a spent task back to work keeps it charged.
LEMMA MoveCharged ==
    ASSUME Inv, BudgetInv, NEW t \in Tasks, t \in cached,
           NEW s \in Status, s # "pending", Move(t, s), overdraft' = overdraft,
           s \in InFlight \cup {"blocked"} => mem[t].status \in InFlight
    PROVE  BudgetStep
<1> DEFINE after == [mem[t] EXCEPT !.status = s]
<1>1. mem[t] \in BoardTask /\ overdraft[t] \in Nat /\ Charged(mem[t], overdraft[t])
  BY DEF Inv, TypeOK, BudgetInv
<1>2. after \in BoardTask /\ Charged(after, overdraft[t])
  BY <1>1 DEF BoardTask, Charged
<1>3. overdraft' = [overdraft EXCEPT ![t] = overdraft[t]] /\ overdraft[t] <= overdraft[t]
  BY <1>1 DEF Inv, TypeOK
<1>4. Save(t, after)
  BY DEF Move
<1> HIDE DEF after
<1> QED BY <1>1, <1>2, <1>3, <1>4, BudgetWitness

\* The worker-owned methods leave the task they act on charged.
LEMMA WorkerBudget ==
    ASSUME Inv, BudgetInv, NEW t \in Tasks, NEW a \in Agents,
           \/ Start(t, a) \/ Release(t, a) \/ MarkProduced(t, a) \/ Complete(t, a)
           \/ MarkBlocked(t, a)
           \/ \E retryable, rateLimited \in BOOLEAN : Fail(t, a, retryable, rateLimited)
    PROVE  BudgetStep
<1>0. /\ mem[t] \in BoardTask /\ overdraft[t] \in Nat /\ Charged(mem[t], overdraft[t])
      /\ overdraft \in [Tasks -> Nat]
      /\ overdraft[t] <= overdraft[t] /\ overdraft[t] <= overdraft[t] + 1
      /\ overdraft[t] + 1 \in Nat
  BY DEF Inv, TypeOK, BudgetInv
<1>1. CASE Start(t, a) \/ Complete(t, a)
  BY <1>1, MoveCharged DEF Start, Complete, Owns, Status, InFlight
<1>2. CASE MarkProduced(t, a)
  BY <1>2, MoveCharged DEF MarkProduced, Owns, Status, InFlight
<1>3. CASE MarkBlocked(t, a)
  BY <1>3, MoveCharged DEF MarkBlocked, Owns, Status, InFlight
<1>4. CASE Release(t, a)
  <2> DEFINE after == [Requeued(mem[t]) EXCEPT !.attempts = @ + 1]
  <2>1. /\ t \in cached /\ Save(t, after)
        /\ mem[t].status \in {"claimed", "running", "blocked"}
        /\ overdraft' = [overdraft EXCEPT ![t] = overdraft[t] + 1]
    BY <1>4 DEF Release, Owns
  <2>2. after \in BoardTask
    BY RequeuedRecord, <1>0 DEF BoardTask
  <2>3. /\ after.attempts = mem[t].attempts + 1 /\ after.limit = mem[t].limit
        /\ after.grace = mem[t].grace
    BY <1>0 DEF Requeued, BoardTask
  <2> HIDE DEF after
  <2>4. Charged(after, overdraft[t] + 1)
    BY <1>0, <2>1, <2>3 DEF Charged, BoardTask, InFlight
  <2> QED BY <1>0, <2>1, <2>2, <2>4, BudgetWitness
<1>5. ASSUME NEW retryable \in BOOLEAN, NEW rateLimited \in BOOLEAN,
             Fail(t, a, retryable, rateLimited)
      PROVE  BudgetStep
  <2> DEFINE after == FailedRecord(mem[t], retryable, rateLimited)
             over == IF mem[t].attempts < Budget(t, mem[t])
                     THEN overdraft[t] ELSE overdraft[t] + 1
  <2>1. /\ t \in cached /\ mem[t].owner # NoAgent /\ Save(t, after)
        /\ overdraft' = [overdraft EXCEPT ![t] = over]
    BY <1>0, <1>5, BoardAssumption DEF Fail, Owns, BoardAssumption
  <2>2. after \in BoardTask
    BY <1>0, <2>1, FailRecord
  <2>3. over \in Nat /\ overdraft[t] <= over
    BY <1>0
  <2>4. Charged(after, over)
    <3> DEFINE budgeted == retryable /\ mem[t].attempts + 1 < mem[t].limit
               graced == ~budgeted /\ rateLimited /\ mem[t].grace < RateLimitGrace
    <3>1. /\ after.attempts = mem[t].attempts + 1 /\ after.limit = mem[t].limit
          /\ after.grace = IF graced THEN mem[t].grace + 1 ELSE mem[t].grace
          /\ after.status = IF budgeted \/ graced THEN "pending" ELSE "failed"
      BY <1>0 DEF FailedRecord, BoardTask
    <3> HIDE DEF after
    <3> QED BY <1>0, <3>1, BoardAssumption
            DEF Charged, BoardTask, Budget, InFlight, BoardAssumption
  <2> HIDE DEF after, over
  <2> QED BY <2>1, <2>2, <2>3, <2>4, BudgetWitness
<1> QED BY <1>1, <1>2, <1>3, <1>4, <1>5

\* So do the control-plane methods.
LEMMA ControlBudget ==
    ASSUME Inv, BudgetInv, NEW t \in Tasks,
           \/ MarkVerifying(t) \/ MarkVerified(t) \/ MarkRepairRequired(t)
           \/ SupersedeWithRepair(t) \/ Cancel(t) \/ RequestReplan(t)
           \/ \E reset \in BOOLEAN : Retry(t, reset)
    PROVE  BudgetStep
<1>0. /\ mem[t] \in BoardTask /\ overdraft[t] \in Nat /\ Charged(mem[t], overdraft[t])
      /\ overdraft \in [Tasks -> Nat]
      /\ overdraft[t] <= overdraft[t] /\ overdraft[t] <= overdraft[t] + 1
      /\ overdraft[t] + 1 \in Nat
  BY DEF Inv, TypeOK, BudgetInv
<1>1. CASE \/ MarkVerifying(t) \/ MarkVerified(t) \/ MarkRepairRequired(t)
           \/ Cancel(t) \/ RequestReplan(t)
  BY <1>1, MoveCharged
  DEF MarkVerifying, MarkVerified, MarkRepairRequired, Cancel, RequestReplan, Status, InFlight
<1>2. CASE SupersedeWithRepair(t)
  <2>1. /\ t \in cached /\ Save(t, mem[t]) /\ overdraft' = [overdraft EXCEPT ![t] = overdraft[t]]
    BY <1>0, <1>2 DEF SupersedeWithRepair
  <2> QED BY <1>0, <2>1, BudgetWitness
<1>3. ASSUME NEW reset \in BOOLEAN, Retry(t, reset) PROVE BudgetStep
  <2> DEFINE after == RetriedRecord(mem[t], reset)
  <2>1. /\ t \in cached /\ Save(t, after) /\ overdraft' = [overdraft EXCEPT ![t] = overdraft[t]]
    BY <1>0, <1>3 DEF Retry
  <2>2. after \in BoardTask
    BY <1>0, RetryRecord
  <2>3. /\ after.attempts = IF reset THEN 0 ELSE mem[t].attempts
        /\ after.limit = IF ~reset /\ mem[t].attempts >= mem[t].limit
                         THEN mem[t].attempts + 1 ELSE mem[t].limit
        /\ after.grace = mem[t].grace
    BY <1>0 DEF RetriedRecord, Requeued, BoardTask
  <2> HIDE DEF after
  <2>4. Charged(after, overdraft[t])
    BY <1>0, <2>3 DEF Charged, BoardTask
  <2> QED BY <1>0, <2>1, <2>2, <2>4, BudgetWitness
<1> QED BY <1>1, <1>2, <1>3

\* Requeueing, restoring and the clock do not touch what Charged looks at,
\* except that a task in flight may go back to the queue.
LEMMA BudgetNext ==
    ASSUME Inv, BudgetInv, [Next]_vars
    PROVE  BudgetInv'
<1>0. /\ mem \in [Tasks -> BoardTask] /\ row \in [Tasks -> BoardTask]
      /\ overdraft \in [Tasks -> Nat] /\ cached \subseteq Tasks
      /\ \A t \in Tasks : Charged(mem[t], overdraft[t]) /\ Charged(row[t], overdraft[t])
      /\ copies \subseteq [task : Tasks, record : BoardTask]
      /\ \A c \in copies : Charged(c.record, overdraft[c.task])
  BY DEF Inv, TypeOK, BudgetInv
<1>1. CASE BudgetStep
  <2>1. PICK t \in cached, task \in BoardTask, over \in Nat :
          /\ Save(t, task)
          /\ overdraft' = [overdraft EXCEPT ![t] = over]
          /\ overdraft[t] <= over
          /\ Charged(task, over)
    BY <1>1 DEF BudgetStep
  <2>2. Charged(mem[t], over) /\ Charged(row[t], over)
    BY <1>0, <2>1 DEF Charged, BoardTask
  <2>3. \A c \in copies : Charged(c.record, overdraft'[c.task])
    <3> SUFFICES ASSUME NEW c \in copies PROVE Charged(c.record, overdraft'[c.task])
      OBVIOUS
    <3>1. c.task \in Tasks /\ c.record \in BoardTask /\ Charged(c.record, overdraft[c.task])
      BY <1>0
    <3>2. CASE c.task = t
      BY <1>0, <2>1, <3>1, <3>2 DEF Charged, BoardTask
    <3>3. CASE c.task # t
      BY <1>0, <2>1, <3>1, <3>3
    <3> QED BY <3>2, <3>3
  <2>4. copies' = copies
    BY <2>1 DEF Save
  <2>5. \A u \in Tasks : Charged(mem'[u], overdraft'[u]) /\ Charged(row'[u], overdraft'[u])
    BY <1>0, <2>1, <2>2 DEF Save, Persist
  <2> QED BY <2>3, <2>4, <2>5 DEF BudgetInv
<1>2. ASSUME NEW t \in Tasks, NEW a \in Agents, Claim(t, a) PROVE BudgetInv'
  <2> DEFINE task == [row[t] EXCEPT !.status = "claimed", !.owner = a]
  <2>1. /\ row[t].status = "pending" /\ UNCHANGED overdraft
        /\ row' = [row EXCEPT ![t] = task] /\ mem' = [mem EXCEPT ![t] = task]
        /\ copies' = copies
    BY <1>2 DEF Claim
  <2>2. Charged(task, overdraft[t])
    BY <1>0, <2>1 DEF Charged, BoardTask
  <2> HIDE DEF task
  <2> QED BY <1>0, <2>1, <2>2 DEF BudgetInv
<1>3. ASSUME NEW t \in Tasks, CreateTask(t) PROVE BudgetInv'
  <2>1. Charged(NewTask, overdraft[t])
    BY <1>0, BoardAssumption DEF Charged, NewTask, BoardAssumption
  <2> QED BY <1>0, <1>3, <2>1 DEF BudgetInv, CreateTask, Persist
<1>4. ASSUME NEW t \in Tasks, Get(t) PROVE BudgetInv'
  BY <1>0, <1>4 DEF BudgetInv, Get
<1>9. ASSUME NEW c \in copies, Add(c) PROVE BudgetInv'
  <2>1. c.task \in Tasks /\ c.record \in BoardTask /\ Charged(c.record, overdraft[c.task])
    BY <1>0
  <2>2. PICK task \in Edited(c.task, c.record) :
          mem' = [mem EXCEPT ![c.task] = task] /\ Persist(c.task, task)
    BY <1>9 DEF Add
  <2>3. UNCHANGED overdraft /\ copies' \subseteq copies
    BY <1>9 DEF Add
  <2>4. Charged(task, overdraft[c.task])
    <3>1. CASE task = c.record
      BY <2>1, <3>1
    <3>2. CASE task = [c.record EXCEPT !.status = "repair_required"]
      BY <2>1, <3>2 DEF Charged, BoardTask, InFlight
    <3>3. CASE task = Requeued(c.record) /\ c.record.status = "blocked"
      BY <2>1, <3>3 DEF Charged, Requeued, BoardTask
    <3>4. CASE task = [c.record EXCEPT !.status = "blocked"]
               /\ c.record.attempts < Budget(c.task, c.record)
      BY <2>1, <3>4 DEF Charged, Budget, BoardTask
    <3> QED BY <2>2, <3>1, <3>2, <3>3, <3>4 DEF Edited
  <2> QED BY <1>0, <2>1, <2>2, <2>3, <2>4 DEF BudgetInv, Persist
<1>5. CASE PrepareForResume
  <2> DEFINE left == {t \in cached : mem[t].status \in InFlight}
  <2>1. \A t \in left : Charged(Requeued(mem[t]), overdraft[t])
    BY <1>0 DEF Charged, Requeued, BoardTask
  <2>2. /\ UNCHANGED <<overdraft, copies>>
        /\ \A t \in Tasks : mem'[t] = mem[t] \/ (t \in left /\ mem'[t] = Requeued(mem[t]))
        /\ \A t \in Tasks : row'[t] = row[t] \/ (t \in left /\ row'[t] = Requeued(mem[t]))
    BY <1>5 DEF PrepareForResume
  <2> HIDE DEF left
  <2> QED BY <1>0, <2>1, <2>2 DEF BudgetInv
<1>6. CASE RestoreRun
  BY <1>0, <1>6 DEF BudgetInv, RestoreRun
<1>7. CASE PurgeRun
  <2>1. \A t \in Tasks : Charged(NewTask, overdraft[t])
    BY <1>0, BoardAssumption DEF Charged, NewTask, BoardAssumption
  <2> QED BY <1>0, <1>7, <2>1 DEF BudgetInv, PurgeRun
<1>8. CASE UNCHANGED vars
  BY <1>0, <1>8 DEF BudgetInv, vars
<1> QED
  BY <1>1, <1>2, <1>3, <1>4, <1>5, <1>6, <1>7, <1>8, <1>9, WorkerBudget, ControlBudget
  DEF Next, WorkerCall, ControlCall

\* No task is queued, worked on or blocked beyond its retry budget.
THEOREM RetryBudgetHolds == Spec => []RetryBudget
<1>1. Init => BudgetInv
  BY BoardAssumption DEF Init, BudgetInv, Charged, NewTask, BoardAssumption
<1>2. Inv /\ BudgetInv /\ [Next]_vars => BudgetInv'
  BY BudgetNext
<1>3. BudgetInv => RetryBudget
  BY DEF BudgetInv, Charged, RetryBudget, WithinBudget, Budget
<1>4. Spec => []Inv
  BY BoardInvariant DEF Inv
<1> QED BY <1>1, <1>2, <1>3, <1>4, PTL DEF Spec

-----------------------------------------------------------------------------
\* Every step of the board is a ledger step, or leaves the ledger unchanged.
LEMMA LedgerStep ==
    ASSUME Inv, [Next]_vars
    PROVE  [Ledger!LedgerNext]_(Ledger!ledgerVars)
<1> DEFINE stage == [t \in Tasks |-> RowPhase(t)]
           holder == [t \in Tasks |-> row[t].owner]
<1>0. /\ mem \in [Tasks -> BoardTask] /\ row \in [Tasks -> BoardTask]
      /\ cached \subseteq Tasks /\ stored \subseteq Tasks
  BY DEF Inv, TypeOK
\* Steps that change no row.
<1>1. ASSUME row' = row, stored' = stored
      PROVE  /\ stage' = stage /\ holder' = holder
             /\ revived' = revived => UNCHANGED Ledger!ledgerVars
  <2>1. \A t \in Tasks : RowPhase(t)' = RowPhase(t) /\ row'[t].owner = row[t].owner
    BY <1>1 DEF RowPhase
  <2> QED BY <2>1 DEF Ledger!ledgerVars
\* Steps that write one record to its row.
<1>2. ASSUME NEW t \in Tasks, NEW task \in BoardTask, Attributed(task),
             row' = [row EXCEPT ![t] = task], stored' = stored \cup {t}
      PROVE  /\ stage' = [stage EXCEPT ![t] =
                            IF task.status = "pending" THEN "open"
                            ELSE IF task.status \in InFlight \cup {"blocked"} /\ task.owner # NoAgent
                                 THEN "held"
                            ELSE "settled"]
             /\ holder' = [holder EXCEPT ![t] = task.owner]
  <2>1. \A u \in Tasks \ {t} : RowPhase(u)' = RowPhase(u) /\ row'[u] = row[u]
    BY <1>0, <1>2 DEF RowPhase
  <2>2. t \in stored' /\ row'[t] = task
    BY <1>0, <1>2
  <2> QED BY <2>1, <2>2 DEF RowPhase
\* Such a step rewrites the row of t.
<1>9. ASSUME NEW t \in Tasks, NEW task \in BoardTask, Attributed(task),
             row' = [row EXCEPT ![t] = task], stored' = stored \cup {t}
      PROVE  Ledger!Rewritten(t)
  <2>1. /\ \E p \in {"open", "held", "settled"} : stage' = [stage EXCEPT ![t] = p]
        /\ holder' = [holder EXCEPT ![t] = task.owner]
    BY <1>2, <1>9
  <2>2. task.owner \in Agents \cup {NoAgent}
    BY DEF BoardTask
  <2> QED BY <2>1, <2>2 DEF Ledger!Rewritten
\* A record that names nobody posts its row; one that names the worker of the row
\* advances it.
<1>10. ASSUME NEW t \in Tasks, NEW task \in BoardTask, Attributed(task),
              row' = [row EXCEPT ![t] = task], stored' = stored \cup {t},
              revived' = revived,
              task.owner = NoAgent \/ row[t].owner = task.owner
       PROVE  Ledger!LedgerNext
  <2>1. CASE task.owner = NoAgent
    <3>1. /\ \E p \in {"open", "settled"} : stage' = [stage EXCEPT ![t] = p]
          /\ holder' = [holder EXCEPT ![t] = NoAgent]
      BY <1>2, <1>10, <2>1
    <3> QED BY <1>10, <3>1 DEF Ledger!LedgerNext, Ledger!Post
  <2>2. CASE task.owner # NoAgent
    <3>1. row[t].owner = task.owner /\ task.status # "pending"
      BY <1>10, <2>2 DEF Attributed
    <3>2. /\ \E p \in {"held", "settled"} : stage' = [stage EXCEPT ![t] = p]
          /\ holder' = [holder EXCEPT ![t] = task.owner]
      BY <1>2, <1>10, <3>1
    <3>3. holder[t] # NoAgent /\ holder' = holder
      BY <1>0, <2>2, <3>1, <3>2
    <3> QED BY <1>10, <3>2, <3>3 DEF Ledger!LedgerNext, Ledger!Advance
  <2> QED BY <2>1, <2>2
<1>3. CASE MethodStep
  <2>1. PICK t \in cached, task \in BoardTask :
          /\ Attributed(task)
          /\ task.owner \in {mem[t].owner, NoAgent}
          /\ Save(t, task)
    BY <1>3 DEF MethodStep
  <2>0. t \in Tasks /\ revived' = revived
    BY <1>0, <2>1 DEF Save
  <2>2. CASE row' = row /\ stored' = stored
    BY <1>1, <2>0, <2>2
  <2>3. CASE row' = [row EXCEPT ![t] = task] /\ stored' = stored \cup {t}
    <3>1. CASE t \in revived
      <4>1. Ledger!Rewritten(t)
        BY <1>9, <2>0, <2>1, <2>3
      <4> QED BY <2>0, <3>1, <4>1 DEF Ledger!LedgerNext, Ledger!Drift
    <3>2. CASE t \notin revived
      <4>1. task.owner = NoAgent \/ row[t].owner = task.owner
        BY <2>1, <3>2 DEF Inv, OwnersAgree
      <4> QED BY <1>10, <2>0, <2>1, <2>3, <4>1
    <3> QED BY <3>1, <3>2
  <2> QED BY <2>1, <2>2, <2>3 DEF Save, Persist
<1>4. ASSUME NEW t \in Tasks, NEW a \in Agents, Claim(t, a)
      PROVE  Ledger!LedgerNext
  <2> DEFINE task == [row[t] EXCEPT !.status = "claimed", !.owner = a]
  <2>1. /\ t \in stored /\ row[t].status = "pending" /\ row[t].owner = NoAgent
        /\ row' = [row EXCEPT ![t] = task] /\ stored' = stored \cup {t}
    <3>1. row[t].owner = NoAgent
      BY <1>4, ClaimInv
    <3>2. /\ t \in stored /\ row[t].status = "pending" /\ stored' = stored
          /\ row' = [row EXCEPT ![t] = task]
      BY <1>4 DEF Claim
    <3> QED BY <3>1, <3>2
  <2>2. task \in BoardTask /\ task.owner = a /\ task.status = "claimed"
    BY <1>0 DEF BoardTask, Status, InFlight
  <2>3. Attributed(task)
    BY <2>2, BoardAssumption DEF Attributed, InFlight, BoardAssumption
  <2> HIDE DEF task
  <2>4. stage[t] = "open" /\ holder[t] = NoAgent
    BY <2>1 DEF RowPhase
  <2>6. /\ stage' = [stage EXCEPT ![t] = "held"]
        /\ holder' = [holder EXCEPT ![t] = a]
    <3>1. a # NoAgent
      BY BoardAssumption DEF BoardAssumption
    <3> QED BY <1>2, <2>1, <2>2, <2>3, <3>1 DEF InFlight
  <2>5. revived' = revived
    BY <1>4 DEF Claim
  <2> QED BY <2>4, <2>5, <2>6 DEF Ledger!LedgerNext, Ledger!Take
<1>5. ASSUME NEW t \in Tasks, CreateTask(t)
      PROVE  [Ledger!LedgerNext]_(Ledger!ledgerVars)
  <2>1. CASE row' = row /\ stored' = stored
    BY <1>1, <1>5, <2>1 DEF CreateTask
  <2>2. CASE row' = [row EXCEPT ![t] = NewTask] /\ stored' = stored \cup {t}
    BY <1>5, <1>10, <2>2, NewRecord DEF CreateTask
  <2> QED BY <1>5, <2>1, <2>2 DEF CreateTask, Persist
<1>6. ASSUME NEW c \in copies, Add(c)
      PROVE  [Ledger!LedgerNext]_(Ledger!ledgerVars)
  <2>1. c.task \in Tasks /\ c.record \in BoardTask /\ Attributed(c.record)
    BY DEF Inv, TypeOK, OwnerDiscipline
  <2>2. PICK task \in Edited(c.task, c.record) :
          /\ Persist(c.task, task)
          /\ revived' = IF Revives(c.task, task) THEN revived \cup {c.task} ELSE revived
    BY <1>6 DEF Add
  <2>3. task \in BoardTask /\ Attributed(task)
    BY <2>1, EditedRecord
  <2>4. CASE row' = row /\ stored' = stored
    <3>1. CASE revived' = revived
      BY <1>1, <2>4, <3>1
    <3>2. CASE revived' = revived \cup {c.task}
      BY <1>1, <2>1, <2>4, <3>2 DEF Ledger!LedgerNext, Ledger!Revive
    <3> QED BY <2>2, <3>1, <3>2
  <2>5. CASE row' = [row EXCEPT ![c.task] = task] /\ stored' = stored \cup {c.task}
    <3>1. CASE Revives(c.task, task)
      <4>1. Ledger!Rewritten(c.task)
        BY <1>9, <2>1, <2>3, <2>5
      <4> QED BY <2>1, <2>2, <3>1, <4>1 DEF Ledger!LedgerNext, Ledger!Revive
    <3>2. CASE ~Revives(c.task, task)
      <4>1. task.owner = NoAgent \/ row[c.task].owner = task.owner
        BY <3>2 DEF Revives
      <4> QED BY <1>10, <2>1, <2>2, <2>3, <2>5, <3>2, <4>1
    <3> QED BY <3>1, <3>2
  <2> QED BY <2>2, <2>4, <2>5 DEF Persist
<1>11. ASSUME NEW t \in Tasks, Get(t)
       PROVE  UNCHANGED Ledger!ledgerVars
  BY <1>1, <1>11 DEF Get
<1>7. ASSUME PrepareForResume PROVE Ledger!LedgerNext
  <2> DEFINE left == {t \in cached : mem[t].status \in InFlight}
  <2>1. PICK saved \in SUBSET left :
          /\ row' = [t \in Tasks |-> IF t \in saved THEN Requeued(mem[t]) ELSE row[t]]
          /\ stored' = stored \cup saved
    BY <1>7 DEF PrepareForResume
  <2>2. saved \subseteq Tasks
    BY <1>0
  <2>3. \A t \in saved : Requeued(mem[t]).status = "pending" /\ Requeued(mem[t]).owner = NoAgent
    BY <1>0, <2>2, RequeuedRecord
  <2>4. \A t \in Tasks : /\ RowPhase(t)' = IF t \in saved THEN "open" ELSE RowPhase(t)
                         /\ row'[t].owner = IF t \in saved THEN NoAgent ELSE row[t].owner
    BY <2>1, <2>3 DEF RowPhase
  <2>5. /\ stage' = [t \in Tasks |-> IF t \in saved THEN "open" ELSE stage[t]]
        /\ holder' = [t \in Tasks |-> IF t \in saved THEN NoAgent ELSE holder[t]]
    BY <2>4
  <2>6. revived' = revived
    BY <1>7 DEF PrepareForResume
  <2> QED BY <2>2, <2>5, <2>6 DEF Ledger!LedgerNext, Ledger!Requeue
<1>8. CASE RestoreRun \/ PurgeRun \/ UNCHANGED vars
  BY <1>1, <1>8 DEF RestoreRun, PurgeRun, vars
<1> QED BY <1>3, <1>4, <1>5, <1>6, <1>7, <1>8, <1>11, StepCases

\* The durable rows implement the abstract ledger: taken by one agent at a time,
\* and only after they were handed back, until an outdated copy is added over one.
THEOREM RowsImplementLedger == Spec => ImplementsLedger
<1>1. Init => Ledger!LedgerInit
  BY DEF Init, Ledger!LedgerInit, RowPhase, NewTask
<1>2. Inv /\ [Next]_vars => [Ledger!LedgerNext]_(Ledger!ledgerVars)
  BY LedgerStep
<1>3. Spec => []Inv
  BY BoardInvariant DEF Inv
<1> QED BY <1>1, <1>2, <1>3, PTL DEF Spec, ImplementsLedger, Ledger!LedgerSpec

-----------------------------------------------------------------------------
(* Staffing: what the operators give                                         *)

\* The greatest of some numbers with a bound.
LEMMA GreatestIsOne ==
    ASSUME NEW S \in SUBSET Nat, S # {}, NEW n \in Nat, \A x \in S : x <= n
    PROVE  Max(S) \in S /\ \A y \in S : y <= Max(S)
  <1> DEFINE bounds == {m \in Nat : \A x \in S : x <= m}
  <1>1. bounds \subseteq Nat /\ bounds # {}
    OBVIOUS
  <1>2. PICK m \in bounds : \A y \in bounds : ~(<<y, m>> \in OpToRel(<, Nat))
    BY <1>1, NatLessThanWellFounded, WFMin
  <1>3. \A y \in bounds : ~(y < m)
    BY <1>1, <1>2 DEF OpToRel
  <1>4. m \in S
    <2> SUFFICES ASSUME m \notin S PROVE FALSE
      OBVIOUS
    <2>1. \A x \in S : x \in Nat /\ x <= m /\ x # m
      OBVIOUS
    <2>2. PICK z \in S : z \in Nat
      OBVIOUS
    <2>3. m - 1 \in Nat
      BY <2>1, <2>2
    <2>4. \A x \in S : x <= m - 1
      BY <2>1
    <2> QED
      BY <1>3, <2>3, <2>4
  <1>5. \A y \in S : m >= y
    OBVIOUS
  <1> QED
    BY <1>4, <1>5 DEF Max

LEMMA LesserOfTwo ==
    ASSUME NEW x \in Nat, NEW y \in Nat
    PROVE  Min({x, y}) \in {x, y} /\ Min({x, y}) <= x /\ Min({x, y}) <= y
  BY DEF Min

\* A finite set in some order: each of its elements at one place.
LEMMA OrderedSet ==
    ASSUME NEW S, IsFiniteSet(S)
    PROVE  /\ Cardinality(S) \in Nat
           /\ SetToSeq(S) \in [1..Cardinality(S) -> S]
           /\ \A i, j \in 1..Cardinality(S) : SetToSeq(S)[i] = SetToSeq(S)[j] => i = j
           /\ \A x \in S : \E i \in 1..Cardinality(S) : SetToSeq(S)[i] = x
  <1> DEFINE n == Cardinality(S)
             f == SetToSeq(S)
  <1>1. n \in Nat /\ ExistsBijection(1..n, S)
    BY FS_CardinalityType
  <1>2. \E g \in [1..n -> S] : IsInjective(g)
    BY <1>1 DEF ExistsBijection, Bijection, Injection
  <1>3. f \in [1..n -> S] /\ IsInjective(f)
    BY <1>2 DEF SetToSeq
  <1>4. f \in Injection(1..n, S)
    BY <1>3 DEF Injection
  <1>5. IsFiniteSet(1..n) /\ Cardinality(1..n) = n
    BY <1>1, FS_Interval
  <1>6. f \in Surjection(1..n, S)
    <2> HIDE DEF f
    <2> QED
      BY <1>4, <1>5, FS_Injection
  <1> HIDE DEF f
  <1>7. \A i, j \in 1..n : f[i] = f[j] => i = j
    BY <1>3 DEF IsInjective
  <1>8. \A x \in S : \E i \in 1..n : f[i] = x
    BY <1>6 DEF Surjection
  <1> QED
    BY <1>1, <1>3, <1>7, <1>8 DEF f

\* The places for which recruits are wanted, and who is recruited for them.
Places(wanted) == {x \in (DOMAIN wanted) \X (1..MaxParallel) : x[2] <= wanted[x[1]]}

OfProfile(rows, p) == {i \in DOMAIN rows : rows[i].profile = p}

LEMMA UpTo ==
    ASSUME NEW n \in Nat
    PROVE  IsFiniteSet(1..n) /\ Cardinality(1..n) = n
  BY FS_Interval

LEMMA RecruitStep ==
    ASSUME NEW r \in Runs, NEW wanted, IsFiniteSet(DOMAIN wanted),
           \A p \in DOMAIN wanted : wanted[p] \in Int
    PROVE  /\ Len(Recruits(r, wanted)) \in Nat
           /\ DOMAIN Recruits(r, wanted) = 1..Len(Recruits(r, wanted))
           /\ \A i \in DOMAIN Recruits(r, wanted) :
                \E p \in DOMAIN wanted : Recruits(r, wanted)[i] = NewAgent(r, p, 0)
           /\ \A p \in DOMAIN wanted : wanted[p] >= 1 =>
                \E i \in DOMAIN Recruits(r, wanted) : Recruits(r, wanted)[i] = NewAgent(r, p, 0)
           /\ \A p : /\ IsFiniteSet(OfProfile(Recruits(r, wanted), p))
                     /\ OfProfile(Recruits(r, wanted), p) # {} =>
                          /\ p \in DOMAIN wanted
                          /\ Cardinality(OfProfile(Recruits(r, wanted), p)) <= wanted[p]
  <1> DEFINE pl == Places(wanted)
             n == Cardinality(pl)
             order == SetToSeq(pl)
             rec == Recruits(r, wanted)
  <1>0. MaxParallel \in Nat /\ MaxParallel >= 1
    BY StaffingAssumption
  <1>1. IsFiniteSet(pl)
    <2>1. IsFiniteSet(1..MaxParallel)
      BY <1>0, FS_Interval
    <2>2. IsFiniteSet((DOMAIN wanted) \X (1..MaxParallel))
      BY <2>1, FS_Product
    <2>3. pl \in SUBSET ((DOMAIN wanted) \X (1..MaxParallel))
      BY DEF Places
    <2> QED
      BY <2>2, <2>3, FS_Subset
  <1>2. /\ n \in Nat /\ order \in [1..n -> pl]
        /\ \A i, j \in 1..n : order[i] = order[j] => i = j
        /\ \A x \in pl : \E i \in 1..n : order[i] = x
    BY <1>1, OrderedSet
  <1>3. rec = [i \in 1..n |-> NewAgent(r, order[i][1], 0)]
    <2>1. rec = [i \in DOMAIN order |-> NewAgent(r, order[i][1], 0)]
      BY DEF Recruits, Places
    <2> QED
      BY <1>2, <2>1
  <1> HIDE DEF order, rec, n
  <1>4. DOMAIN rec = 1..n /\ Len(rec) = n
    <2>1. rec \in Seq({NewAgent(r, order[i][1], 0) : i \in 1..n})
      BY <1>2, <1>3
    <2> QED
      BY <1>2, <1>3, <2>1
  <1>5. \A i \in 1..n : /\ order[i] \in pl /\ order[i][1] \in DOMAIN wanted
                        /\ order[i][2] \in 1..MaxParallel
                        /\ order[i][2] <= wanted[order[i][1]]
                        /\ order[i] = <<order[i][1], order[i][2]>>
    BY <1>2 DEF Places
  <1>6. \A i \in 1..n : rec[i] = NewAgent(r, order[i][1], 0) /\ rec[i].profile = order[i][1]
    BY <1>3 DEF NewAgent
  <1>7. ASSUME NEW p \in DOMAIN wanted, wanted[p] >= 1
        PROVE  \E i \in 1..n : rec[i] = NewAgent(r, p, 0)
    <2>1. <<p, 1>> \in pl
      BY <1>0, <1>7 DEF Places
    <2>2. PICK i \in 1..n : order[i] = <<p, 1>>
      BY <1>2, <2>1
    <2> QED
      BY <1>6, <2>2
  <1>8. ASSUME NEW p
        PROVE  /\ IsFiniteSet(OfProfile(rec, p))
               /\ OfProfile(rec, p) # {} =>
                    p \in DOMAIN wanted /\ Cardinality(OfProfile(rec, p)) <= wanted[p]
    <2> DEFINE of == {i \in 1..n : rec[i].profile = p}
               g == [i \in of |-> order[i][2]]
    <2>1. IsFiniteSet(of)
      <3>1. IsFiniteSet(1..n)
        BY <1>2, FS_Interval
      <3> QED
        BY <3>1, FS_Subset
    <2>2. ASSUME NEW k \in of PROVE p \in DOMAIN wanted /\ Cardinality(of) <= wanted[p]
      <3>1. p \in DOMAIN wanted /\ order[k][2] >= 1 /\ order[k][2] <= wanted[p]
        BY <1>5, <1>6
      <3>2. wanted[p] \in Nat /\ wanted[p] >= 1
        BY <1>0, <1>5, <3>1
      <3>3. g \in [of -> 1..wanted[p]]
        <4>1. \A i \in of : order[i][2] \in 1..wanted[p]
          BY <1>5, <1>6, <1>0, <3>2
        <4> QED
          BY <4>1
      <3>4. \A i, j \in of : g[i] = g[j] => i = j
        <4> SUFFICES ASSUME NEW i \in of, NEW j \in of, g[i] = g[j] PROVE i = j
          OBVIOUS
        <4>1. order[i][1] = p /\ order[j][1] = p /\ order[i][2] = order[j][2]
          BY <1>6
        <4>2. order[i] = order[j]
          BY <1>5, <4>1
        <4> QED
          BY <1>2, <4>2
      <3>5. g \in Injection(of, 1..wanted[p])
        BY <3>3, <3>4 DEF Injection, IsInjective
      <3>6. IsFiniteSet(1..wanted[p]) /\ Cardinality(1..wanted[p]) = wanted[p]
        <4>1. PICK w \in Nat : w = wanted[p] /\ w >= 1
          BY <3>2
        <4>2. IsFiniteSet(1..w) /\ Cardinality(1..w) = w
          BY <4>1, UpTo
        <4> QED
          BY <4>1, <4>2
      <3> HIDE DEF g, of
      <3> QED
        BY <3>1, <3>5, <3>6, FS_Injection
    <2>3. OfProfile(rec, p) = of
      BY <1>4 DEF OfProfile
    <2> HIDE DEF of
    <2> QED
      BY <2>1, <2>2, <2>3
  <1>9. \A i \in 1..n : \E p \in DOMAIN wanted : rec[i] = NewAgent(r, p, 0)
    BY <1>5, <1>6
  <1> QED
    BY <1>2, <1>4, <1>7, <1>8, <1>9 DEF rec

LEMMA PlanNames ==
    /\ "none" \notin TaskNames
    /\ IsFiniteSet(DOMAIN Fallback) /\ DOMAIN Fallback \subseteq TaskNames
    /\ "execute" \in TaskNames
    /\ \A p \in Answers : DOMAIN p \subseteq TaskNames /\ IsFiniteSet(DOMAIN p)
  <1>1. DOMAIN Fallback = {"plan", "execute", "verify"}
    BY DEF Fallback
  <1>2. IsFiniteSet({"plan", "execute", "verify"})
    <2>1. IsFiniteSet({"plan"})
      BY FS_Singleton
    <2>2. IsFiniteSet({"plan"} \cup {"execute"})
      BY <2>1, FS_AddElement
    <2>3. IsFiniteSet({"plan"} \cup {"execute"} \cup {"verify"})
      BY <2>2, FS_AddElement
    <2>4. {"plan"} \cup {"execute"} \cup {"verify"} = {"plan", "execute", "verify"}
      OBVIOUS
    <2> QED
      BY <2>3, <2>4
  <1>3. \A p \in Answers : DOMAIN p \subseteq TaskNames /\ IsFiniteSet(DOMAIN p)
    BY StaffingAssumption DEF TaskNames
  <1>4. "none" \notin TaskNames
    <2>1. \A p \in Answers : "none" \notin DOMAIN p
      BY StaffingAssumption
    <2> QED
      BY <1>1, <2>1 DEF TaskNames
  <1> QED
    BY <1>1, <1>2, <1>3, <1>4 DEF TaskNames

\* The tasks that could run beside t.
Level(r, t) == {u \in DOMAIN plan[r] : Depth(plan[r])[u] = Depth(plan[r])[t]}

\* As many agents of a profile as tasks of it can run side by side, up to a limit.
LEMMA DemandIsBounded ==
    ASSUME PlanTypes, NEW r \in Runs, NEW match, DOMAIN match = DOMAIN plan[r],
           NEW t \in DOMAIN match
    PROVE  /\ Demand(r, match, match[t]) \in Nat
           /\ Demand(r, match, match[t]) >= 1
           /\ Demand(r, match, match[t]) <= MaxParallel
           /\ \E u \in DOMAIN plan[r] : Demand(r, match, match[t]) <= Cardinality(Level(r, u))
  <1> DEFINE depth == Depth(plan[r])
             tasks == DOMAIN match
             of(d) == {u \in tasks : match[u] = match[t] /\ depth[u] = d}
             counts == {Cardinality(of(depth[u])) : u \in tasks}
             level(u) == {v \in tasks : depth[v] = depth[u]}
  <1>0. MaxParallel \in Nat /\ MaxParallel >= 1
    BY StaffingAssumption
  <1>1. IsFiniteSet(tasks) /\ Cardinality(tasks) \in Nat
    BY FS_CardinalityType DEF PlanTypes
  <1>2. ASSUME NEW u \in tasks
        PROVE  /\ IsFiniteSet(level(u)) /\ Cardinality(level(u)) \in Nat
               /\ IsFiniteSet(of(depth[u])) /\ Cardinality(of(depth[u])) \in Nat
               /\ Cardinality(of(depth[u])) <= Cardinality(level(u))
               /\ Cardinality(of(depth[u])) <= Cardinality(tasks)
    <2>1. IsFiniteSet(level(u)) /\ Cardinality(level(u)) \in Nat
      <3>1. level(u) \in SUBSET tasks
        OBVIOUS
      <3> QED
        BY <1>1, <3>1, FS_Subset, FS_CardinalityType
    <2>2. of(depth[u]) \in SUBSET level(u) /\ of(depth[u]) \in SUBSET tasks
      OBVIOUS
    <2>3. /\ IsFiniteSet(of(depth[u]))
          /\ Cardinality(of(depth[u])) <= Cardinality(level(u))
          /\ Cardinality(of(depth[u])) <= Cardinality(tasks)
      BY <1>1, <2>1, <2>2, FS_Subset
    <2>4. Cardinality(of(depth[u])) \in Nat
      BY <2>3, FS_CardinalityType
    <2> QED
      BY <2>1, <2>3, <2>4
  <1>3. t \in of(depth[t])
    OBVIOUS
  <1>4. Cardinality(of(depth[t])) >= 1
    <2>1. IsFiniteSet(of(depth[t])) /\ of(depth[t]) # {}
      BY <1>2, <1>3
    <2>2. Cardinality(of(depth[t])) # 0
      <3> HIDE DEF of
      <3> QED
        BY <2>1, FS_EmptySet
    <2>3. Cardinality(of(depth[t])) \in Nat
      BY <1>2
    <2> HIDE DEF of
    <2> QED
      BY <2>2, <2>3
  <1>5. Demand(r, match, match[t]) = Min({MaxParallel, Max(counts)})
    BY DEF Demand
  <1> HIDE DEF of, level, depth
  <1>6. counts \in SUBSET Nat /\ counts # {} /\ \A c \in counts : c <= Cardinality(tasks)
    BY <1>2
  <1>7. Max(counts) \in counts /\ \A c \in counts : c <= Max(counts)
    BY <1>1, <1>6, GreatestIsOne
  <1>8. PICK u \in tasks : Max(counts) = Cardinality(of(depth[u]))
    BY <1>7
  <1>9. Max(counts) \in Nat /\ Max(counts) >= 1
    BY <1>4, <1>6, <1>7
  <1> DEFINE m == Max(counts)
             d == Demand(r, match, match[t])
  <1>10. d \in {MaxParallel, m} /\ d <= MaxParallel /\ d <= m
    BY <1>0, <1>5, <1>9, LesserOfTwo
  <1>11. m <= Cardinality(level(u)) /\ Cardinality(level(u)) \in Nat
    BY <1>2, <1>8
  <1>12. d \in Nat /\ d >= 1 /\ d <= Cardinality(level(u))
    <2> HIDE DEF m, d
    <2>1. m \in Nat /\ m >= 1
      BY <1>9 DEF m
    <2> QED
      BY <1>0, <1>10, <1>11, <2>1
  <1>13. level(u) = Level(r, u)
    BY DEF level, depth, Level
  <1> QED
    BY <1>10, <1>12, <1>13
-----------------------------------------------------------------------------
(* Staffing: the invariant                                                   *)

Ending == {"stopping", "stopped", "gone"}
Away   == Ending \cup {"blocked"}

AgentsOf(r) == {a \in Ids : agents[a].run = r}

\* What the builder takes for a match: all a task needs, its roles, or what is
\* left of it without tools.
Fits(needs, caps) ==
    \/ needs \subseteq caps
    \/ needs \cap Primary # {} /\ needs \cap Primary \subseteq caps
    \/ needs \cap Primary = {} /\ needs \ Tooling # {} /\ needs \ Tooling \subseteq caps

Serves(a, r, t) ==
    /\ agents[a].run = r /\ agents[a].parent = 0
    /\ Fits(Needs(r, t), CapsOf(agents[a].profile))

Served(r) == \A t \in DOMAIN plan[r] : \E a \in Ids : Serves(a, r, t)

\* Nobody works for a run that has no plan.
Unborn == \A r \in Runs : phase[r] = "new" => DOMAIN plan[r] = {} /\ AgentsOf(r) = {}

\* Whom the registry reserves has all the executor asks for, if any profile has.
Fitted(rec) ==
    (\E role \in Roles : Needs(rec.run, rec.task) \subseteq Caps[role])
        => Needs(rec.run, rec.task) \subseteq CapsOf(rec.profile)

\* Who is claimed or runs has a task, and who is claimed fits it.
Working ==
    \A a \in Ids :
        /\ agents[a].status \in {"claiming", "running"} => agents[a].task # "none"
        /\ agents[a].status = "claiming" => Fitted(agents[a])

\* In a run nobody was stopped or paused in, the built agents last, and the first team already
\* had somebody for every task: later ones only add to it.
Serving ==
    \A r \in Runs \ disturbed :
        /\ AgentsOf(r) # {} => Served(r)
        /\ phase[r] \in {"staffed", "ended", "stuck"} => Served(r)
        /\ \A a \in AgentsOf(r) : agents[a].parent = 0 => agents[a].status \notin Away

\* A spawned profile has the tools its base shares with its parent's, so whoever
\* registers it again registers the same.
Derived(p) ==
    \E base \in DOMAIN registered, a \in Ids :
        /\ p = Profile(base.role, Append(base.under, a))
        /\ agents[a].profile \in DOMAIN registered
        /\ registered[p] = Restricted(base, agents[a].profile)

\* Until a restart, agents work under their own profiles, and a spawned one has no
\* tool its parent lacks.
CutDown(a) ==
    /\ agents[a].profile \in DOMAIN registered
    /\ agents[a].as \subseteq {agents[a].profile}
    /\ agents[a].parent # 0 =>
         registered[agents[a].profile] \subseteq registered[agents[agents[a].parent].profile]

Cut ==
    restarts = 0 =>
      /\ \A p \in DOMAIN registered : p.under = <<>> \/ Derived(p)
      /\ \A a \in Ids : CutDown(a)

Built(r, p) == {a \in Live(r) : agents[a].parent = 0 /\ agents[a].profile = p}

FewEnough(r, built) ==
    /\ Cardinality(built) <= MaxParallel
    /\ \E t \in DOMAIN plan[r] : Cardinality(built) <= Cardinality(Level(r, t))

\* NoLookalikes, also of profiles the process has forgotten.
Sparse ==
    \A r \in Runs : \A b \in Ids :
        Built(r, agents[b].profile) # {} => FewEnough(r, Built(r, agents[b].profile))

\* A vetoed agent whose row says idle was restored since, and a child a hook is still
\* to be asked about has come since the last restart.
Pending ==
    /\ \A a \in unsaved : a \in DOMAIN vetoed => restarts > vetoed[a]
    /\ \A a \in Ids : call[a].at \in {"created", "linked"} => call[a].child \notin unsaved

Vetoes == RestartTypes /\ VetoedChildrenEnd /\ Pending

StaffInv ==
    /\ StaffTypes /\ Vetoes
    /\ Unborn /\ Working /\ Serving /\ Cut /\ Sparse
    /\ BuilderStaffs /\ TeamsServe

-----------------------------------------------------------------------------
(* Staffing: agents that stay what they are                                  *)

\* What may become of an agent in one step.
Moved(a, rec) ==
    /\ rec \in AgentRow
    /\ rec.run = agents[a].run /\ rec.profile = agents[a].profile
    /\ rec.parent = agents[a].parent
    /\ rec.task \in DOMAIN plan[rec.run] \cup {"none"}
    /\ rec.as # {} => rec.status \in {"running", "stopping"} /\ rec.task # "none"
    /\ rec.status \in {"claiming", "running"} => rec.task # "none"
    /\ rec.status = "claiming" => Fitted(rec)
    /\ agents[a].status \in Ending /\ restarts' = restarts => rec.status \in Ending
    /\ agents[a].status \in {"stopped", "gone"} => rec.status \in {"stopped", "gone"}
    /\ agents[a].profile \in DOMAIN registered =>
         rec.as \subseteq agents[a].as \cup {agents[a].profile}

\* Nobody comes, everybody stays who they are, and a built agent goes away only in a
\* run that is marked.
RowsMove ==
    /\ agents' \in Seq(AgentRow) /\ DOMAIN agents' = Ids
    /\ \A a \in Ids : Moved(a, agents'[a])
    /\ disturbed \subseteq disturbed'
    /\ \A a \in Ids : agents'[a].status \in Away =>
          \/ agents[a].status \in Away
          \/ agents[a].parent # 0
          \/ agents[a].run \in disturbed'

LEMMA SameRow ==
    ASSUME AgentTypes, Working, NEW a \in Ids
    PROVE  /\ Moved(a, agents[a])
           /\ agents[a] \in AgentRow /\ agents[a].run \in Runs
           /\ agents[a].profile \in ProfileRow /\ agents[a].parent \in Nat
           /\ agents[a].as \in SUBSET ProfileRow /\ agents[a].status \in AgentStatus
           /\ a \in Nat /\ a >= 1 /\ Ids = 1..Len(agents) /\ Len(agents) \in Nat
  <1>1. agents \in Seq(AgentRow)
    BY DEF AgentTypes
  <1>2. agents[a] \in AgentRow /\ Ids = 1..Len(agents) /\ Len(agents) \in Nat
    BY <1>1 DEF Ids
  <1>3. /\ agents[a].run \in Runs /\ agents[a].profile \in ProfileRow
        /\ agents[a].parent \in Nat /\ agents[a].as \in SUBSET ProfileRow
        /\ agents[a].status \in AgentStatus
    BY <1>2 DEF AgentRow
  <1>4. Moved(a, agents[a])
    BY <1>2 DEF Moved, AgentTypes, Working
  <1> QED
    BY <1>2, <1>3, <1>4

\* One rec is replaced by one it may become.
LEMMA OneMoves ==
    ASSUME AgentTypes, Working, NEW a \in Ids, NEW rec, Moved(a, rec),
           agents' = [agents EXCEPT ![a] = rec], disturbed \subseteq disturbed',
           rec.status \in Away => \/ agents[a].status \in Away
                                  \/ agents[a].parent # 0
                                  \/ agents[a].run \in disturbed'
    PROVE  RowsMove
  <1>1. agents \in Seq(AgentRow) /\ rec \in AgentRow
    BY DEF AgentTypes, Moved
  <1>2. agents' \in Seq(AgentRow) /\ DOMAIN agents' = Ids
    BY <1>1 DEF Ids
  <1>3. agents'[a] = rec /\ \A b \in Ids : b # a => agents'[b] = agents[b]
    BY <1>1 DEF Ids
  <1>4. \A b \in Ids : Moved(b, agents'[b])
    BY <1>3, SameRow
  <1> QED
    BY <1>2, <1>3, <1>4 DEF RowsMove

\* No two roles share what is not tools, so the registry's choice by roles alone still
\* has all that some profile has.
LEMMA ReservedFits ==
    ASSUME AgentTypes, NEW r \in Runs, NEW needs, NEW a \in Reservable(r, needs),
           NEW role \in Roles, needs \subseteq Caps[role]
    PROVE  needs \subseteq CapsOf(agents[a].profile)
  <1> DEFINE roles == needs \cap Primary
  <1>1. a \in Ids /\ agents[a].profile.role \in Roles
    <2>1. a \in Ids
      BY DEF Reservable, Idle
    <2>2. agents \in Seq(AgentRow)
      BY DEF AgentTypes
    <2>3. agents[a] \in AgentRow
      BY <2>1, <2>2 DEF Ids
    <2>4. agents[a].profile \in ProfileRow
      BY <2>3 DEF AgentRow
    <2> QED
      BY <2>1, <2>4 DEF ProfileRow
  <1>2. CASE needs \subseteq CapsOf(agents[a].profile)
    BY <1>2
  <1>3. CASE roles # {} /\ roles \subseteq CapsOf(agents[a].profile)
    <2>1. PICK c \in Primary : c \in needs
      BY <1>3
    <2>2. c \in Caps[role] /\ c \in Caps[agents[a].profile.role]
      BY <1>3, <2>1 DEF CapsOf
    <2>3. \A one, other \in Roles : c \in Caps[one] /\ c \in Caps[other] => one = other
      BY <2>1 DEF Primary, Roles, Caps
    <2>4. agents[a].profile.role = role
      BY <1>1, <2>2, <2>3
    <2> QED
      BY <2>4 DEF CapsOf
  <1> QED
    BY <1>2, <1>3 DEF Reservable

LEMMA AssignMoves ==
    ASSUME AgentTypes, PlanTypes, Working, NEW r \in Runs, NEW t \in DOMAIN plan[r],
           Assign(r, t)
    PROVE  RowsMove
  <1>1. PICK a \in Reservable(r, Needs(r, t)) :
            agents' = [agents EXCEPT ![a].status = "claiming", ![a].task = t]
    BY DEF Assign
  <1>2. a \in Ids /\ agents[a].status = "idle" /\ agents[a].run = r
    BY <1>1 DEF Reservable, Idle
  <1> DEFINE rec == [agents[a] EXCEPT !.status = "claiming", !.task = t]
  <1>3. agents' = [agents EXCEPT ![a] = rec]
    BY <1>1, <1>2 DEF Ids
  <1>4. t \in TaskNames /\ t # "none"
    BY PlanNames DEF PlanTypes
  <1>5. agents[a] \in AgentRow /\ agents[a].as = {}
    BY <1>2, SameRow DEF AgentTypes
  <1>6. /\ rec \in AgentRow /\ rec.run = agents[a].run /\ rec.profile = agents[a].profile
        /\ rec.parent = agents[a].parent /\ rec.task = t /\ rec.status = "claiming"
        /\ rec.as = agents[a].as
    BY <1>4, <1>5 DEF AgentRow, AgentStatus
  <1> HIDE DEF rec
  <1>10. Fitted(rec)
    BY <1>1, <1>2, <1>6, ReservedFits DEF Fitted
  <1>7. Moved(a, rec)
    BY <1>2, <1>4, <1>5, <1>6, <1>10 DEF Moved, Ending, Away
  <1>8. disturbed' = disturbed
    BY DEF Assign
  <1> QED
    BY <1>2, <1>3, <1>6, <1>7, <1>8, OneMoves DEF Ending, Away

LEMMA BeginMoves ==
    ASSUME AgentTypes, ProfileTypes, Working, NEW a \in Ids, Begin(a)
    PROVE  RowsMove
  <1>1. PICK p \in Profiles(a) :
            agents' = [agents EXCEPT ![a].status = "running", ![a].as = {p}]
    BY DEF Begin
  <1>2. agents[a].status = "claiming" /\ disturbed' = disturbed
    BY DEF Begin
  <1> DEFINE rec == [agents[a] EXCEPT !.status = "running", !.as = {p}]
  <1>3. agents' = [agents EXCEPT ![a] = rec]
    BY <1>1 DEF Ids
  <1>4. p \in ProfileRow
    <2>1. p \in DOMAIN registered
      BY <1>1 DEF Profiles, FindBest, FindWorkers
    <2> QED
      BY <2>1 DEF ProfileTypes
  <1>5. agents[a].profile \in DOMAIN registered => p = agents[a].profile
    BY <1>1 DEF Profiles
  <1>6. /\ agents[a] \in AgentRow /\ agents[a].task # "none"
        /\ agents[a].task \in DOMAIN plan[agents[a].run] \cup {"none"}
    BY <1>2, SameRow DEF AgentTypes, Working
  <1>7. /\ rec \in AgentRow /\ rec.run = agents[a].run /\ rec.profile = agents[a].profile
        /\ rec.parent = agents[a].parent /\ rec.task = agents[a].task
        /\ rec.status = "running" /\ rec.as = {p}
    BY <1>4, <1>6 DEF AgentRow, AgentStatus
  <1> HIDE DEF rec
  <1>8. Moved(a, rec)
    BY <1>2, <1>5, <1>6, <1>7 DEF Moved, Ending, Away
  <1> QED
    BY <1>2, <1>3, <1>7, <1>8, OneMoves DEF Ending, Away

LEMMA ReturnMoves ==
    ASSUME AgentTypes, Working, NEW a \in Ids, Return(a)
    PROVE  RowsMove
  <1>1. /\ agents[a].status \in {"claiming", "running", "stopping"}
        /\ agents' = [agents EXCEPT ![a] = Freed(a)] /\ disturbed' = disturbed
    BY DEF Return, Busy
  <1> DEFINE rec == Freed(a)
  <1>2. agents[a] \in AgentRow
    BY SameRow
  <1>3. /\ rec \in AgentRow /\ rec.run = agents[a].run /\ rec.profile = agents[a].profile
        /\ rec.parent = agents[a].parent /\ rec.task = "none" /\ rec.as = {}
        /\ rec.status = IF agents[a].status = "stopping" THEN "stopped" ELSE "idle"
    BY <1>2 DEF AgentRow, AgentStatus, Freed
  <1> HIDE DEF rec
  <1>4. Moved(a, rec)
    BY <1>1, <1>3 DEF Moved, Ending, Away
  <1>5. agents' = [agents EXCEPT ![a] = rec]
    BY <1>1 DEF rec
  <1> QED
    BY <1>1, <1>3, <1>4, <1>5, OneMoves DEF Ending, Away

\* An agent is told to stop.
LEMMA StopMoves ==
    ASSUME AgentTypes, Working, NEW a \in Ids,
           agents[a].status \notin {"stopping", "stopped"},
           agents' = [agents EXCEPT ![a] = Stopped(a)], disturbed \subseteq disturbed',
           agents[a].status = "gone" \/ agents[a].parent # 0 \/ agents[a].run \in disturbed'
    PROVE  RowsMove /\ agents'[a].status \in Ending
  <1> DEFINE rec == Stopped(a)
  <1>1. agents[a] \in AgentRow /\ Moved(a, agents[a]) /\ agents \in Seq(AgentRow)
    BY SameRow DEF AgentTypes
  <1>2. /\ rec \in AgentRow /\ rec.run = agents[a].run /\ rec.profile = agents[a].profile
        /\ rec.parent = agents[a].parent /\ rec.task = agents[a].task
        /\ rec.as = agents[a].as
        /\ rec.status = IF a \in Busy THEN "stopping" ELSE "stopped"
    BY <1>1 DEF AgentRow, AgentStatus, Stopped
  <1> HIDE DEF rec
  <1>3. rec.status \in Ending
    BY <1>2 DEF Ending
  <1>4. rec.as # {} => rec.status = "stopping" /\ rec.task # "none"
    BY <1>1, <1>2 DEF Moved, Busy
  <1>5. agents[a].status \in {"stopped", "gone"} => rec.status = "stopped"
    BY <1>2 DEF Busy
  <1>6. Moved(a, rec)
    BY <1>1, <1>2, <1>3, <1>4, <1>5 DEF Moved, Ending, Away
  <1>7. agents' = [agents EXCEPT ![a] = rec]
    BY DEF rec
  <1>8. agents'[a] = rec
    BY <1>1, <1>7 DEF Ids
  <1> QED
    BY <1>3, <1>6, <1>7, <1>8, OneMoves DEF Ending, Away

\* A paused agent goes on, or one that goes on pauses, or one that ends is reaped.
LEMMA StatusMoves ==
    ASSUME AgentTypes, Working, NEW a \in Ids, NEW status \in AgentStatus,
           agents[a].as = {}, status \notin {"claiming", "running"},
           agents[a].status \in Ending => status \in Ending,
           agents[a].status \in {"stopped", "gone"} => status \in {"stopped", "gone"},
           agents' = [agents EXCEPT ![a].status = status], disturbed \subseteq disturbed',
           status \in Away => agents[a].status \in Away \/ agents[a].run \in disturbed'
    PROVE  RowsMove
  <1> DEFINE rec == [agents[a] EXCEPT !.status = status]
  <1>1. agents[a] \in AgentRow /\ Moved(a, agents[a])
    BY SameRow
  <1>2. /\ rec \in AgentRow /\ rec.run = agents[a].run /\ rec.profile = agents[a].profile
        /\ rec.parent = agents[a].parent /\ rec.task = agents[a].task
        /\ rec.as = {} /\ rec.status = status
    BY <1>1 DEF AgentRow
  <1>3. agents' = [agents EXCEPT ![a] = rec]
    BY DEF Ids
  <1> HIDE DEF rec
  <1>4. Moved(a, rec)
    BY <1>1, <1>2 DEF Moved
  <1> QED
    BY <1>2, <1>3, <1>4, OneMoves

LEMMA ReapMoves ==
    ASSUME AgentTypes, Working, NEW a \in Ids, agents[a].status = "stopping",
           agents[a].task = "none", agents' = [agents EXCEPT ![a].status = "stopped"], disturbed' = disturbed
    PROVE  RowsMove
  <1>1. "stopped" \in AgentStatus /\ "stopped" \in Ending /\ "stopping" \in Away
    BY DEF AgentStatus, Ending, Away
  <1>2. agents[a].as = {}
    BY DEF AgentTypes
  <1> QED
    BY <1>1, <1>2, StatusMoves

LEMMA RestartMoves ==
    ASSUME AgentTypes, Working, restarts \in Nat, Restart
    PROVE  RowsMove /\ \A a \in Ids : agents'[a].status = Restored(a) /\ agents'[a].task = "none"
  <1> DEFINE rec(a) == [agents[a] EXCEPT !.status = Restored(a), !.task = "none", !.as = {}]
  <1>1. agents' = [a \in Ids |-> rec(a)] /\ disturbed' = disturbed /\ restarts' # restarts
    <2>1. agents' = [a \in Ids |-> rec(a)] /\ disturbed' = disturbed
      BY Zenon DEF Restart
    <2>2. restarts' = restarts + 1
      BY DEF Restart
    <2>3. restarts' # restarts
      BY <2>2
    <2> QED
      BY <2>1, <2>3
  <1>2. ASSUME NEW a \in Ids
        PROVE  /\ rec(a) \in AgentRow /\ rec(a).run = agents[a].run
               /\ rec(a).profile = agents[a].profile /\ rec(a).parent = agents[a].parent
               /\ rec(a).task = "none" /\ rec(a).as = {} /\ rec(a).status = Restored(a)
               /\ rec(a).status \notin {"claiming", "running"}
               /\ rec(a).status \in Away => agents[a].status \in Away
               /\ agents[a].status \in {"stopped", "gone"} => rec(a).status = "gone"
    <2>1. agents[a] \in AgentRow /\ agents[a].status \in AgentStatus
      BY SameRow
    <2> DEFINE s == Restored(a)
    <2>2. /\ s \in AgentStatus /\ s \notin {"claiming", "running"}
          /\ s \in Away => agents[a].status \in Away
          /\ agents[a].status \in {"stopped", "gone"} => s = "gone"
      <3>1. CASE agents[a].status \in {"stopped", "gone"}
        <4>1. s = "gone"
          BY <3>1 DEF Restored
        <4> QED
          BY <3>1, <4>1 DEF AgentStatus, Ending, Away
      <3>2. CASE /\ agents[a].status \notin {"stopped", "gone"}
                 /\ agents[a].status \in {"claiming", "running"} \/ a \in unsaved
        <4>1. s = "idle"
          BY <3>2 DEF Restored
        <4> QED
          BY <3>2, <4>1 DEF AgentStatus, Ending, Away
      <3>3. CASE agents[a].status \notin {"stopped", "gone", "claiming", "running"}
                 /\ a \notin unsaved
        <4>1. s = agents[a].status
          BY <3>3 DEF Restored
        <4> QED
          BY <2>1, <3>3, <4>1 DEF Ending, Away
      <3> QED
        BY <3>1, <3>2, <3>3
    <2>3. rec(a) = [agents[a] EXCEPT !.status = s, !.task = "none", !.as = {}]
      BY <2>1 DEF AgentRow
    <2> HIDE DEF s
    <2>4. /\ rec(a) \in AgentRow /\ rec(a).run = agents[a].run
          /\ rec(a).profile = agents[a].profile /\ rec(a).parent = agents[a].parent
          /\ rec(a).task = "none" /\ rec(a).as = {} /\ rec(a).status = s
      BY <2>1, <2>2, <2>3 DEF AgentRow
    <2> QED
      BY <2>2, <2>4 DEF s
  <1> HIDE DEF rec
  <1>3. Ids = 1..Len(agents) /\ Len(agents) \in Nat
    BY DEF AgentTypes, Ids
  <1>4. agents' \in Seq(AgentRow) /\ DOMAIN agents' = Ids
    BY <1>1, <1>2, <1>3
  <1>5. \A a \in Ids : Moved(a, agents'[a])
    BY <1>1, <1>2 DEF Moved
  <1> QED
    BY <1>1, <1>2, <1>4, <1>5 DEF RowsMove

LEMMA NobodyMoves ==
    ASSUME AgentTypes, Working, UNCHANGED <<agents, disturbed>>
    PROVE  RowsMove
  <1>1. agents \in Seq(AgentRow)
    BY DEF AgentTypes
  <1> QED
    BY <1>1, SameRow DEF RowsMove, Ids

LEMMA MovesKeepAgents ==
    ASSUME AgentTypes, Working, RowsMove, UNCHANGED plan
    PROVE  AgentTypes' /\ Working'
  <1>1. Ids' = Ids /\ \A a \in Ids : Moved(a, agents'[a])
    BY DEF RowsMove, Ids
  <1>2. Working'
    <2>1. \A a \in Ids : agents'[a].status = "claiming" => Fitted(agents[a])'
      <3> SUFFICES ASSUME NEW a \in Ids, agents'[a].status = "claiming"
                   PROVE  Fitted(agents[a])'
        OBVIOUS
      <3>1. Fitted(agents'[a])
        BY <1>1 DEF Moved
      <3> QED
        BY <3>1 DEF Fitted, Needs
    <2>2. \A a \in Ids : agents'[a].status \in {"claiming", "running"} =>
                             agents'[a].task # "none"
      BY <1>1 DEF Moved
    <2> QED
      BY <1>1, <2>1, <2>2 DEF Working
  <1>3. agents' \in Seq(AgentRow)
    BY DEF RowsMove
  <1>4. \A a \in Ids : /\ agents'[a].as # {} => agents'[a].status \in {"running", "stopping"} /\ agents'[a].task # "none"
                       /\ agents'[a].parent \in 0..(a - 1)
                       /\ agents'[a].task \in DOMAIN plan[agents'[a].run] \cup {"none"}
    BY <1>1 DEF Moved, AgentTypes
  <1> QED
    BY <1>1, <1>2, <1>3, <1>4 DEF AgentTypes

LEMMA MovesKeepCalls ==
    ASSUME CallTypes, RowsMove, UNCHANGED <<call, links>>
    PROVE  CallTypes'
  <1>1. Ids' = Ids /\ \A a \in Ids : agents'[a].parent = agents[a].parent
    BY DEF RowsMove, Ids, Moved
  <1> QED
    BY <1>1 DEF CallTypes

\* Whoever moves is not one whose row says something else.
LEMMA MovesKeepVetoes ==
    ASSUME Vetoes, RowsMove, UNCHANGED <<vetoed, restarts>>, events' \in Nat,
           unsaved' \subseteq unsaved, \A a \in unsaved' : agents'[a] = agents[a],
           \A a \in Ids : call'[a].at \in {"created", "linked"} =>
               call[a].at \in {"created", "linked"} /\ call'[a].child = call[a].child
    PROVE  Vetoes'
  <1>1. Ids' = Ids /\ \A a \in Ids : agents[a].status \in Ending => agents'[a].status \in Ending
    BY DEF RowsMove, Ids, Moved
  <1>2. RestartTypes'
    BY <1>1 DEF Vetoes, RestartTypes
  <1>3. VetoedChildrenEnd'
    BY <1>1 DEF Vetoes, RestartTypes, VetoedChildrenEnd, Ending
  <1>4. Pending'
    BY <1>1 DEF Vetoes, Pending
  <1> QED
    BY <1>2, <1>3, <1>4 DEF Vetoes

LEMMA CallsKeepVetoes ==
    ASSUME AgentTypes, Working, Vetoes, UNCHANGED <<agents, disturbed, vetoed, unsaved, restarts>>,
           events' \in Nat,
           \A a \in Ids : call'[a].at \in {"created", "linked"} =>
               call[a].at \in {"created", "linked"} /\ call'[a].child = call[a].child
    PROVE  Vetoes'
  BY NobodyMoves, MovesKeepVetoes

LEMMA MovesKeepCut ==
    ASSUME AgentTypes, Cut, RowsMove, UNCHANGED <<registered, restarts>>
    PROVE  Cut'
  <1>1. /\ Ids' = Ids
        /\ \A a \in Ids : /\ agents'[a].profile = agents[a].profile
                          /\ agents'[a].parent = agents[a].parent
                          /\ agents[a].profile \in DOMAIN registered =>
                               agents'[a].as \subseteq agents[a].as \cup {agents[a].profile}
    BY DEF RowsMove, Ids, Moved
  <1> SUFFICES ASSUME restarts = 0
               PROVE  /\ \A p \in DOMAIN registered : p.under = <<>> \/ Derived(p)'
                      /\ \A a \in Ids : CutDown(a)'
    BY <1>1 DEF Cut
  <1>2. ASSUME NEW p \in DOMAIN registered, Derived(p) PROVE Derived(p)'
    BY <1>1, <1>2 DEF Derived, Restricted
  <1>3. ASSUME NEW a \in Ids PROVE CutDown(a)'
    <2>1. CutDown(a)
      BY DEF Cut
    <2>2. a \in Nat /\ Ids = 1..Len(agents) /\ agents[a].parent \in 0..(a - 1)
      BY DEF AgentTypes, Ids
    <2>3. agents[a].parent # 0 => agents[a].parent \in Ids
      <3>1. Len(agents) \in Nat
        BY DEF AgentTypes
      <3> QED
        BY <2>2, <3>1
    <2> QED
      BY <1>1, <2>1, <2>3 DEF CutDown
  <1> QED
    BY <1>2, <1>3 DEF Cut

\* Which agents are alive.
LEMMA FiniteTeam ==
    ASSUME AgentTypes, NEW r, NEW p
    PROVE  /\ IsFiniteSet(Ids)
           /\ IsFiniteSet(Built(r, p)) /\ Cardinality(Built(r, p)) \in Nat
           /\ Built(r, p) \subseteq Ids
  <1>1. IsFiniteSet(Ids)
    <2>1. Ids = 1..Len(agents) /\ Len(agents) \in Nat
      BY DEF AgentTypes, Ids
    <2> QED
      BY <2>1, UpTo
  <1>2. Built(r, p) \in SUBSET Ids
    BY DEF Built, Live
  <1> QED
    BY <1>1, <1>2, FS_Subset, FS_CardinalityType

LEMMA FinitePlan ==
    ASSUME PlanTypes, NEW r \in Runs, NEW t
    PROVE  IsFiniteSet(Level(r, t)) /\ Cardinality(Level(r, t)) \in Nat
  <1>1. Level(r, t) \in SUBSET (DOMAIN plan[r])
    BY DEF Level
  <1> QED
    BY <1>1, FS_Subset, FS_CardinalityType DEF PlanTypes

\* Fewer are few enough.
LEMMA FewerAreFew ==
    ASSUME PlanTypes, NEW r \in Runs, NEW few, NEW fewer \in SUBSET few,
           IsFiniteSet(few), FewEnough(r, few)
    PROVE  FewEnough(r, fewer)
  <1>1. /\ Cardinality(fewer) <= Cardinality(few)
        /\ Cardinality(fewer) \in Nat /\ Cardinality(few) \in Nat
    BY FS_Subset, FS_CardinalityType
  <1>2. MaxParallel \in Nat
    BY StaffingAssumption
  <1> QED
    BY <1>1, <1>2, FinitePlan DEF FewEnough

LEMMA MovesKeepSparse ==
    ASSUME AgentTypes, PlanTypes, Sparse, RowsMove, UNCHANGED plan
    PROVE  Sparse'
  <1>1. /\ Ids' = Ids
        /\ \A a \in Ids : /\ agents'[a].profile = agents[a].profile
                          /\ agents'[a].run = agents[a].run
                          /\ agents'[a].parent = agents[a].parent
                          /\ agents[a].status \in {"stopped", "gone"} =>
                               agents'[a].status \in {"stopped", "gone"}
    BY DEF RowsMove, Ids, Moved
  <1>2. \A r, p : Built(r, p)' \subseteq Built(r, p)
    BY <1>1 DEF Built, Live
  <1>3. ASSUME NEW r \in Runs, NEW b \in Ids, Built(r, agents[b].profile)' # {}
        PROVE  FewEnough(r, Built(r, agents[b].profile))'
    <2> DEFINE p == agents[b].profile
               fewer == Built(r, p)'
    <2>1. p' = p
      BY <1>1
    <2>2. Built(r, p)' = fewer /\ fewer # {}
      BY <1>3
    <2>3. fewer \in SUBSET Built(r, p)
      BY <1>2, <2>1 DEF Built, Live
    <2>4. FewEnough(r, Built(r, p)) /\ IsFiniteSet(Built(r, p))
      BY <2>2, <2>3, FiniteTeam DEF Sparse
    <2>5. FewEnough(r, fewer)
      <3> HIDE DEF fewer
      <3> QED
        BY <2>3, <2>4, FewerAreFew
    <2> QED
      BY <2>5 DEF FewEnough, Level
  <1> QED
    BY <1>1, <1>3 DEF Sparse

Started == {"staffed", "ended", "stuck"}

LEMMA MovesKeepTeams ==
    ASSUME PlanTypes, Unborn, Serving, RowsMove, UNCHANGED plan,
           \A r \in Runs : phase'[r] \in Started => phase[r] \in Started,
           \A r \in Runs : phase'[r] = "new" => phase[r] = "new"
    PROVE  Unborn' /\ Serving'
  <1>1. /\ Ids' = Ids
        /\ \A a \in Ids : /\ agents'[a].profile = agents[a].profile
                          /\ agents'[a].run = agents[a].run
                          /\ agents'[a].parent = agents[a].parent
    BY DEF RowsMove, Ids, Moved
  <1>2. \A r : AgentsOf(r)' = AgentsOf(r)
    BY <1>1 DEF AgentsOf
  <1>3. Unborn'
    BY <1>2 DEF Unborn
  <1>4. ASSUME NEW r \in Runs, Served(r) PROVE Served(r)'
    BY <1>1, <1>4 DEF Served, Serves, Needs
  <1>5. ASSUME NEW r \in Runs, r \notin disturbed', NEW a \in AgentsOf(r), agents[a].parent = 0
        PROVE  agents'[a].status \notin Away
    BY <1>5 DEF RowsMove, Serving, AgentsOf
  <1>6. ASSUME NEW r \in Runs, r \notin disturbed'
        PROVE  /\ AgentsOf(r)' # {} => Served(r)'
               /\ phase'[r] \in Started => Served(r)'
               /\ \A a \in AgentsOf(r)' : agents'[a].parent = 0 => agents'[a].status \notin Away
    <2>1. r \in Runs \ disturbed
      BY <1>6 DEF RowsMove
    <2>2. /\ AgentsOf(r) # {} => Served(r)
          /\ phase[r] \in Started => Served(r)
      BY <2>1 DEF Serving, Started
    <2>3. \A a \in AgentsOf(r) : a \in Ids
      BY DEF AgentsOf
    <2> QED
      BY <1>1, <1>2, <1>4, <1>5, <1>6, <2>2, <2>3
  <1> QED
    BY <1>3, <1>6 DEF Serving, Started
LEMMA RolesKept ==
    ASSUME BuilderStaffs, UNCHANGED plan,
           \A r \in Runs : phase'[r] = "unstaffed" => phase[r] = "unstaffed"
    PROVE  BuilderStaffs'
  BY DEF BuilderStaffs, Needs

LEMMA ServiceKept ==
    ASSUME TeamsServe, UNCHANGED plan, disturbed \subseteq disturbed',
           \A r \in Runs : phase'[r] = "stuck" => phase[r] = "stuck"
    PROVE  TeamsServe'
  BY DEF TeamsServe, Known, Needs

\* Of steps that bring no agents, what is left to show.
LEMMA MovesKeepInv ==
    ASSUME StaffInv, RowsMove, UNCHANGED plan,
           ProfileTypes', CallTypes', PlanTypes', Vetoes', Cut', BuilderStaffs', TeamsServe',
           \A r \in Runs : phase'[r] \in Started => phase[r] \in Started,
           \A r \in Runs : phase'[r] = "new" => phase[r] = "new"
    PROVE  StaffInv'
  <1>1. AgentTypes' /\ Working'
    BY MovesKeepAgents DEF StaffInv, StaffTypes
  <1>2. Unborn' /\ Serving'
    BY MovesKeepTeams DEF StaffInv, StaffTypes
  <1>3. Sparse'
    BY MovesKeepSparse DEF StaffInv, StaffTypes
  <1> QED
    BY <1>1, <1>2, <1>3 DEF StaffInv, StaffTypes, Vetoes

\* Steps of one agent that leave profiles, calls and phases alone.
LEMMA QuietMove ==
    ASSUME StaffInv, RowsMove, UNCHANGED <<registered, call, links, vetoed, plan, phase, restarts>>,
           unsaved' \subseteq unsaved, \A a \in unsaved' : agents'[a] = agents[a],
           PlanTypes', events' \in Nat
    PROVE  StaffInv'
  <1>1. ProfileTypes'
    BY DEF ProfileTypes, StaffInv, StaffTypes
  <1>2. CallTypes' /\ Vetoes' /\ Cut'
    BY MovesKeepCalls, MovesKeepVetoes, MovesKeepCut DEF StaffInv, StaffTypes
  <1>3. BuilderStaffs' /\ TeamsServe'
    BY RolesKept, ServiceKept DEF StaffInv, RowsMove
  <1> QED
    BY <1>1, <1>2, <1>3, MovesKeepInv

\* One agent moves, and its row with it.
LEMMA OthersStay ==
    ASSUME AgentTypes, NEW a \in Ids, NEW rec, agents' = [agents EXCEPT ![a] = rec],
           unsaved' \subseteq unsaved \ {a}, unsaved \subseteq Ids
    PROVE  \A b \in unsaved' : agents'[b] = agents[b]
  BY DEF AgentTypes, Ids

LEMMA EventCounted == ASSUME StaffTypes, Event PROVE events' \in Nat
  BY DEF StaffTypes, RestartTypes, Event

LEMMA AssignKeeps ==
    ASSUME StaffInv, NEW r \in Runs, NEW t \in DOMAIN plan[r], Assign(r, t)
    PROVE  StaffInv'
  <1>1. RowsMove
    BY AssignMoves DEF StaffInv, StaffTypes
  <1>2. UNCHANGED <<registered, call, links, vetoed, plan, done, phase, disturbed, unsaved, restarts, events>>
    BY DEF Assign, process
  <1>3. PlanTypes' /\ events' \in Nat
    BY <1>2 DEF StaffInv, StaffTypes, PlanTypes, RestartTypes
  <1>4. \A b \in unsaved' : agents'[b] = agents[b]
    <2>1. PICK a \in Reservable(r, Needs(r, t)) :
              agents' = [agents EXCEPT ![a].status = "claiming", ![a].task = t]
      BY DEF Assign
    <2>2. a \notin unsaved
      BY <2>1 DEF Reservable, Idle, StaffInv, StaffTypes, RestartTypes
    <2> QED
      BY <1>2, <2>1, <2>2 DEF StaffInv, StaffTypes, AgentTypes, RestartTypes, Ids
  <1> QED
    BY <1>1, <1>2, <1>3, <1>4, QuietMove

LEMMA BeginKeeps ==
    ASSUME StaffInv, NEW a \in Ids, Begin(a)
    PROVE  StaffInv'
  <1>1. RowsMove
    BY BeginMoves DEF StaffInv, StaffTypes
  <1>2. UNCHANGED <<registered, call, links, vetoed, plan, done, phase, disturbed, unsaved, restarts, events>>
    BY DEF Begin, process
  <1>3. PlanTypes' /\ events' \in Nat
    BY <1>2 DEF StaffInv, StaffTypes, PlanTypes, RestartTypes
  <1>4. \A b \in unsaved' : agents'[b] = agents[b]
    <2>1. a \notin unsaved
      BY DEF Begin, StaffInv, StaffTypes, RestartTypes
    <2> QED
      BY <1>2, <2>1 DEF Begin, StaffInv, StaffTypes, AgentTypes, RestartTypes, Ids
  <1> QED
    BY <1>1, <1>2, <1>3, <1>4, QuietMove

LEMMA ReturnKeeps ==
    ASSUME StaffInv, NEW a \in Ids, Return(a)
    PROVE  StaffInv'
  <1>1. RowsMove
    BY ReturnMoves DEF StaffInv, StaffTypes
  <1>2. UNCHANGED <<registered, call, links, vetoed, plan, phase, disturbed, unsaved, restarts, events>>
    BY DEF Return, process
  <1>5. \A b \in unsaved' : agents'[b] = agents[b]
    <2>1. a \notin unsaved
      BY DEF Return, StaffInv, StaffTypes, RestartTypes
    <2> QED
      BY <1>2, <2>1, OthersStay DEF Return, StaffInv, StaffTypes, RestartTypes
  <1>3. done' \in [Runs -> SUBSET TaskNames] /\ \A r \in Runs : done'[r] \subseteq DOMAIN plan[r]
    <2>1. CASE UNCHANGED done
      BY <2>1 DEF StaffInv, StaffTypes, PlanTypes
    <2>2. CASE done' = [done EXCEPT ![agents[a].run] = @ \cup {agents[a].task}]
      <3>1. agents[a].run \in Runs /\ agents[a].task \in DOMAIN plan[agents[a].run]
        BY SameRow DEF Return, StaffInv, StaffTypes, AgentTypes
      <3>2. DOMAIN plan[agents[a].run] \subseteq TaskNames
        BY <3>1 DEF StaffInv, StaffTypes, PlanTypes
      <3> QED
        BY <2>2, <3>1, <3>2 DEF StaffInv, StaffTypes, PlanTypes
    <2> QED
      BY <2>1, <2>2 DEF Return
  <1>4. PlanTypes' /\ events' \in Nat
    BY <1>2, <1>3 DEF StaffInv, StaffTypes, PlanTypes, RestartTypes
  <1> QED
    BY <1>1, <1>2, <1>4, <1>5, QuietMove

LEMMA StopKeeps ==
    ASSUME StaffInv, NEW a \in Ids, StopAgent(a)
    PROVE  StaffInv'
  <1>1. /\ agents' = [agents EXCEPT ![a] = Stopped(a)] /\ unsaved' = unsaved \ {a}
        /\ disturbed' = disturbed \cup {agents[a].run}
        /\ agents[a].status \notin {"stopping", "stopped"}
    BY DEF StopAgent
  <1>2. RowsMove
    BY <1>1, StopMoves DEF StaffInv, StaffTypes
  <1>3. UNCHANGED <<registered, call, links, vetoed, plan, done, phase, restarts>>
    BY DEF StopAgent
  <1>4. agents[a].run \in Runs
    BY SameRow DEF StaffInv, StaffTypes
  <1>5. PlanTypes'
    BY <1>1, <1>3, <1>4 DEF StaffInv, StaffTypes, PlanTypes
  <1>6. events' \in Nat
    BY EventCounted DEF StopAgent, StaffInv
  <1>7. \A b \in unsaved' : agents'[b] = agents[b]
    BY <1>1, OthersStay DEF StaffInv, StaffTypes, RestartTypes
  <1> QED
    BY <1>1, <1>2, <1>3, <1>5, <1>6, <1>7, QuietMove

LEMMA PauseKeeps ==
    ASSUME StaffInv, NEW a \in Ids, PauseAgent(a)
    PROVE  StaffInv'
  <1>1. /\ agents' = [agents EXCEPT ![a].status = "blocked"] /\ agents[a].status = "idle"
        /\ disturbed' = disturbed \cup {agents[a].run}
    BY DEF PauseAgent, Idle
  <1>2. UNCHANGED <<registered, call, links, vetoed, plan, done, phase, unsaved, restarts>>
    BY DEF PauseAgent
  <1>3. agents[a].run \in Runs /\ agents[a].as = {}
    BY <1>1, SameRow DEF StaffInv, StaffTypes, AgentTypes
  <1>4. RowsMove
    <2>1. "blocked" \in AgentStatus /\ "idle" \notin Ending
      BY DEF AgentStatus, Ending
    <2> QED
      BY <1>1, <1>3, <2>1, StatusMoves DEF StaffInv, StaffTypes
  <1>5. PlanTypes' /\ events' \in Nat
    BY <1>1, <1>2, <1>3, EventCounted DEF StaffInv, StaffTypes, PlanTypes, PauseAgent
  <1>6. \A b \in unsaved' : agents'[b] = agents[b]
    <2>1. a \notin unsaved
      BY <1>1 DEF StaffInv, StaffTypes, RestartTypes
    <2> QED
      BY <1>1, <1>2, <2>1 DEF StaffInv, StaffTypes, AgentTypes, RestartTypes, Ids
  <1> QED
    BY <1>2, <1>4, <1>5, <1>6, QuietMove

LEMMA ResumeKeeps ==
    ASSUME StaffInv, NEW a \in Ids, ResumeAgent(a)
    PROVE  StaffInv'
  <1>1. /\ agents' = [agents EXCEPT ![a].status = "idle"] /\ agents[a].status = "blocked"
        /\ unsaved' = unsaved \ {a}
    BY DEF ResumeAgent
  <1>2. UNCHANGED <<registered, call, links, vetoed, plan, done, phase, disturbed, restarts, events>>
    BY DEF ResumeAgent
  <1>3. agents[a].as = {}
    BY <1>1 DEF StaffInv, StaffTypes, AgentTypes
  <1>4. RowsMove
    <2>1. "idle" \in AgentStatus /\ "idle" \notin Away /\ "blocked" \notin Ending
      BY DEF AgentStatus, Away, Ending
    <2> QED
      BY <1>1, <1>2, <1>3, <2>1, StatusMoves DEF StaffInv, StaffTypes
  <1>5. PlanTypes' /\ events' \in Nat
    BY <1>2 DEF StaffInv, StaffTypes, PlanTypes, RestartTypes
  <1>6. \A b \in unsaved' : agents'[b] = agents[b]
    BY <1>1 DEF StaffInv, StaffTypes, AgentTypes, RestartTypes, Ids
  <1> QED
    BY <1>1, <1>2, <1>4, <1>5, <1>6, QuietMove

LEMMA ReapKeeps ==
    ASSUME StaffInv, NEW a \in Ids, ReapStopping(a)
    PROVE  StaffInv'
  <1>1. /\ agents' = [agents EXCEPT ![a].status = "stopped"] /\ agents[a].status = "stopping"
        /\ agents[a].task = "none" /\ unsaved' = unsaved \ {a}
    BY DEF ReapStopping
  <1>2. UNCHANGED <<registered, call, links, vetoed, plan, done, phase, disturbed, restarts, events>>
    BY DEF ReapStopping
  <1>4. RowsMove
    BY <1>1, <1>2, ReapMoves DEF StaffInv, StaffTypes
  <1>5. PlanTypes' /\ events' \in Nat
    BY <1>2 DEF StaffInv, StaffTypes, PlanTypes, RestartTypes
  <1>6. \A b \in unsaved' : agents'[b] = agents[b]
    BY <1>1 DEF StaffInv, StaffTypes, AgentTypes, RestartTypes, Ids
  <1> QED
    BY <1>1, <1>2, <1>4, <1>5, <1>6, QuietMove

LEMMA DefaultsAreProfiles == Defaults \subseteq ProfileRow /\ \A p \in Defaults : p.under = <<>>
  <1>1. <<>> \in Seq(Nat)
    OBVIOUS
  <1>2. ASSUME NEW role \in Roles
        PROVE  Profile(role, <<>>) \in ProfileRow /\ Profile(role, <<>>).under = <<>>
    BY <1>1 DEF Profile, ProfileRow
  <1> QED
    BY <1>2 DEF Defaults

LEMMA RestartKeeps ==
    ASSUME StaffInv, Restart
    PROVE  StaffInv'
  <1>0. restarts \in Nat /\ events \in Nat
    BY DEF StaffInv, StaffTypes, RestartTypes
  <1>1. RowsMove /\ \A a \in Ids : agents'[a].status = Restored(a) /\ agents'[a].task = "none"
    BY <1>0, RestartMoves DEF StaffInv, StaffTypes
  <1>2. /\ UNCHANGED <<links, vetoed, plan, done, phase, disturbed, events>>
        /\ restarts' = restarts + 1
        /\ unsaved' = {a \in Ids : Restored(a) \in {"stopping", "blocked"}}
    BY DEF Restart
  <1>3. ProfileTypes'
    <2>1. registered' = [p \in Defaults |-> Tools[p.role]]
      BY DEF Restart
    <2> QED
      BY <2>1, DefaultsAreProfiles DEF ProfileTypes
  <1>4. Ids' = Ids /\ Ids = 1..Len(agents) /\ Len(agents) \in Nat
    BY <1>1 DEF RowsMove, Ids, StaffInv, StaffTypes, AgentTypes
  <1>5. CallTypes'
    <2>1. call' = [a \in Ids |-> NoCall]
      BY DEF Restart
    <2>2. NoCall \in CallRow /\ NoCall.at = "none"
      BY DEF NoCall, CallRow
    <2>3. call' \in Seq(CallRow) /\ DOMAIN call' = Ids /\ \A a \in Ids : call'[a].at = "none"
      BY <1>4, <2>1, <2>2
    <2> QED
      BY <1>2, <1>4, <2>3 DEF CallTypes, StaffInv, StaffTypes
  <1>6. Vetoes'
    <2>1. /\ DOMAIN vetoed \subseteq Ids
          /\ \A a \in DOMAIN vetoed : vetoed[a] \in Nat /\ vetoed[a] <= restarts
      BY DEF StaffInv, StaffTypes, RestartTypes
    <2>2. RestartTypes'
      BY <1>0, <1>1, <1>2, <1>4, <2>1 DEF RestartTypes
    <2>3. ASSUME NEW a \in DOMAIN vetoed
          PROVE  Restored(a) \in Ending \/ restarts + 1 >= vetoed[a] + 2
      <3>1. CASE a \in unsaved
        <4>1. restarts > vetoed[a]
          BY <3>1 DEF StaffInv, Vetoes, Pending
        <4> QED
          BY <1>0, <2>1, <4>1
      <3>2. CASE a \notin unsaved
        <4>1. agents[a].status \in Ending \/ restarts >= vetoed[a] + 2
          BY DEF StaffInv, Vetoes, VetoedChildrenEnd, Ending
        <4>2. agents[a].status \in Ending => Restored(a) \in Ending
          BY <3>2 DEF Restored, Ending
        <4> QED
          BY <1>0, <2>1, <4>1, <4>2
      <3> QED
        BY <3>1, <3>2
    <2>4. VetoedChildrenEnd'
      BY <1>1, <1>2, <2>1, <2>3 DEF VetoedChildrenEnd, Ending
    <2>5. Pending'
      <3>1. \A a \in Ids : call'[a] = NoCall /\ NoCall.at = "none"
        BY DEF Restart, NoCall
      <3>2. \A a \in unsaved' : a \in DOMAIN vetoed => restarts + 1 > vetoed[a]
        BY <1>0, <2>1
      <3> QED
        BY <1>2, <1>4, <3>1, <3>2 DEF Pending
    <2> QED
      BY <2>2, <2>4, <2>5 DEF Vetoes
  <1>7. Cut'
    BY <1>0, <1>2 DEF Cut
  <1>8. BuilderStaffs' /\ TeamsServe'
    BY <1>2, RolesKept, ServiceKept DEF StaffInv
  <1>9. PlanTypes'
    BY <1>2 DEF StaffInv, StaffTypes, PlanTypes
  <1> QED
    BY <1>1, <1>2, <1>3, <1>5, <1>6, <1>7, <1>8, <1>9, MovesKeepInv

LEMMA RepairKeeps ==
    ASSUME StaffInv, NEW r \in Runs, Repair(r)
    PROVE  StaffInv'
  <1>1. /\ UNCHANGED <<registered, agents, links, call, vetoed, plan, disturbed, unsaved, restarts>>
        /\ phase[r] = "ended" /\ phase' = [phase EXCEPT ![r] = "planned"]
    BY DEF Repair, registry
  <1>2. RowsMove
    BY <1>1, NobodyMoves DEF StaffInv, StaffTypes
  <1>3. PICK t \in done[r] : done' = [done EXCEPT ![r] = @ \ {t}]
    BY DEF Repair
  <1>4. PlanTypes'
    BY <1>1, <1>3 DEF StaffInv, StaffTypes, PlanTypes
  <1>5. events' \in Nat
    BY EventCounted DEF Repair, StaffInv
  <1>6. \A s \in Runs : phase'[s] = IF s = r THEN "planned" ELSE phase[s]
    BY <1>1 DEF StaffInv, StaffTypes, PlanTypes
  <1>7. /\ \A s \in Runs : phase'[s] \in Started => phase[s] \in Started
        /\ \A s \in Runs : phase'[s] = "new" => phase[s] = "new"
    BY <1>6 DEF Started
  <1>8. BuilderStaffs' /\ TeamsServe'
    BY <1>1, <1>6, RolesKept, ServiceKept DEF StaffInv
  <1>9. ProfileTypes' /\ CallTypes' /\ Vetoes' /\ Cut' /\ restarts' \in Nat
    <2>1. ProfileTypes' /\ restarts' \in Nat
      BY <1>1 DEF StaffInv, StaffTypes, ProfileTypes, RestartTypes
    <2> QED
      BY <1>1, <1>2, <1>5, <2>1, MovesKeepCalls, CallsKeepVetoes, MovesKeepCut DEF StaffInv, StaffTypes
  <1> QED
    BY <1>1, <1>2, <1>4, <1>5, <1>7, <1>8, <1>9, MovesKeepInv
-----------------------------------------------------------------------------
(* Staffing: plans, and how runs end                                         *)

LEMMA PlannedKeeps ==
    ASSUME StaffInv, NEW r \in Runs, NEW p, DOMAIN p \subseteq TaskNames, IsFiniteSet(DOMAIN p),
           Planned(r, p)
    PROVE  StaffInv'
  <1>1. /\ UNCHANGED <<registered, agents, links, call, vetoed, done, disturbed, unsaved, restarts, events>>
        /\ phase[r] = "new" /\ plan' = [plan EXCEPT ![r] = p]
        /\ phase' = [phase EXCEPT ![r] = "planned"]
    BY DEF Planned, registry, process
  <1>2. /\ plan'[r] = p /\ phase'[r] = "planned" /\ DOMAIN plan' = Runs
        /\ \A s \in Runs : s # r => plan'[s] = plan[s] /\ phase'[s] = phase[s]
    BY <1>1 DEF StaffInv, StaffTypes, PlanTypes
  <1>3. DOMAIN plan[r] = {} /\ \A a \in Ids : agents[a].run # r
    BY <1>1 DEF StaffInv, Unborn, AgentsOf
  <1>4. \A a \in Ids : agents[a].run \in Runs /\ plan'[agents[a].run] = plan[agents[a].run]
    BY <1>2, <1>3, SameRow DEF StaffInv, StaffTypes
  <1>5. AgentTypes' /\ Working' /\ ProfileTypes' /\ CallTypes' /\ Vetoes' /\ RestartTypes'
    <2>1. AgentTypes'
      BY <1>1, <1>4 DEF StaffInv, StaffTypes, AgentTypes, Ids
    <2>2. Working'
      BY <1>1, <1>4 DEF StaffInv, StaffTypes, Working, Fitted, Needs, Ids
    <2>3. RestartTypes' /\ VetoedChildrenEnd' /\ Pending'
      BY <1>1 DEF StaffInv, Vetoes, RestartTypes, VetoedChildrenEnd, Pending, Ids
    <2> QED
      BY <1>1, <2>1, <2>2, <2>3 DEF StaffInv, StaffTypes, ProfileTypes, CallTypes, Vetoes, Ids
  <1>6. PlanTypes'
    <2>1. done'[r] = {} /\ done' = done
      BY <1>1, <1>3 DEF StaffInv, StaffTypes, PlanTypes
    <2>2. \A s \in Runs : /\ DOMAIN plan'[s] \subseteq TaskNames /\ IsFiniteSet(DOMAIN plan'[s])
                          /\ done'[s] \subseteq DOMAIN plan'[s]
      <3> SUFFICES ASSUME NEW s \in Runs
                   PROVE  /\ DOMAIN plan'[s] \subseteq TaskNames /\ IsFiniteSet(DOMAIN plan'[s])
                          /\ done'[s] \subseteq DOMAIN plan'[s]
        OBVIOUS
      <3>1. CASE s = r
        BY <1>2, <2>1, <3>1
      <3>2. CASE s # r
        BY <1>2, <2>1, <3>2 DEF StaffInv, StaffTypes, PlanTypes
      <3> QED
        BY <3>1, <3>2
    <2> QED
      BY <1>1, <1>2, <2>1, <2>2 DEF StaffInv, StaffTypes, PlanTypes
  <1>7. \A s : AgentsOf(s)' = AgentsOf(s) /\ \A q : Built(s, q)' = Built(s, q)
    BY <1>1 DEF AgentsOf, Built, Live, Ids
  <1>8. AgentsOf(r) = {} /\ \A q : Built(r, q) = {}
    BY <1>3 DEF AgentsOf, Built, Live
  <1>9. Unborn'
    BY <1>2, <1>7 DEF StaffInv, Unborn
  <1>10. Serving'
    <2>1. ASSUME NEW s \in Runs, s # r, Served(s) PROVE Served(s)'
      BY <1>1, <1>2, <2>1 DEF Served, Serves, Needs, Ids
    <2>2. ASSUME NEW s \in Runs \ disturbed
          PROVE  /\ AgentsOf(s)' # {} => Served(s)'
                 /\ phase'[s] \in {"staffed", "ended", "stuck"} => Served(s)'
                 /\ \A a \in AgentsOf(s)' : agents'[a].parent = 0 => agents'[a].status \notin Away
      <3>1. CASE s = r
        BY <1>2, <1>7, <1>8, <3>1
      <3>2. CASE s # r
        BY <1>1, <1>2, <1>7, <2>1, <3>2 DEF StaffInv, Serving
      <3> QED
        BY <3>1, <3>2
    <2> QED
      BY <1>1, <2>2 DEF Serving
  <1>11. Cut'
    BY <1>1 DEF StaffInv, Cut, CutDown, Derived, Restricted, Ids
  <1>12. Sparse'
    <2>1. ASSUME NEW s \in Runs, NEW b \in Ids, Built(s, agents[b].profile) # {}
          PROVE  FewEnough(s, Built(s, agents[b].profile))'
      <3>1. s # r
        BY <1>8, <2>1
      <3>2. FewEnough(s, Built(s, agents[b].profile))
        BY <2>1 DEF StaffInv, Sparse
      <3>3. plan'[s] = plan[s] /\ Built(s, agents[b].profile)' = Built(s, agents[b].profile)
        BY <1>1, <1>2, <1>7, <3>1
      <3> QED
        BY <3>2, <3>3 DEF FewEnough, Level
    <2> QED
      BY <1>1, <1>7, <2>1 DEF Sparse, Ids
  <1>13. BuilderStaffs'
    BY <1>2 DEF StaffInv, BuilderStaffs, Needs
  <1>14. TeamsServe'
    BY <1>1, <1>2 DEF StaffInv, TeamsServe, Known, Needs
  <1> QED
    BY <1>1, <1>5, <1>6, <1>9, <1>10, <1>11, <1>12, <1>13, <1>14 DEF StaffInv, StaffTypes

LEMMA SupervisorKeeps ==
    ASSUME StaffInv, NEW r \in Runs, TeamSupervisor(r) \/ SinglePlan(r)
    PROVE  StaffInv'
  <1>1. CASE \E answer \in Answers : Planned(r, ModelPlan(answer))
    <2>1. PICK answer \in Answers : Planned(r, ModelPlan(answer))
      BY <1>1
    <2>2. DOMAIN ModelPlan(answer) = DOMAIN answer
      BY DEF ModelPlan
    <2>3. DOMAIN answer \subseteq TaskNames /\ IsFiniteSet(DOMAIN answer)
      BY PlanNames
    <2> QED
      BY <2>1, <2>2, <2>3, PlannedKeeps
  <1>2. CASE Planned(r, Fallback)
    BY <1>2, PlanNames, PlannedKeeps
  <1>3. CASE SinglePlan(r)
    <2>1. PICK needs \in Decisions : Planned(r, [execute |-> Step(needs, {})])
      BY <1>3 DEF SinglePlan
    <2>2. DOMAIN [execute |-> Step(needs, {})] = {"execute"}
      OBVIOUS
    <2>3. {"execute"} \subseteq TaskNames /\ IsFiniteSet({"execute"})
      BY PlanNames, FS_Singleton
    <2> QED
      BY <2>1, <2>2, <2>3, PlannedKeeps
  <1> QED
    BY <1>1, <1>2, <1>3 DEF TeamSupervisor

\* Whoever has a task's roles is matched.
LEMMA NobodyMatches ==
    ASSUME ProfileTypes, NEW r \in Runs, NEW t, Matches(r, Needs(r, t)) = {}
    PROVE  LET roles == Needs(r, t) \cap Primary
           IN  \/ roles = {}
               \/ \A role \in Teams[TeamOf[r]] : ~(roles \subseteq Caps[role])
  <1> DEFINE needs == Needs(r, t)
             roles == needs \cap Primary
  <1> HIDE DEF needs
  <1> SUFFICES ASSUME roles # {}, NEW role \in Teams[TeamOf[r]], roles \subseteq Caps[role]
               PROVE  FALSE
    BY DEF needs
  <1>1. role \in Roles
    <2>1. TeamOf[r] \in DOMAIN Teams
      BY StaffingAssumption
    <2>2. \A team \in DOMAIN Teams : Teams[team] \subseteq Roles
      BY DEF Teams, Roles, Caps
    <2> QED
      BY <2>1, <2>2
  <1> DEFINE p == Profile(role, <<>>)
  <1>2. p \in DOMAIN registered /\ p.role = role /\ CapsOf(p) = Caps[role]
    BY <1>1 DEF ProfileTypes, Defaults, Profile, CapsOf
  <1>3. p \in FindAllowed(r, roles)
    BY <1>2 DEF FindAllowed, FindWorkers
  <1>4. Matches(r, needs) = {}
    BY DEF needs
  <1> QED
    BY <1>3, <1>4 DEF Matches

LEMMA BuildFailsKeeps ==
    ASSUME StaffInv, NEW r \in Runs, BuildFails(r)
    PROVE  StaffInv'
  <1>1. /\ UNCHANGED <<registered, agents, links, call, vetoed, plan, done, disturbed, unsaved, restarts, events>>
        /\ phase[r] = "planned" /\ phase' = [phase EXCEPT ![r] = "unstaffed"]
    BY DEF BuildFails, registry, process
  <1>2. RowsMove
    BY <1>1, NobodyMoves DEF StaffInv, StaffTypes
  <1>3. \A s \in Runs : phase'[s] = IF s = r THEN "unstaffed" ELSE phase[s]
    BY <1>1 DEF StaffInv, StaffTypes, PlanTypes
  <1>4. /\ \A s \in Runs : phase'[s] \in Started => phase[s] \in Started
        /\ \A s \in Runs : phase'[s] = "new" => phase[s] = "new"
    BY <1>3 DEF Started
  <1>5. ProfileTypes' /\ PlanTypes' /\ restarts' \in Nat /\ events' \in Nat
    BY <1>1 DEF StaffInv, StaffTypes, ProfileTypes, PlanTypes, RestartTypes
  <1>6. CallTypes' /\ Vetoes' /\ Cut'
    BY <1>1, <1>2, <1>5, MovesKeepCalls, CallsKeepVetoes, MovesKeepCut DEF StaffInv, StaffTypes
  <1>7. TeamsServe'
    BY <1>1, <1>3, ServiceKept DEF StaffInv
  <1>8. BuilderStaffs'
    <2>1. PICK t \in DOMAIN plan[r] : Matches(r, Needs(r, t)) = {}
      BY DEF BuildFails
    <2>2. \/ Needs(r, t) \cap Primary = {}
          \/ \A role \in Teams[TeamOf[r]] : ~(Needs(r, t) \cap Primary \subseteq Caps[role])
      BY <2>1, NobodyMatches DEF StaffInv, StaffTypes
    <2>3. \A s \in Runs : s # r /\ phase'[s] = "unstaffed" => phase[s] = "unstaffed"
      BY <1>3
    <2> QED
      BY <1>1, <2>2, <2>3 DEF StaffInv, BuilderStaffs, Needs
  <1> QED
    BY <1>1, <1>2, <1>4, <1>5, <1>6, <1>7, <1>8, MovesKeepInv

\* Whom the builder took, the scheduler takes, if it knows all labels.
LEMMA FitsCanServe ==
    ASSUME NEW a, NEW needs, needs \subseteq Primary \cup Tooling,
           Fits(needs, CapsOf(agents[a].profile))
    PROVE  CanServe(a, needs)
  <1>1. Primary \cap Tooling = {}
    BY DEF Primary, Tooling
  <1>2. needs \ Tooling = needs \cap Primary
    BY <1>1
  <1> QED
    BY <1>2 DEF Fits, CanServe

LEMMA RunEndsKeeps ==
    ASSUME StaffInv, NEW r \in Runs, RunEnds(r)
    PROVE  StaffInv'
  <1>1. /\ UNCHANGED <<registered, agents, links, call, vetoed, plan, done, disturbed, unsaved, restarts, events>>
        /\ phase[r] = "staffed"
        /\ phase' = [phase EXCEPT ![r] = "ended"] \/ phase' = [phase EXCEPT ![r] = "stuck"]
    BY DEF RunEnds, registry, process
  <1>2. RowsMove
    BY <1>1, NobodyMoves DEF StaffInv, StaffTypes
  <1>3. /\ phase'[r] \in {"ended", "stuck"} /\ \A s \in Runs : s # r => phase'[s] = phase[s]
        /\ phase' \in [Runs -> {"new", "planned", "staffed", "unstaffed", "ended", "stuck"}]
    BY <1>1 DEF StaffInv, StaffTypes, PlanTypes
  <1>4. /\ \A s \in Runs : phase'[s] \in Started => phase[s] \in Started
        /\ \A s \in Runs : phase'[s] = "new" => phase[s] = "new"
        /\ \A s \in Runs : phase'[s] = "unstaffed" => phase[s] = "unstaffed"
    BY <1>1, <1>3 DEF Started
  <1>5. ProfileTypes' /\ PlanTypes' /\ restarts' \in Nat /\ events' \in Nat
    BY <1>1, <1>3 DEF StaffInv, StaffTypes, ProfileTypes, PlanTypes, RestartTypes
  <1>6. CallTypes' /\ Vetoes' /\ Cut'
    BY <1>1, <1>2, <1>5, MovesKeepCalls, CallsKeepVetoes, MovesKeepCut DEF StaffInv, StaffTypes
  <1>7. BuilderStaffs'
    BY <1>1, <1>4, RolesKept DEF StaffInv
  <1>8. TeamsServe'
    <2>1. ASSUME phase'[r] = "stuck", r \notin disturbed, Known(r) PROVE FALSE
      <3>1. Due(r) # {} /\ Serviceable(r) = {} /\ Taken(r) = {}
        <4>1. "ended" # "stuck"
          OBVIOUS
        <4>2. \/ phase' = [phase EXCEPT ![r] = "ended"]
              \/ Due(r) # {} /\ Serviceable(r) = {}
          BY DEF RunEnds
        <4>3. [phase EXCEPT ![r] = "ended"][r] = "ended"
          BY DEF StaffInv, StaffTypes, PlanTypes
        <4> QED
          BY <2>1, <4>1, <4>2, <4>3 DEF RunEnds
      <3>2. PICK t \in Due(r) : t \in DOMAIN plan[r]
        BY <3>1 DEF Due
      <3>3. Served(r)
        BY <1>1, <2>1 DEF StaffInv, Serving
      <3>4. PICK a \in Ids : Serves(a, r, t)
        BY <3>2, <3>3 DEF Served
      <3>5. /\ agents[a].run = r /\ agents[a].parent = 0
            /\ Fits(Needs(r, t), CapsOf(agents[a].profile))
        BY <3>4 DEF Serves
      <3>6. agents[a].status \in {"idle", "claiming", "running"}
        <4>1. agents[a].status \notin Away
          BY <2>1, <3>5 DEF StaffInv, Serving, AgentsOf
        <4>2. agents[a].status \in AgentStatus
          BY SameRow DEF StaffInv, StaffTypes
        <4> QED
          BY <4>1, <4>2 DEF AgentStatus, Ending, Away
      <3>7. agents[a].status \notin {"claiming", "running"}
        <4> SUFFICES ASSUME agents[a].status \in {"claiming", "running"} PROVE FALSE
          OBVIOUS
        <4>1. agents[a].task # "none"
          BY DEF StaffInv, Working
        <4>2. a \in {b \in Busy : agents[b].run = r}
          BY <3>5 DEF Busy
        <4>3. agents[a].task \in Taken(r)
          BY <4>1, <4>2 DEF Taken
        <4> QED
          BY <3>1, <4>3
      <3>8. CanServe(a, Needs(r, t))
        BY <2>1, <3>2, <3>5, FitsCanServe DEF Known
      <3>9. t \in Serviceable(r)
        BY <3>2, <3>5, <3>6, <3>7, <3>8 DEF Serviceable, Idle
      <3> QED
        BY <3>1, <3>9
    <2> QED
      BY <1>1, <1>3, <2>1 DEF StaffInv, TeamsServe, Known, Needs
  <1> QED
    BY <1>1, <1>2, <1>4, <1>5, <1>6, <1>7, <1>8, MovesKeepInv
-----------------------------------------------------------------------------
(* Staffing: teammates                                                       *)

LEMMA SpawnChecksKeeps ==
    ASSUME StaffInv, NEW a \in Ids, SpawnChecks(a)
    PROVE  StaffInv'
  <1>1. UNCHANGED <<registered, agents, links, vetoed, plan, done, phase, disturbed, unsaved, restarts>>
    BY DEF SpawnChecks
  <1> DEFINE depth == 1 + (IF a \in DOMAIN links THEN links[a] ELSE 0)
  <1>2. PICK needs \in Requests :
          call' = [call EXCEPT ![a] = [at |-> "checked", needs |-> needs,
                                       depth |-> depth, child |-> 0]]
    BY DEF SpawnChecks
  <1>3. RowsMove
    BY <1>1, NobodyMoves DEF StaffInv, StaffTypes
  <1>4. call \in Seq(CallRow) /\ DOMAIN call = Ids
    BY DEF StaffInv, StaffTypes, CallTypes
  <1>7. events' \in Nat
    BY EventCounted DEF SpawnChecks, StaffInv
  <1>5. CallTypes' /\ Vetoes'
    <2>1. depth \in Nat
      BY DEF StaffInv, StaffTypes, CallTypes
    <2> HIDE DEF depth
    <2> DEFINE rec == [at |-> "checked", needs |-> needs, depth |-> depth, child |-> 0]
    <2>2. rec \in CallRow /\ rec.at = "checked"
      BY <2>1 DEF CallRow
    <2> HIDE DEF rec
    <2>3. call' = [call EXCEPT ![a] = rec]
      BY <1>2 DEF rec
    <2>4. call' \in Seq(CallRow) /\ DOMAIN call' = Ids
      BY <1>4, <2>2, <2>3
    <2>5. call'[a] = rec /\ \A b \in Ids : b # a => call'[b] = call[b]
      BY <1>4, <2>3
    <2>6. \A b \in Ids : call'[b].at \in {"created", "linked"} =>
                            call[b].at \in {"created", "linked"} /\ call'[b].child = call[b].child
      BY <2>2, <2>5
    <2>7. CallTypes'
      BY <1>1, <2>2, <2>4, <2>5 DEF StaffInv, StaffTypes, CallTypes, Ids
    <2> QED
      BY <1>1, <1>7, <2>6, <2>7, CallsKeepVetoes DEF StaffInv, StaffTypes
  <1>6. ProfileTypes' /\ PlanTypes'
    BY <1>1 DEF StaffInv, StaffTypes, ProfileTypes, PlanTypes
  <1>8. Cut' /\ BuilderStaffs' /\ TeamsServe'
    BY <1>1, <1>3, MovesKeepCut, RolesKept, ServiceKept DEF StaffInv, StaffTypes
  <1> QED
    BY <1>1, <1>3, <1>5, <1>6, <1>8, MovesKeepInv

\* Steps of a call that leave the agents alone.
LEMMA CallMovesOn ==
    ASSUME StaffInv, CallTypes',
           \A a \in Ids : call'[a].at \in {"created", "linked"} =>
               call[a].at \in {"created", "linked"} /\ call'[a].child = call[a].child,
           UNCHANGED <<registered, agents, vetoed, plan, done, phase, disturbed, unsaved, restarts, events>>
    PROVE  StaffInv'
  <1>1. RowsMove
    BY NobodyMoves DEF StaffInv, StaffTypes
  <1>2. ProfileTypes' /\ PlanTypes' /\ restarts' \in Nat /\ events' \in Nat
    BY DEF StaffInv, StaffTypes, ProfileTypes, PlanTypes, RestartTypes
  <1>3. Vetoes' /\ Cut' /\ BuilderStaffs' /\ TeamsServe'
    BY <1>1, <1>2, CallsKeepVetoes, MovesKeepCut, RolesKept, ServiceKept DEF StaffInv, StaffTypes
  <1> QED
    BY <1>1, <1>2, <1>3, MovesKeepInv

LEMMA CallEnds ==
    ASSUME CallTypes, NEW a \in Ids, call' = [call EXCEPT ![a] = NoCall],
           RowsMove, links' = links
    PROVE  CallTypes'
  <1>1. NoCall \in CallRow /\ NoCall.at = "none"
    BY DEF NoCall, CallRow
  <1>2. call \in Seq(CallRow) /\ DOMAIN call = Ids
    BY DEF CallTypes
  <1>3. call' \in Seq(CallRow) /\ DOMAIN call' = Ids
    BY <1>1, <1>2
  <1>4. call'[a] = NoCall /\ \A b \in Ids : b # a => call'[b] = call[b]
    BY <1>2
  <1>5. Ids' = Ids /\ \A b \in Ids : agents'[b].parent = agents[b].parent
    BY DEF RowsMove, Ids, Moved
  <1> QED
    BY <1>1, <1>3, <1>4, <1>5 DEF CallTypes

LEMMA SpawnFailsKeeps ==
    ASSUME StaffInv, NEW a \in Ids, SpawnFails(a)
    PROVE  StaffInv'
  <1>1. /\ UNCHANGED <<registered, agents, links, vetoed, plan, done, phase, disturbed, unsaved, restarts, events>>
        /\ call' = [call EXCEPT ![a] = NoCall]
    BY DEF SpawnFails, process
  <1>2. RowsMove
    BY <1>1, NobodyMoves DEF StaffInv, StaffTypes
  <1>3. \A b \in Ids : b # a => call'[b] = call[b]
    BY <1>1 DEF StaffInv, StaffTypes, CallTypes
  <1>4. CallTypes'
    BY <1>1, <1>2, CallEnds DEF StaffInv, StaffTypes
  <1>5. call'[a].at = "none"
    BY <1>1 DEF StaffInv, StaffTypes, CallTypes, NoCall
  <1> QED
    BY <1>1, <1>3, <1>4, <1>5, CallMovesOn

LEMMA SpawnLinksKeeps ==
    ASSUME StaffInv, NEW a \in Ids, SpawnLinks(a)
    PROVE  StaffInv'
  <1>1. /\ UNCHANGED <<registered, agents, vetoed, plan, done, phase, disturbed, unsaved, restarts, events>>
        /\ call[a].at = "created"
        /\ links' = Put(links, call[a].child, call[a].depth)
        /\ call' = [call EXCEPT ![a].at = "linked"]
    BY DEF SpawnLinks, process
  <1>2. /\ call \in Seq(CallRow) /\ DOMAIN call = Ids /\ call[a] \in CallRow
        /\ call[a].child \in Ids /\ agents[call[a].child].parent = a
    BY <1>1 DEF StaffInv, StaffTypes, CallTypes
  <1> DEFINE rec == [call[a] EXCEPT !.at = "linked"]
  <1>3. rec \in CallRow /\ rec.child = call[a].child
    BY <1>2 DEF CallRow
  <1>4. call' = [call EXCEPT ![a] = rec]
    BY <1>1, <1>2
  <1> HIDE DEF rec
  <1>5. call' \in Seq(CallRow) /\ DOMAIN call' = Ids
    BY <1>2, <1>3, <1>4
  <1>6. call'[a] = rec /\ \A b \in Ids : b # a => call'[b] = call[b]
    BY <1>2, <1>4
  <1>7. DOMAIN links' \subseteq Ids /\ \A b \in DOMAIN links' : links'[b] \in Nat
    <2>1. call[a].depth \in Nat
      BY <1>2 DEF CallRow
    <2> QED
      BY <1>1, <1>2, <2>1 DEF Put, StaffInv, StaffTypes, CallTypes
  <1>8. \A b \in Ids : call'[b].at \in {"created", "linked"} =>
                         call'[b].child \in Ids /\ agents[call'[b].child].parent = b
    <2> SUFFICES ASSUME NEW b \in Ids, call'[b].at \in {"created", "linked"}
                 PROVE  call'[b].child \in Ids /\ agents[call'[b].child].parent = b
      OBVIOUS
    <2>1. CASE b = a
      BY <1>2, <1>3, <1>6, <2>1
    <2>2. CASE b # a
      BY <1>6, <2>2 DEF StaffInv, StaffTypes, CallTypes
    <2> QED
      BY <2>1, <2>2
  <1>9. CallTypes'
    BY <1>1, <1>5, <1>7, <1>8 DEF StaffInv, StaffTypes, CallTypes, Ids
  <1>10. \A b \in Ids : call'[b].at \in {"created", "linked"} =>
                          call[b].at \in {"created", "linked"} /\ call'[b].child = call[b].child
    BY <1>1, <1>3, <1>6
  <1> QED
    BY <1>1, <1>9, <1>10, CallMovesOn

LEMMA SpawnAnnouncesKeeps ==
    ASSUME StaffInv, NEW a \in Ids, SpawnAnnounces(a)
    PROVE  StaffInv'
  <1> DEFINE c == call[a].child
  <1>1. /\ UNCHANGED <<registered, links, plan, done, phase, disturbed, unsaved, restarts, events>>
        /\ call[a].at = "linked" /\ call' = [call EXCEPT ![a] = NoCall]
    BY DEF SpawnAnnounces, process
  <1>2. c \in Ids /\ agents[c].parent = a /\ a # 0
    <2>1. a \in Nat /\ a >= 1
      BY SameRow DEF StaffInv, StaffTypes
    <2> QED
      BY <1>1, <2>1 DEF StaffInv, StaffTypes, CallTypes
  <1>3. c \notin unsaved
    BY <1>1 DEF StaffInv, Vetoes, Pending
  <1>4. /\ RowsMove
        /\ \A b \in unsaved : agents'[b] = agents[b]
        /\ \/ UNCHANGED vetoed
           \/ vetoed' = Put(vetoed, c, restarts) /\ agents'[c].status \in Ending
    <2>1. CASE UNCHANGED <<agents, vetoed>>
      BY <1>1, <2>1, NobodyMoves DEF StaffInv, StaffTypes
    <2>2. CASE /\ vetoed' = Put(vetoed, c, restarts)
               /\ agents' = IF agents[c].status \in {"stopping", "stopped"} THEN agents
                            ELSE [agents EXCEPT ![c] = Stopped(c)]
      <3>1. CASE agents[c].status \in {"stopping", "stopped"}
        <4>1. agents' = agents
          BY <2>2, <3>1
        <4> QED
          BY <1>1, <2>2, <3>1, <4>1, NobodyMoves DEF StaffInv, StaffTypes, Ending
      <3>2. CASE agents[c].status \notin {"stopping", "stopped"}
        <4>1. agents' = [agents EXCEPT ![c] = Stopped(c)]
          BY <2>2, <3>2
        <4>2. RowsMove /\ agents'[c].status \in Ending
          BY <1>1, <1>2, <3>2, <4>1, StopMoves DEF StaffInv, StaffTypes
        <4>3. \A b \in unsaved : b \in Ids /\ agents'[b] = agents[b]
          BY <1>2, <1>3, <4>1 DEF StaffInv, StaffTypes, AgentTypes, RestartTypes, Ids
        <4> QED
          BY <2>2, <4>2, <4>3
      <3> QED
        BY <3>1, <3>2
    <2> QED
      BY <2>1, <2>2 DEF SpawnAnnounces
  <1>5. ProfileTypes' /\ PlanTypes' /\ restarts \in Nat /\ events' \in Nat
    BY <1>1 DEF StaffInv, StaffTypes, ProfileTypes, PlanTypes, RestartTypes
  <1>6. Cut' /\ BuilderStaffs' /\ TeamsServe'
    BY <1>1, <1>4, MovesKeepCut, RolesKept, ServiceKept DEF StaffInv, StaffTypes
  <1>7. \A b \in Ids : call'[b].at \in {"created", "linked"} => call'[b] = call[b]
    BY <1>1 DEF StaffInv, StaffTypes, CallTypes, NoCall
  <1>8. CallTypes'
    BY <1>1, <1>4, CallEnds DEF StaffInv, StaffTypes
  <1>9. Vetoes'
    <2>1. CASE UNCHANGED vetoed
      BY <1>1, <1>4, <1>5, <1>7, <2>1, MovesKeepVetoes DEF StaffInv
    <2>2. CASE vetoed' = Put(vetoed, c, restarts) /\ agents'[c].status \in Ending
      <3>1. /\ DOMAIN vetoed' = DOMAIN vetoed \cup {c} /\ vetoed'[c] = restarts
            /\ \A b \in DOMAIN vetoed : b # c => vetoed'[b] = vetoed[b]
        BY <2>2 DEF Put
      <3>2. Ids' = Ids /\ \A b \in Ids : agents[b].status \in Ending => agents'[b].status \in Ending
        BY <1>1, <1>4 DEF RowsMove, Ids, Moved
      <3>3. RestartTypes'
        BY <1>1, <1>2, <1>4, <1>5, <3>1, <3>2 DEF StaffInv, StaffTypes, RestartTypes
      <3>4. VetoedChildrenEnd'
        <4>1. \A b \in DOMAIN vetoed : b # c =>
                 agents'[b].status \in Ending \/ restarts' >= vetoed'[b] + 2
          BY <1>1, <3>1, <3>2 DEF StaffInv, StaffTypes, RestartTypes, Vetoes, VetoedChildrenEnd, Ending
        <4> QED
          BY <2>2, <3>1, <4>1 DEF VetoedChildrenEnd, Ending
      <3>5. Pending'
        <4>1. \A b \in unsaved : b \in DOMAIN vetoed' => b \in DOMAIN vetoed /\ vetoed'[b] = vetoed[b]
          BY <1>3, <3>1
        <4> QED
          BY <1>1, <1>7, <3>2, <4>1 DEF StaffInv, Vetoes, Pending
      <3> QED
        BY <3>3, <3>4, <3>5 DEF Vetoes
    <2> QED
      BY <1>4, <2>1, <2>2
  <1> QED
    BY <1>1, <1>4, <1>5, <1>6, <1>8, <1>9, MovesKeepInv
-----------------------------------------------------------------------------
(* Staffing: agents that come                                                *)

IsNew(a, r) ==
    /\ agents'[a].profile \in ProfileRow /\ agents'[a].parent \in 0..(a - 1)
    /\ agents'[a] = NewAgent(r, agents'[a].profile, agents'[a].parent)

\* Agents come to a run, and nothing happens to the others.
Grows(r) ==
    /\ Len(agents') \in Nat /\ Ids' = 1..Len(agents') /\ Ids \subseteq Ids'
    /\ agents' = [a \in Ids' |-> agents'[a]]
    /\ \A a \in Ids : agents'[a] = agents[a]
    /\ \A a \in Ids' : a \in Ids \/ IsNew(a, r)

LEMMA NewRow ==
    ASSUME NEW r \in Runs, NEW p \in ProfileRow, NEW parent \in Nat
    PROVE  LET rec == NewAgent(r, p, parent)
           IN  /\ rec \in AgentRow /\ rec.run = r /\ rec.profile = p /\ rec.status = "idle"
               /\ rec.task = "none" /\ rec.as = {} /\ rec.parent = parent
  BY DEF NewAgent, AgentRow, AgentStatus

LEMMA NewIsIdle ==
    ASSUME NEW r \in Runs, NEW a \in Nat, IsNew(a, r)
    PROVE  LET rec == agents'[a]
           IN  /\ rec \in AgentRow /\ rec.run = r /\ rec.status = "idle"
               /\ rec.task = "none" /\ rec.as = {} /\ rec.parent \in 0..(a - 1)
  <1> DEFINE rec == agents'[a]
             p == rec.profile
             parent == rec.parent
  <1>1. /\ p \in ProfileRow /\ parent \in 0..(a - 1)
        /\ rec = NewAgent(r, p, parent)
    BY DEF IsNew
  <1>2. parent \in Nat
    BY <1>1
  <1>3. \A n \in Nat, q \in ProfileRow : LET x == NewAgent(r, q, n)
           IN  x \in AgentRow /\ x.run = r /\ x.status = "idle"
               /\ x.task = "none" /\ x.as = {}
    BY NewRow
  <1> HIDE DEF p, parent, rec
  <1>4. rec \in AgentRow /\ rec.run = r /\ rec.status = "idle" /\ rec.task = "none" /\ rec.as = {}
    BY <1>1, <1>2, <1>3
  <1> QED
    BY <1>1, <1>4 DEF rec, parent

LEMMA GrowthKeeps ==
    ASSUME AgentTypes, Working, NEW r \in Runs, Grows(r), UNCHANGED plan
    PROVE  /\ AgentTypes' /\ Working'
           /\ \A s : /\ AgentsOf(s) \subseteq AgentsOf(s)'
                     /\ s # r => AgentsOf(s)' = AgentsOf(s)
                     /\ s # r => \A q : Built(s, q)' = Built(s, q)
           /\ \A s : Served(s) => Served(s)'
           /\ \A a \in Ids' \ Ids : agents'[a].run = r /\ agents'[a].status = "idle"
  <1>1. Ids' \subseteq Nat
    BY DEF Grows
  <1>2. ASSUME NEW a \in Ids' \ Ids
        PROVE  /\ agents'[a] \in AgentRow /\ agents'[a].run = r /\ agents'[a].status = "idle"
               /\ agents'[a].task = "none" /\ agents'[a].as = {}
               /\ agents'[a].parent \in 0..(a - 1)
    BY <1>1, NewIsIdle DEF Grows
  <1>3. \A a \in Ids : a \in Ids' /\ agents'[a] = agents[a]
    BY DEF Grows
  <1>4. agents' \in Seq(AgentRow)
    <2>1. \A a \in Ids' : agents'[a] \in AgentRow
      BY <1>2, <1>3, SameRow
    <2>2. agents' \in [Ids' -> AgentRow]
      BY <2>1 DEF Grows
    <2> QED
      BY <2>2 DEF Grows
  <1>5. \A a \in Ids' : /\ agents'[a].as # {} => agents'[a].status \in {"running", "stopping"} /\ agents'[a].task # "none"
                        /\ agents'[a].parent \in 0..(a - 1)
                        /\ agents'[a].task \in DOMAIN plan'[agents'[a].run] \cup {"none"}
    <2> SUFFICES ASSUME NEW a \in Ids'
                 PROVE  /\ agents'[a].as # {} => agents'[a].status \in {"running", "stopping"} /\ agents'[a].task # "none"
                        /\ agents'[a].parent \in 0..(a - 1)
                        /\ agents'[a].task \in DOMAIN plan'[agents'[a].run] \cup {"none"}
      OBVIOUS
    <2>1. CASE a \in Ids
      BY <1>3, <2>1 DEF AgentTypes
    <2>2. CASE a \notin Ids
      BY <1>2, <2>2
    <2> QED
      BY <2>1, <2>2
  <1>6. AgentTypes'
    BY <1>4, <1>5 DEF AgentTypes
  <1>7. Working'
    BY <1>2, <1>3 DEF Working, Fitted, Needs
  <1>9. ASSUME NEW s
        PROVE  /\ AgentsOf(s) \subseteq AgentsOf(s)'
               /\ s # r => AgentsOf(s)' = AgentsOf(s)
               /\ s # r => \A q : Built(s, q)' = Built(s, q)
    BY <1>2, <1>3 DEF AgentsOf, Built, Live
  <1>10. ASSUME NEW s, Served(s) PROVE Served(s)'
    <2> SUFFICES ASSUME NEW t \in DOMAIN plan[s] PROVE \E a \in Ids' : Serves(a, s, t)'
      BY DEF Served
    <2>1. PICK a \in Ids : Serves(a, s, t)
      BY <1>10 DEF Served
    <2>2. Serves(a, s, t)'
      BY <1>3, <2>1 DEF Serves, Needs
    <2> QED
      BY <1>3, <2>2
  <1> QED
    BY <1>2, <1>6, <1>7, <1>9, <1>10

\* A child that is still to be announced is not among those restored.
LEMMA GrowthKeepsVetoes ==
    ASSUME Vetoes, NEW r \in Runs, Grows(r), UNCHANGED <<vetoed, unsaved, restarts, events>>,
           \A a \in Ids' : call'[a].at \in {"created", "linked"} => call'[a].child \notin unsaved
    PROVE  Vetoes' /\ RestartTypes'
  <1>1. \A a \in Ids : a \in Ids' /\ agents'[a] = agents[a]
    BY DEF Grows
  <1>2. RestartTypes'
    BY <1>1 DEF Vetoes, RestartTypes
  <1>3. VetoedChildrenEnd'
    BY <1>1 DEF Vetoes, RestartTypes, VetoedChildrenEnd
  <1>4. Pending'
    BY DEF Vetoes, Pending
  <1> QED
    BY <1>2, <1>3, <1>4 DEF Vetoes

\* What is the same for every run but the one agents come to.
LEMMA GrowthKeepsOthers ==
    ASSUME StaffInv, NEW r \in Runs, Grows(r), UNCHANGED <<plan, disturbed>>,
           \A s \in Runs : s # r => phase'[s] = phase[s],
           NEW s \in Runs, s # r
    PROVE  /\ phase'[s] = "new" => DOMAIN plan'[s] = {} /\ AgentsOf(s)' = {}
           /\ s \notin disturbed =>
                /\ AgentsOf(s)' # {} => Served(s)'
                /\ phase'[s] \in Started => Served(s)'
                /\ \A a \in AgentsOf(s)' : agents'[a].parent = 0 => agents'[a].status \notin Away
           /\ \A b \in Ids' : Built(s, agents[b].profile)' # {} =>
                FewEnough(s, Built(s, agents[b].profile))'
  <1>1. /\ AgentsOf(s)' = AgentsOf(s) /\ \A q : Built(s, q)' = Built(s, q)
        /\ Served(s) => Served(s)'
    BY GrowthKeeps DEF StaffInv, StaffTypes, CallTypes
  <1>2. \A a \in AgentsOf(s) : a \in Ids /\ agents'[a] = agents[a]
    BY DEF AgentsOf, Grows
  <1>3. s \notin disturbed =>
                /\ AgentsOf(s)' # {} => Served(s)'
                /\ phase'[s] \in Started => Served(s)'
                /\ \A a \in AgentsOf(s)' : agents'[a].parent = 0 => agents'[a].status \notin Away
    BY <1>1, <1>2 DEF StaffInv, Serving, Started
  <1>4. phase'[s] = "new" => DOMAIN plan'[s] = {} /\ AgentsOf(s)' = {}
    BY <1>1 DEF StaffInv, Unborn
  <1>5. ASSUME NEW b \in Ids', Built(s, agents[b].profile)' # {}
        PROVE  FewEnough(s, Built(s, agents[b].profile))'
    <2> DEFINE p == agents'[b].profile
    <2>1. Built(s, p) # {} /\ Built(s, agents[b].profile)' = Built(s, p)
      <3>1. Built(s, agents[b].profile)' = Built(s, p)
        <4>1. p = agents'[b].profile
          OBVIOUS
        <4>2. Built(s, agents[b].profile)' =
                {a \in Live(s)' : agents'[a].parent = 0 /\ agents'[a].profile = p}
          BY DEF Built
        <4>3. \A q : {a \in Live(s)' : agents'[a].parent = 0 /\ agents'[a].profile = q} = Built(s, q)
          BY <1>2, GrowthKeeps DEF StaffInv, StaffTypes, CallTypes, Built, Live, AgentsOf, Grows
        <4> HIDE DEF p
        <4> QED
          BY <4>2, <4>3
      <3> QED
        BY <1>5, <3>1
    <2>2. PICK c \in Ids : agents[c].profile = p
      BY <2>1 DEF Built, Live
    <2>3. FewEnough(s, Built(s, p))
      BY <2>1, <2>2 DEF StaffInv, Sparse
    <2> HIDE DEF p
    <2> QED
      BY <2>1, <2>3 DEF FewEnough, Level
  <1> QED
    BY <1>3, <1>4, <1>5
\* Whatever the builder takes for a task, fits it.
LEMMA MatchFits ==
    ASSUME NEW r, NEW needs, NEW p \in Matches(r, needs)
    PROVE  p \in DOMAIN registered /\ Fits(needs, CapsOf(p))
  <1> DEFINE roles == needs \cap Primary
             rest  == needs \ Tooling
  <1>1. \/ p \in FindAllowed(r, needs)
        \/ roles # {} /\ p \in FindAllowed(r, roles)
        \/ roles = {} /\ rest # {} /\ p \in FindAllowed(r, rest)
    BY DEF Matches
  <1>2. \A caps : p \in FindAllowed(r, caps) => p \in DOMAIN registered /\ caps \subseteq CapsOf(p)
    BY DEF FindAllowed, FindWorkers
  <1> QED
    BY <1>1, <1>2 DEF Fits

\* The agents a team is built with: one of each profile at least, if there were none,
\* and no more than can work side by side.
LEMMA CreatedStep ==
    ASSUME StaffInv, NEW r \in Runs, NEW match \in [DOMAIN plan[r] -> DOMAIN registered]
    PROVE  LET rows == Created(r, match)
           IN  /\ Len(rows) \in Nat /\ DOMAIN rows = 1..Len(rows)
               /\ rows = [i \in 1..Len(rows) |-> rows[i]]
               /\ \A i \in DOMAIN rows : \E p \in DOMAIN registered : rows[i] = NewAgent(r, p, 0)
               /\ AgentsOf(r) = {} => \A t \in DOMAIN plan[r] :
                    \E i \in DOMAIN rows : rows[i] = NewAgent(r, match[t], 0)
               /\ \A p : /\ IsFiniteSet(OfProfile(rows, p))
                         /\ OfProfile(rows, p) # {} => \E t \in DOMAIN plan[r] :
                              /\ p = match[t]
                              /\ Cardinality(OfProfile(rows, p)) <= Missing(r, match, p)
  <1> DEFINE wanted == [p \in ToSet(match) |-> Missing(r, match, p)]
             rows == Created(r, match)
             here(p) == {a \in Live(r) : agents[a].profile = p}
  <1>1. ToSet(match) = {match[t] : t \in DOMAIN plan[r]}
    BY DEF ToSet
  <1>2. IsFiniteSet(DOMAIN wanted)
    <2>1. IsFiniteSet(DOMAIN plan[r])
      BY DEF StaffInv, StaffTypes, PlanTypes
    <2>2. IsFiniteSet({match[t] : t \in DOMAIN plan[r]})
      <3> DEFINE image == {match[t] : t \in DOMAIN plan[r]}
      <3>1. match \in Surjection(DOMAIN plan[r], image)
        BY DEF Surjection
      <3> HIDE DEF image
      <3>2. IsFiniteSet(image)
        BY <2>1, <3>1, FS_Surjection
      <3> QED
        BY <3>2 DEF image
    <2> QED
      BY <1>1, <2>2
  <1>3. \A p : IsFiniteSet(here(p)) /\ Cardinality(here(p)) \in Nat
    <2> SUFFICES ASSUME NEW p PROVE IsFiniteSet(here(p)) /\ Cardinality(here(p)) \in Nat
      OBVIOUS
    <2>1. here(p) \in SUBSET Ids
      BY DEF Live
    <2>2. IsFiniteSet(Ids)
      BY FiniteTeam DEF StaffInv, StaffTypes
    <2> QED
      BY <2>1, <2>2, FS_Subset, FS_CardinalityType
  <1>4. ASSUME NEW t \in DOMAIN plan[r]
        PROVE  /\ Demand(r, match, match[t]) \in Nat /\ Demand(r, match, match[t]) >= 1
               /\ Missing(r, match, match[t]) \in Int
               /\ here(match[t]) = {} => Missing(r, match, match[t]) >= 1
    <2>1. Demand(r, match, match[t]) \in Nat /\ Demand(r, match, match[t]) >= 1
      BY DemandIsBounded DEF StaffInv, StaffTypes
    <2>2. Missing(r, match, match[t]) = Demand(r, match, match[t]) - Cardinality(here(match[t]))
      BY DEF Missing
    <2>3. Cardinality(here(match[t])) \in Nat
      BY <1>3
    <2>4. here(match[t]) = {} => Cardinality(here(match[t])) = 0
      BY FS_EmptySet
    <2> QED
      BY <2>1, <2>2, <2>3, <2>4
  <1>5. \A p \in DOMAIN wanted : wanted[p] \in Int
    BY <1>1, <1>4
  <1>6. rows = Recruits(r, wanted)
    BY DEF Created
  <1>7. \A p \in DOMAIN wanted : p \in DOMAIN registered /\ wanted[p] = Missing(r, match, p)
    BY <1>1
  <1>8. \A p \in DOMAIN wanted : \E t \in DOMAIN plan[r] : p = match[t]
    BY <1>1
  <1>9. \A t \in DOMAIN plan[r] : match[t] \in DOMAIN wanted
    BY <1>1
  <1>10. AgentsOf(r) = {} => \A p : here(p) = {}
    BY DEF AgentsOf, Live
  <1>11. rows = [i \in DOMAIN rows |-> rows[i]]
    BY DEF Created, Recruits
  <1> HIDE DEF wanted, rows, here
  <1>12. /\ Len(rows) \in Nat /\ DOMAIN rows = 1..Len(rows)
         /\ \A i \in DOMAIN rows : \E p \in DOMAIN wanted : rows[i] = NewAgent(r, p, 0)
         /\ \A p \in DOMAIN wanted : wanted[p] >= 1 =>
                \E i \in DOMAIN rows : rows[i] = NewAgent(r, p, 0)
         /\ \A p : /\ IsFiniteSet(OfProfile(rows, p))
                   /\ OfProfile(rows, p) # {} =>
                        p \in DOMAIN wanted /\ Cardinality(OfProfile(rows, p)) <= wanted[p]
    BY <1>2, <1>5, <1>6, RecruitStep
  <1>13. AgentsOf(r) = {} => \A t \in DOMAIN plan[r] :
              \E i \in DOMAIN rows : rows[i] = NewAgent(r, match[t], 0)
    BY <1>4, <1>7, <1>9, <1>10, <1>12
  <1>14. \A p : /\ IsFiniteSet(OfProfile(rows, p))
                /\ OfProfile(rows, p) # {} => \E t \in DOMAIN plan[r] :
                     /\ p = match[t]
                     /\ Cardinality(OfProfile(rows, p)) <= Missing(r, match, p)
    BY <1>7, <1>8, <1>12
  <1> QED
    BY <1>7, <1>11, <1>12, <1>13, <1>14 DEF rows

LEMMA BuildGrows ==
    ASSUME StaffInv, NEW r \in Runs, NEW match \in [DOMAIN plan[r] -> DOMAIN registered],
           agents' = agents \o Created(r, match)
    PROVE  /\ Grows(r)
           /\ Len(agents') = Len(agents) + Len(Created(r, match))
           /\ \A i \in DOMAIN Created(r, match) :
                 Len(agents) + i \in Ids' /\ agents'[Len(agents) + i] = Created(r, match)[i]
           /\ \A a \in Ids' : a \in Ids \/ \E i \in DOMAIN Created(r, match) :
                 a = Len(agents) + i /\ agents'[a] = Created(r, match)[i]
           /\ \A a \in Ids' \ Ids : \E p \in DOMAIN registered : agents'[a] = NewAgent(r, p, 0)
  <1> DEFINE rows == Created(r, match)
             n == Len(agents)
             k == Len(rows)
  <1>0. rows = [i \in 1..k |-> rows[i]]
    BY CreatedStep
  <1>1. /\ k \in Nat /\ DOMAIN rows = 1..k
        /\ \A i \in 1..k : \E p \in DOMAIN registered : rows[i] = NewAgent(r, p, 0)
    BY CreatedStep
  <1>2. n \in Nat /\ Ids = 1..n
    BY DEF StaffInv, StaffTypes, AgentTypes, Ids
  <1> HIDE DEF rows, n, k
  <1>3. agents \in Seq(AgentRow) /\ rows \in Seq(AgentRow)
    <2>1. \A p \in DOMAIN registered : NewAgent(r, p, 0) \in AgentRow
      BY NewRow DEF StaffInv, StaffTypes, ProfileTypes
    <2>2. rows \in [1..k -> AgentRow]
      BY <1>0, <1>1, <2>1
    <2> QED
      BY <1>1, <2>2 DEF StaffInv, StaffTypes, AgentTypes
  <1>4. /\ agents' \in Seq(AgentRow) /\ Len(agents') = n + k
        /\ DOMAIN agents' = 1..(n + k)
        /\ \A i \in 1..(n + k) : agents'[i] = IF i <= n THEN agents[i] ELSE rows[i - n]
    <2>1. agents' = agents \o rows /\ n = Len(agents) /\ k = Len(rows)
      BY DEF rows, n, k
    <2> QED
      BY <1>3, <2>1, ConcatProperties
  <1>5. Ids' = 1..(n + k) /\ Ids \subseteq Ids'
    BY <1>1, <1>2, <1>4 DEF Ids
  <1>6. \A a \in Ids : agents'[a] = agents[a]
    BY <1>1, <1>2, <1>4
  <1>7. ASSUME NEW i \in 1..k PROVE n + i \in Ids' /\ agents'[n + i] = rows[i]
    <2>1. i \in Nat /\ n + i \in 1..(n + k) /\ ~(n + i <= n) /\ (n + i) - n = i
      BY <1>1, <1>2
    <2>2. agents'[n + i] = IF n + i <= n THEN agents[n + i] ELSE rows[(n + i) - n]
      BY <1>4, <2>1
    <2> QED
      BY <1>5, <2>1, <2>2
  <1>8. ASSUME NEW a \in Ids', a \notin Ids
        PROVE  a - n \in 1..k /\ a = n + (a - n) /\ agents'[a] = rows[a - n]
    <2>1. a \in 1..(n + k) /\ a \notin 1..n
      BY <1>2, <1>5, <1>8
    <2>2. a \in Nat /\ ~(a <= n) /\ a - n \in 1..k /\ a = n + (a - n)
      BY <1>1, <1>2, <2>1
    <2>3. agents'[a] = IF a <= n THEN agents[a] ELSE rows[a - n]
      BY <1>4, <2>1
    <2> QED
      BY <2>2, <2>3
  <1>9. ASSUME NEW a \in Ids' \ Ids
        PROVE  /\ IsNew(a, r)
               /\ \E p \in DOMAIN registered : agents'[a] = NewAgent(r, p, 0)
    <2>1. PICK p \in DOMAIN registered : agents'[a] = NewAgent(r, p, 0)
      BY <1>1, <1>8
    <2>2. agents'[a].profile = p /\ agents'[a].parent = 0 /\ p \in ProfileRow
      BY <2>1 DEF NewAgent, StaffInv, StaffTypes, ProfileTypes
    <2>3. 0 \in 0..(a - 1)
      BY <1>1, <1>2, <1>5
    <2> QED
      BY <2>1, <2>2, <2>3 DEF IsNew
  <1>10. agents' = [a \in Ids' |-> agents'[a]]
    <2>1. agents' \in [1..Len(agents') -> AgentRow]
      BY <1>4, LenProperties
    <2>2. agents' \in [Ids' -> AgentRow]
      BY <1>4, <1>5, <2>1
    <2> QED
      BY <2>2
  <1>11. Grows(r)
    <2>1. Len(agents') \in Nat
      BY <1>1, <1>2, <1>4
    <2> QED
      BY <1>4, <1>5, <1>6, <1>9, <1>10, <2>1 DEF Grows
  <1>12. \A a \in Ids' : a \in Ids \/ \E i \in 1..k : a = n + i /\ agents'[a] = rows[i]
    BY <1>8
  <1> QED
    BY <1>1, <1>4, <1>7, <1>9, <1>11, <1>12 DEF rows, n, k
\* Who comes and who is there are few enough together.
LEMMA BuiltAreFew ==
    ASSUME StaffInv, NEW r \in Runs, NEW match \in [DOMAIN plan[r] -> DOMAIN registered],
           agents' = agents \o Created(r, match), plan' = plan, NEW b \in Ids',
           Built(r, agents[b].profile)' # {}
    PROVE  FewEnough(r, Built(r, agents[b].profile))'
  <1> DEFINE p == agents'[b].profile
             rows == Created(r, match)
             n == Len(agents)
             of == OfProfile(rows, p)
             old == Built(r, p)
             new == {a \in Ids' \ Ids : agents'[a].profile = p}
             both == Built(r, agents[b].profile)'
             here == {a \in Live(r) : agents[a].profile = p}
  <1>0. MaxParallel \in Nat
    BY StaffingAssumption
  <1>1. /\ Grows(r) /\ n \in Nat /\ Ids = 1..n /\ Ids \subseteq Ids'
        /\ \A a \in Ids : agents'[a] = agents[a]
        /\ \A a \in Ids' \ Ids : agents'[a].run = r /\ agents'[a].status = "idle"
                                 /\ agents'[a].parent = 0
        /\ \A a \in Ids' : a \in Ids \/ \E i \in DOMAIN rows :
              a = n + i /\ agents'[a] = rows[i]
    <2>1. /\ Grows(r)
          /\ \A a \in Ids' : a \in Ids \/ \E i \in DOMAIN rows : a = n + i /\ agents'[a] = rows[i]
          /\ \A a \in Ids' \ Ids : \E q \in DOMAIN registered : agents'[a] = NewAgent(r, q, 0)
      BY BuildGrows
    <2>2. n \in Nat /\ Ids = 1..n
      BY DEF StaffInv, StaffTypes, AgentTypes, Ids
    <2> HIDE DEF rows, n
    <2>3. Ids \subseteq Ids' /\ \A a \in Ids : agents'[a] = agents[a]
      BY <2>1 DEF Grows
    <2>4. ASSUME NEW a \in Ids' \ Ids
          PROVE  agents'[a].run = r /\ agents'[a].status = "idle" /\ agents'[a].parent = 0
      <3>1. PICK q \in DOMAIN registered : agents'[a] = NewAgent(r, q, 0)
        BY <2>1
      <3> QED
        BY <3>1 DEF NewAgent
    <2> QED
      BY <2>1, <2>2, <2>3, <2>4
  <1>2. /\ DOMAIN rows \subseteq Nat /\ IsFiniteSet(of)
        /\ of # {} => \E t \in DOMAIN plan[r] :
                          p = match[t] /\ Cardinality(of) <= Missing(r, match, p)
    <2>1. /\ Len(rows) \in Nat /\ DOMAIN rows = 1..Len(rows)
          /\ \A q : /\ IsFiniteSet(OfProfile(rows, q))
                    /\ OfProfile(rows, q) # {} => \E t \in DOMAIN plan[r] :
                         /\ q = match[t]
                         /\ Cardinality(OfProfile(rows, q)) <= Missing(r, match, q)
      BY CreatedStep
    <2> HIDE DEF rows, p
    <2> QED
      BY <2>1
  <1>3. both = old \cup new
    <2>1. both = {a \in Ids' : /\ agents'[a].run = r /\ agents'[a].status \notin {"stopped", "gone"}
                               /\ agents'[a].parent = 0 /\ agents'[a].profile = p}
      BY DEF Built, Live
    <2>2. old = {a \in Ids : /\ agents[a].run = r /\ agents[a].status \notin {"stopped", "gone"}
                             /\ agents[a].parent = 0 /\ agents[a].profile = p}
      BY DEF Built, Live
    <2> HIDE DEF both, old, p
    <2> QED
      BY <1>1, <2>1, <2>2
  <1>4. /\ IsFiniteSet(Ids) /\ IsFiniteSet(old) /\ old \subseteq here
        /\ IsFiniteSet(here) /\ Cardinality(old) \in Nat /\ Cardinality(here) \in Nat
        /\ Cardinality(old) <= Cardinality(here)
    <2>1. IsFiniteSet(Ids) /\ IsFiniteSet(old)
      BY FiniteTeam DEF StaffInv, StaffTypes
    <2>2. here \in SUBSET Ids /\ old \in SUBSET here
      BY DEF Built, Live
    <2> HIDE DEF here, old
    <2> QED
      BY <2>1, <2>2, FS_Subset, FS_CardinalityType
  <1> DEFINE shift == [a \in new |-> a - n]
  <1>5. shift \in Injection(new, of)
    <2>1. \A a \in new : a - n \in of /\ a \in Int
      <3> SUFFICES ASSUME NEW a \in new PROVE a - n \in of /\ a \in Int
        OBVIOUS
      <3>1. PICK i \in DOMAIN rows : a = n + i /\ agents'[a] = rows[i]
        BY <1>1
      <3>2. rows[i].profile = p /\ i \in of
        BY <3>1 DEF OfProfile
      <3>3. a - n = i /\ a \in Int
        <4>1. i \in Nat
          BY <1>2
        <4>2. n \in Nat
          BY <1>1
        <4>3. a = n + i
          BY <3>1
        <4> HIDE DEF n
        <4> QED
          BY <4>1, <4>2, <4>3
      <3> QED
        BY <3>2, <3>3
    <2> HIDE DEF new, of, n
    <2> QED
      BY <1>1, <2>1 DEF Injection, IsInjective
  <1>6. IsFiniteSet(new) /\ Cardinality(new) <= Cardinality(of)
        /\ Cardinality(new) \in Nat /\ Cardinality(of) \in Nat
    <2> HIDE DEF shift, new, of
    <2>1. IsFiniteSet(new) /\ Cardinality(new) <= Cardinality(of)
      BY <1>2, <1>5, FS_Injection
    <2> QED
      BY <1>2, <2>1, FS_CardinalityType
  <1>7. /\ IsFiniteSet(both) /\ Cardinality(both) \in Nat
        /\ Cardinality(both) <= Cardinality(old) + Cardinality(new)
    <2> HIDE DEF both, old, new
    <2>1. IsFiniteSet(old \cup new)
          /\ Cardinality(old \cup new) =
               Cardinality(old) + Cardinality(new) - Cardinality(old \cap new)
      BY <1>4, <1>6, FS_Union
    <2>2. IsFiniteSet(old \cap new)
      BY <1>4, FS_Subset
    <2>3. Cardinality(old \cap new) \in Nat /\ Cardinality(both) \in Nat
      BY <1>3, <2>1, <2>2, FS_CardinalityType
    <2> QED
      BY <1>3, <1>4, <1>6, <2>1, <2>3
  <1>8. CASE of = {}
    <2>1. new = {}
      <3>1. shift \in [new -> of]
        BY <1>5 DEF Injection
      <3> HIDE DEF shift, new, of
      <3> QED
        BY <1>8, <3>1
    <2>2. both = old /\ old # {}
      BY <1>3, <2>1
    <2>3. PICK c \in Ids : agents[c].profile = p
      BY <2>2 DEF Built, Live
    <2>4. FewEnough(r, old)
      <3>1. old = Built(r, agents[c].profile)
        BY <2>3
      <3> HIDE DEF old, p
      <3> QED
        BY <2>2, <3>1 DEF StaffInv, Sparse
    <2>5. FewEnough(r, both)
      BY <2>2, <2>4
    <2> QED
      BY <2>5 DEF FewEnough, Level
  <1>9. CASE of # {}
    <2>1. PICK t \in DOMAIN plan[r] :
            p = match[t] /\ Cardinality(of) <= Missing(r, match, p)
      BY <1>2, <1>9
    <2> DEFINE d == Demand(r, match, p)
    <2>2. /\ d \in Nat /\ d <= MaxParallel
          /\ \E u \in DOMAIN plan[r] : d <= Cardinality(Level(r, u))
      <3>1. DOMAIN match = DOMAIN plan[r] /\ t \in DOMAIN match /\ PlanTypes
        BY DEF StaffInv, StaffTypes
      <3>2. /\ Demand(r, match, match[t]) \in Nat
            /\ Demand(r, match, match[t]) <= MaxParallel
            /\ \E u \in DOMAIN plan[r] : Demand(r, match, match[t]) <= Cardinality(Level(r, u))
        <4> HIDE DEF d, p, of, old, new, here, both, rows, n
        <4> QED
          BY <3>1, DemandIsBounded
      <3>3. d = Demand(r, match, match[t])
        BY <2>1
      <3> HIDE DEF d
      <3> QED
        BY <3>2, <3>3
    <2>3. Missing(r, match, p) = d - Cardinality(here)
      BY DEF Missing
    <2> HIDE DEF d, p, of, old, new, here, both
    <2>4. Cardinality(both) <= d
      BY <1>4, <1>6, <1>7, <2>1, <2>2, <2>3
    <2>5. PICK u \in DOMAIN plan[r] : d <= Cardinality(Level(r, u))
      BY <2>2
    <2>6. Cardinality(Level(r, u)) \in Nat
      BY FinitePlan DEF StaffInv, StaffTypes
    <2>7. Cardinality(both) <= MaxParallel /\ Cardinality(both) <= Cardinality(Level(r, u))
      BY <1>0, <1>7, <2>2, <2>4, <2>5, <2>6
    <2>8. FewEnough(r, both)
      BY <2>7 DEF FewEnough
    <2> QED
      BY <2>8 DEF FewEnough, Level, both
  <1> QED
    BY <1>8, <1>9

LEMMA BuildTeamKeeps ==
    ASSUME StaffInv, NEW r \in Runs, BuildTeam(r)
    PROVE  StaffInv'
  <1>1. PICK match \in [DOMAIN plan[r] -> DOMAIN registered] :
          /\ \A t \in DOMAIN plan[r] : match[t] \in Matches(r, Needs(r, t))
          /\ agents' = agents \o Created(r, match)
    BY DEF BuildTeam
  <1>2. /\ UNCHANGED <<registered, links, vetoed, plan, done, disturbed, unsaved, restarts, events>>
        /\ phase[r] = "planned" /\ phase' = [phase EXCEPT ![r] = "staffed"]
        /\ call' = [a \in DOMAIN agents' |-> IF a \in Ids THEN call[a] ELSE NoCall]
    BY DEF BuildTeam, process
  <1>3. /\ Grows(r)
        /\ \A i \in DOMAIN Created(r, match) :
              Len(agents) + i \in Ids' /\ agents'[Len(agents) + i] = Created(r, match)[i]
        /\ \A a \in Ids' \ Ids : \E p \in DOMAIN registered : agents'[a] = NewAgent(r, p, 0)
    BY <1>1, BuildGrows
  <1>4. /\ phase'[r] = "staffed" /\ \A s \in Runs : s # r => phase'[s] = phase[s]
        /\ phase' \in [Runs -> {"new", "planned", "staffed", "unstaffed", "ended", "stuck"}]
    BY <1>2 DEF StaffInv, StaffTypes, PlanTypes
  <1>5. /\ AgentTypes' /\ Working'
        /\ Served(r) => Served(r)'
        /\ \A a \in Ids' \ Ids : agents'[a].run = r /\ agents'[a].status = "idle"
    BY <1>2, <1>3, GrowthKeeps DEF StaffInv, StaffTypes, CallTypes
  <1>6. ProfileTypes' /\ PlanTypes' /\ restarts' \in Nat /\ events' \in Nat
    BY <1>2, <1>4 DEF StaffInv, StaffTypes, ProfileTypes, PlanTypes, RestartTypes
  <1>7. CallTypes'
    <2>1. Ids' = 1..Len(agents') /\ Len(agents') \in Nat /\ Ids \subseteq Ids'
          /\ DOMAIN agents' = Ids' /\ \A a \in Ids : agents'[a] = agents[a]
      BY <1>3 DEF Grows, Ids
    <2>2. NoCall \in CallRow /\ NoCall.at = "none"
      BY DEF NoCall, CallRow
    <2>3. \A a \in Ids : call[a] \in CallRow
      BY DEF StaffInv, StaffTypes, CallTypes
    <2>4. call' \in [1..Len(agents') -> CallRow]
      BY <1>2, <2>1, <2>2, <2>3
    <2>5. call' \in Seq(CallRow) /\ DOMAIN call' = Ids'
      BY <2>1, <2>4
    <2>6. \A a \in Ids' : call'[a] = IF a \in Ids THEN call[a] ELSE NoCall
      BY <1>2, <2>1
    <2>7. \A a \in Ids' : call'[a].at \in {"created", "linked"} =>
                             call'[a].child \in Ids' /\ agents'[call'[a].child].parent = a
      <3> SUFFICES ASSUME NEW a \in Ids', call'[a].at \in {"created", "linked"}
                   PROVE  call'[a].child \in Ids' /\ agents'[call'[a].child].parent = a
        OBVIOUS
      <3>1. a \in Ids /\ call'[a] = call[a]
        BY <2>2, <2>6
      <3> QED
        BY <2>1, <3>1 DEF StaffInv, StaffTypes, CallTypes
    <2> QED
      BY <1>2, <2>1, <2>5, <2>7 DEF StaffInv, StaffTypes, CallTypes
  <1>15. Vetoes' /\ RestartTypes'
    <2>1. NoCall.at = "none" /\ \A a \in Ids' : call'[a] = IF a \in Ids THEN call[a] ELSE NoCall
      BY <1>2 DEF NoCall, Ids
    <2>2. \A a \in Ids' : call'[a].at \in {"created", "linked"} => call'[a].child \notin unsaved
      BY <2>1 DEF StaffInv, Vetoes, Pending
    <2> QED
      BY <1>2, <1>3, <2>2, GrowthKeepsVetoes DEF StaffInv
  <1>8. \A s \in Runs : s # r =>
           /\ phase'[s] = "new" => DOMAIN plan'[s] = {} /\ AgentsOf(s)' = {}
           /\ s \notin disturbed =>
                /\ AgentsOf(s)' # {} => Served(s)'
                /\ phase'[s] \in Started => Served(s)'
                /\ \A a \in AgentsOf(s)' : agents'[a].parent = 0 => agents'[a].status \notin Away
           /\ \A b \in Ids' : Built(s, agents[b].profile)' # {} =>
                FewEnough(s, Built(s, agents[b].profile))'
    BY <1>2, <1>3, <1>4, GrowthKeepsOthers
  <1>9. Unborn'
    BY <1>4, <1>8 DEF Unborn
  <1>10. ASSUME r \notin disturbed
         PROVE  /\ Served(r)'
                /\ \A a \in AgentsOf(r)' : agents'[a].parent = 0 => agents'[a].status \notin Away
    <2>1. Served(r)'
      <3>1. CASE AgentsOf(r) # {}
        <4>1. Served(r)
          BY <1>10, <3>1 DEF StaffInv, Serving
        <4> QED
          BY <1>5, <4>1
      <3>2. CASE AgentsOf(r) = {}
        <4> SUFFICES ASSUME NEW t \in DOMAIN plan[r] PROVE \E a \in Ids' : Serves(a, r, t)'
          BY <1>2 DEF Served
        <4>1. PICK i \in DOMAIN Created(r, match) :
                 Created(r, match)[i] = NewAgent(r, match[t], 0)
          BY <3>2, CreatedStep
        <4>2. PICK a \in Ids' : agents'[a] = NewAgent(r, match[t], 0)
          BY <1>3, <4>1
        <4>3. agents'[a].run = r /\ agents'[a].parent = 0 /\ agents'[a].profile = match[t]
          BY <4>2 DEF NewAgent
        <4>4. Fits(Needs(r, t), CapsOf(match[t]))
          BY <1>1, MatchFits
        <4>5. Serves(a, r, t)'
          BY <1>2, <4>3, <4>4 DEF Serves, Needs
        <4> QED
          BY <4>2, <4>5
      <3> QED
        BY <3>1, <3>2
    <2>2. ASSUME NEW a \in AgentsOf(r)', agents'[a].parent = 0
          PROVE  agents'[a].status \notin Away
      <3>1. a \in Ids' /\ agents'[a].run = r
        BY DEF AgentsOf
      <3>2. CASE a \in Ids
        <4>1. agents'[a] = agents[a]
          BY <1>3, <3>2 DEF Grows
        <4> QED
          BY <1>10, <2>2, <3>1, <3>2, <4>1 DEF StaffInv, Serving, AgentsOf
      <3>3. CASE a \notin Ids
        BY <1>5, <3>1, <3>3 DEF Ending, Away
      <3> QED
        BY <3>2, <3>3
    <2> QED
      BY <2>1, <2>2
  <1>11. Serving'
    BY <1>2, <1>8, <1>10 DEF Serving, Started
  <1>12. Cut'
    <2> SUFFICES ASSUME restarts = 0
                 PROVE  /\ \A p \in DOMAIN registered : p.under = <<>> \/ Derived(p)'
                        /\ \A a \in Ids' : CutDown(a)'
      BY <1>2 DEF Cut
    <2>1. /\ \A p \in DOMAIN registered : p.under = <<>> \/ Derived(p)
          /\ \A a \in Ids : CutDown(a)
      BY DEF StaffInv, Cut
    <2>2. \A a \in Ids : a \in Ids' /\ agents'[a] = agents[a]
      BY <1>3 DEF Grows
    <2>3. \A p : Derived(p) => Derived(p)'
      BY <1>2, <2>2 DEF Derived, Restricted
    <2>4. ASSUME NEW a \in Ids' PROVE CutDown(a)'
      <3>1. CASE a \in Ids
        <4>1. agents[a].parent # 0 => agents[a].parent \in Ids
          <5>1. a \in Nat /\ Ids = 1..Len(agents) /\ Len(agents) \in Nat
                /\ agents[a].parent \in 0..(a - 1)
            BY <3>1, SameRow DEF StaffInv, StaffTypes, AgentTypes
          <5> QED
            BY <3>1, <5>1
        <4> QED
          BY <1>2, <2>1, <2>2, <3>1, <4>1 DEF CutDown
      <3>2. CASE a \notin Ids
        <4>1. PICK p \in DOMAIN registered : agents'[a] = NewAgent(r, p, 0)
          BY <1>3, <3>2
        <4> QED
          BY <1>2, <4>1 DEF CutDown, NewAgent
      <3> QED
        BY <3>1, <3>2
    <2> QED
      BY <2>1, <2>3, <2>4
  <1>13. Sparse'
    <2>1. \A b \in Ids' : Built(r, agents[b].profile)' # {} =>
             FewEnough(r, Built(r, agents[b].profile))'
      BY <1>1, <1>2, BuiltAreFew
    <2> QED
      BY <1>8, <2>1 DEF Sparse
  <1>14. BuilderStaffs' /\ TeamsServe'
    <2>1. \A s \in Runs : /\ phase'[s] = "unstaffed" => phase[s] = "unstaffed"
                          /\ phase'[s] = "stuck" => phase[s] = "stuck"
      BY <1>4
    <2> QED
      BY <1>2, <2>1, RolesKept, ServiceKept DEF StaffInv
  <1> QED
    BY <1>5, <1>6, <1>7, <1>9, <1>11, <1>12, <1>13, <1>14, <1>15 DEF StaffInv, StaffTypes
\* Whose profile was cut down, and from which, can be read from it.
LEMMA ProfileIsRead ==
    ASSUME NEW p \in ProfileRow, NEW q \in ProfileRow, NEW a \in Nat, NEW b \in Nat,
           Profile(p.role, Append(p.under, a)) = Profile(q.role, Append(q.under, b))
    PROVE  p = q /\ a = b
  <1>1. /\ p.role = q.role /\ Append(p.under, a) = Append(q.under, b)
        /\ p.under \in Seq(Nat) /\ q.under \in Seq(Nat)
    BY DEF Profile, ProfileRow
  <1>2. \A s, t \in Seq(Nat) : Append(s, a) = Append(t, b) => s = t /\ a = b
    <2> SUFFICES ASSUME NEW s \in Seq(Nat), NEW t \in Seq(Nat), Append(s, a) = Append(t, b)
                 PROVE  s = t /\ a = b
      OBVIOUS
    <2>0. ASSUME NEW u \in Seq(Nat), NEW c \in Nat
          PROVE  /\ Len(Append(u, c)) = Len(u) + 1 /\ Append(u, c)[Len(u) + 1] = c
                 /\ \A i \in 1..Len(u) : Append(u, c)[i] = u[i]
                 /\ Len(u) \in Nat
      <3>1. Len(u) \in Nat
        BY LenProperties
      <3>2. /\ Len(Append(u, c)) = Len(u) + 1 /\ Append(u, c)[Len(u) + 1] = c
            /\ \A i \in 1..Len(u) : Append(u, c)[i] = u[i]
        BY AppendProperties
      <3> QED
        BY <3>1, <3>2
    <2>1. /\ Len(Append(s, a)) = Len(s) + 1 /\ Append(s, a)[Len(s) + 1] = a
          /\ \A i \in 1..Len(s) : Append(s, a)[i] = s[i]
          /\ Len(Append(t, b)) = Len(t) + 1 /\ Append(t, b)[Len(t) + 1] = b
          /\ \A i \in 1..Len(t) : Append(t, b)[i] = t[i]
          /\ Len(s) \in Nat /\ Len(t) \in Nat
      BY <2>0
    <2>2. Len(s) = Len(t)
      BY <2>1
    <2>3. a = b /\ \A i \in 1..Len(s) : s[i] = t[i]
      BY <2>1, <2>2
    <2>4. s \in [1..Len(s) -> Nat] /\ t \in [1..Len(s) -> Nat]
      BY <2>2, LenProperties
    <2>5. s = t
      BY <2>3, <2>4
    <2> QED
      BY <2>3, <2>5
  <1>3. p.under = q.under /\ a = b
    BY <1>1, <1>2
  <1> QED
    BY <1>1, <1>3 DEF ProfileRow

LEMMA CutProfile ==
    ASSUME NEW base \in ProfileRow, NEW a \in Nat
    PROVE  LET child == Profile(base.role, Append(base.under, a))
           IN  child \in ProfileRow /\ child.under # <<>> /\ child.role = base.role
  <1>1. base.role \in Roles /\ base.under \in Seq(Nat)
    BY DEF ProfileRow
  <1>2. Append(base.under, a) \in Seq(Nat) /\ Len(Append(base.under, a)) # 0
    BY <1>1
  <1>3. Append(base.under, a) # <<>>
    BY <1>2
  <1> QED
    BY <1>1, <1>2, <1>3 DEF Profile, ProfileRow

LEMMA ChildGrows ==
    ASSUME StaffInv, NEW a \in Ids, NEW child \in ProfileRow,
           agents' = Append(agents, NewAgent(agents[a].run, child, a))
    PROVE  /\ Grows(agents[a].run) /\ agents[a].run \in Runs
           /\ Ids' = Ids \cup {Len(agents) + 1} /\ Len(agents) + 1 \notin Ids
           /\ agents'[Len(agents) + 1] = NewAgent(agents[a].run, child, a)
  <1> DEFINE n == Len(agents)
             r == agents[a].run
             rec == NewAgent(r, child, a)
  <1>1. /\ agents \in Seq(AgentRow) /\ n \in Nat /\ Ids = 1..n /\ a \in 1..n /\ r \in Runs
    BY SameRow DEF StaffInv, StaffTypes, AgentTypes
  <1>2. a \in Nat /\ a \in 0..n
    <2> HIDE DEF n
    <2> QED
      BY <1>1
  <1>3. rec \in AgentRow /\ rec.profile = child /\ rec.parent = a
    <2>1. \A s \in Runs : \A parent \in Nat : LET x == NewAgent(s, child, parent)
             IN  x \in AgentRow /\ x.profile = child /\ x.parent = parent
      BY NewRow
    <2> HIDE DEF r
    <2> QED
      BY <1>1, <1>2, <2>1 DEF r
  <1>4. /\ agents' \in Seq(AgentRow) /\ Len(agents') = n + 1
        /\ DOMAIN agents' = 1..(n + 1)
        /\ \A i \in 1..n : agents'[i] = agents[i]
        /\ agents'[n + 1] = rec
    <2> HIDE DEF rec
    <2>1. agents' = Append(agents, rec)
      BY DEF rec
    <2> QED
      BY <1>1, <1>3, <2>1
  <1> HIDE DEF n, rec, r
  <1>5. Ids' = 1..(n + 1) /\ Ids' = Ids \cup {n + 1} /\ n + 1 \notin Ids
    BY <1>1, <1>4 DEF Ids
  <1>6. IsNew(n + 1, r)
    <2>1. agents'[n + 1].profile \in ProfileRow /\ agents'[n + 1].parent = a
      BY <1>3, <1>4
    <2>2. a \in 0..((n + 1) - 1)
      BY <1>1, <1>2
    <2>3. agents'[n + 1] = NewAgent(r, agents'[n + 1].profile, agents'[n + 1].parent)
      BY <1>3, <1>4 DEF rec
    <2> QED
      BY <2>1, <2>2, <2>3 DEF IsNew
  <1>7. agents' = [i \in Ids' |-> agents'[i]]
    <2>1. agents' \in [1..Len(agents') -> AgentRow]
      BY <1>4, LenProperties
    <2>2. agents' \in [Ids' -> AgentRow]
      BY <1>4, <1>5, <2>1
    <2> QED
      BY <2>2
  <1>8. Grows(r)
    <2>1. Len(agents') \in Nat
      BY <1>1, <1>4
    <2>2. \A i \in Ids' : i \in Ids \/ IsNew(i, r)
      BY <1>5, <1>6
    <2> QED
      BY <1>1, <1>4, <1>5, <1>7, <2>1, <2>2 DEF Grows
  <1> QED
    BY <1>1, <1>4, <1>5, <1>8 DEF n, r, rec

LEMMA SpawnCreatesKeeps ==
    ASSUME StaffInv, NEW a \in Ids, SpawnCreates(a)
    PROVE  StaffInv'
  <1>0. PICK r \in Runs : r = agents[a].run
    BY SameRow DEF StaffInv, StaffTypes
  <1> DEFINE parent == agents[a].profile
             new == Len(agents) + 1
  <1>1. /\ UNCHANGED <<links, vetoed, plan, done, phase, disturbed, unsaved, restarts, events>>
        /\ parent \in DOMAIN registered
        /\ call' = Append([call EXCEPT ![a].at = "created", ![a].child = new], NoCall)
    BY DEF SpawnCreates, process
  <1>2. PICK base \in FindBest(call[a].needs) :
          LET child == Profile(base.role, Append(base.under, a))
          IN  /\ registered' = Put(registered, child, Restricted(base, parent))
              /\ agents' = Append(agents, NewAgent(r, child, a))
    BY <1>0 DEF SpawnCreates
  <1> DEFINE child == Profile(base.role, Append(base.under, a))
  <1>3. base \in DOMAIN registered /\ base \in ProfileRow /\ a \in Nat /\ a >= 1 /\ a # 0
    <2>1. base \in DOMAIN registered
      BY DEF FindBest, FindWorkers
    <2>2. a \in Nat /\ a >= 1
      BY SameRow DEF StaffInv, StaffTypes
    <2> QED
      BY <2>1, <2>2 DEF StaffInv, StaffTypes, ProfileTypes
  <1>4. child \in ProfileRow /\ child.under # <<>> /\ child.role = base.role
    BY <1>3, CutProfile
  <1>5. /\ registered' = Put(registered, child, Restricted(base, parent))
        /\ agents' = Append(agents, NewAgent(r, child, a))
    BY <1>2
  <1> HIDE DEF child
  <1>6. /\ Grows(r) /\ Ids' = Ids \cup {new} /\ new \notin Ids
        /\ agents'[new] = NewAgent(r, child, a)
    BY <1>0, <1>4, <1>5, ChildGrows
  <1>7. /\ agents'[new].parent = a /\ agents'[new].profile = child /\ agents'[new].run = r
        /\ agents'[new].as = {}
    BY <1>6 DEF NewAgent
  <1>8. \A b \in Ids : b \in Ids' /\ agents'[b] = agents[b]
    BY <1>6 DEF Grows
  <1>9. /\ AgentTypes' /\ Working'
        /\ \A s \in Runs : Served(s) => Served(s)'
    BY <1>1, <1>6, GrowthKeeps DEF StaffInv, StaffTypes, CallTypes
  <1>10. /\ DOMAIN registered' = DOMAIN registered \cup {child}
         /\ registered'[child] = Restricted(base, parent)
         /\ \A p \in DOMAIN registered : p # child => registered'[p] = registered[p]
    BY <1>5 DEF Put
  <1>11. ProfileTypes'
    <2>1. registered'[child] \subseteq Tools[child.role]
      BY <1>3, <1>4, <1>10 DEF Restricted, StaffInv, StaffTypes, ProfileTypes
    <2>2. Defaults \subseteq DOMAIN registered' /\ DOMAIN registered' \subseteq ProfileRow
      BY <1>4, <1>10 DEF StaffInv, StaffTypes, ProfileTypes
    <2>3. \A p \in DOMAIN registered : registered[p] \subseteq Tools[p.role]
      BY DEF StaffInv, StaffTypes, ProfileTypes
    <2> QED
      BY <1>10, <2>1, <2>2, <2>3 DEF ProfileTypes
  <1>12. PlanTypes'
    BY <1>1 DEF StaffInv, StaffTypes, PlanTypes
  <1>13. CallTypes' /\ Vetoes' /\ RestartTypes'
    <2> DEFINE mid == [call EXCEPT ![a].at = "created", ![a].child = new]
               rec == [call[a] EXCEPT !.at = "created", !.child = new]
    <2>1. /\ call \in Seq(CallRow) /\ DOMAIN call = Ids /\ call[a] \in CallRow
          /\ Len(agents) \in Nat /\ Ids = 1..Len(agents)
      BY SameRow DEF StaffInv, StaffTypes, CallTypes, AgentTypes
    <2>2. Len(call) = Len(agents)
      <3>1. DOMAIN call = 1..Len(call) /\ Len(call) \in Nat
        BY <2>1, LenProperties
      <3> QED
        BY <2>1, <3>1
    <2>3. rec \in CallRow /\ rec.child = new
      <3>1. new \in Nat
        BY <2>1
      <3> HIDE DEF new
      <3> QED
        BY <2>1, <3>1 DEF CallRow
    <2>4. mid = [call EXCEPT ![a] = rec]
      BY <2>1
    <2> HIDE DEF rec, mid
    <2>5. /\ mid \in Seq(CallRow) /\ Len(mid) = Len(agents) /\ mid[a] = rec
          /\ \A b \in Ids : b # a => mid[b] = call[b]
      BY <2>1, <2>2, <2>3, <2>4
    <2>6. NoCall \in CallRow /\ NoCall.at = "none"
      BY DEF NoCall, CallRow
    <2>7. call' = Append(mid, NoCall)
      BY <1>1 DEF mid
    <2>8. /\ call' \in Seq(CallRow) /\ DOMAIN call' = 1..new /\ call'[new] = NoCall
          /\ \A b \in Ids : call'[b] = mid[b]
      BY <2>1, <2>5, <2>6, <2>7
    <2>9. DOMAIN call' = Ids'
      BY <1>6, <2>1, <2>8
    <2>10. \A b \in Ids' : call'[b].at \in {"created", "linked"} =>
                             call'[b].child \in Ids' /\ agents'[call'[b].child].parent = b
      <3> SUFFICES ASSUME NEW b \in Ids', call'[b].at \in {"created", "linked"}
                   PROVE  call'[b].child \in Ids' /\ agents'[call'[b].child].parent = b
        OBVIOUS
      <3>1. b \in Ids
        BY <1>6, <2>6, <2>8
      <3>2. CASE b = a
        BY <1>6, <1>7, <2>3, <2>5, <2>8, <3>2
      <3>3. CASE b # a
        <4>1. call'[b] = call[b]
          BY <2>5, <2>8, <3>1, <3>3
        <4>2. call[b].child \in Ids /\ agents[call[b].child].parent = b
          BY <3>1, <4>1 DEF StaffInv, StaffTypes, CallTypes
        <4> QED
          BY <1>8, <4>1, <4>2
      <3> QED
        BY <3>2, <3>3
    <2>11. DOMAIN links' \subseteq Ids'
           /\ \A b \in DOMAIN links' : links'[b] \in Nat
      BY <1>1, <1>8 DEF StaffInv, StaffTypes, CallTypes
    <2>12. \A b \in Ids' : call'[b].at \in {"created", "linked"} => call'[b].child \notin unsaved
      <3> SUFFICES ASSUME NEW b \in Ids', call'[b].at \in {"created", "linked"}
                   PROVE  call'[b].child \notin unsaved
        OBVIOUS
      <3>1. b \in Ids
        BY <1>6, <2>6, <2>8
      <3>2. CASE b = a
        <4>1. unsaved \subseteq Ids
          BY DEF StaffInv, StaffTypes, RestartTypes
        <4> QED
          BY <1>6, <2>3, <2>5, <2>8, <3>2, <4>1
      <3>3. CASE b # a
        <4>1. call'[b] = call[b]
          BY <2>5, <2>8, <3>1, <3>3
        <4> QED
          BY <3>1, <4>1 DEF StaffInv, Vetoes, Pending
      <3> QED
        BY <3>2, <3>3
    <2>13. Vetoes' /\ RestartTypes'
      BY <1>1, <1>6, <2>12, GrowthKeepsVetoes DEF StaffInv
    <2> QED
      BY <2>8, <2>9, <2>10, <2>11, <2>13 DEF CallTypes
  <1>14. \A s \in Runs : s # r =>
           /\ phase'[s] = "new" => DOMAIN plan'[s] = {} /\ AgentsOf(s)' = {}
           /\ s \notin disturbed =>
                /\ AgentsOf(s)' # {} => Served(s)'
                /\ phase'[s] \in Started => Served(s)'
                /\ \A b \in AgentsOf(s)' : agents'[b].parent = 0 => agents'[b].status \notin Away
           /\ \A b \in Ids' : Built(s, agents[b].profile)' # {} =>
                FewEnough(s, Built(s, agents[b].profile))'
    BY <1>1, <1>6, GrowthKeepsOthers
  <1>15. a \in AgentsOf(r)
    BY <1>0 DEF AgentsOf
  <1>16. Unborn'
    <2>1. phase[r] # "new"
      BY <1>15 DEF StaffInv, Unborn
    <2> QED
      BY <1>1, <1>14, <2>1 DEF Unborn
  <1>17. ASSUME r \notin disturbed
         PROVE  /\ Served(r)'
                /\ \A b \in AgentsOf(r)' : agents'[b].parent = 0 => agents'[b].status \notin Away
    <2>1. Served(r)
      BY <1>6, <1>15, <1>17 DEF StaffInv, Serving
    <2>2. \A b \in AgentsOf(r) : agents[b].parent = 0 => agents[b].status \notin Away
      BY <1>6, <1>17 DEF StaffInv, Serving
    <2>3. ASSUME NEW b \in AgentsOf(r)', agents'[b].parent = 0
          PROVE  agents'[b].status \notin Away
      <3>1. b \in Ids'
        BY DEF AgentsOf
      <3>2. b \in Ids
        BY <1>3, <1>6, <1>7, <2>3, <3>1
      <3>3. agents'[b] = agents[b]
        BY <1>8, <3>2
      <3> QED
        BY <2>2, <2>3, <3>2, <3>3 DEF AgentsOf
    <2> QED
      BY <1>6, <1>9, <2>1, <2>3
  <1>18. Serving'
    BY <1>1, <1>14, <1>17 DEF Serving, Started
  <1>19. Cut'
    <2> SUFFICES ASSUME restarts = 0
                 PROVE  /\ \A p \in DOMAIN registered' : p.under = <<>> \/ Derived(p)'
                        /\ \A b \in Ids' : CutDown(b)'
      BY <1>1 DEF Cut
    <2>1. /\ \A p \in DOMAIN registered : p.under = <<>> \/ Derived(p)
          /\ \A b \in Ids : CutDown(b)
      BY DEF StaffInv, Cut
    <2>2. child \in DOMAIN registered => registered[child] = Restricted(base, parent)
      <3> SUFFICES ASSUME child \in DOMAIN registered
                   PROVE  registered[child] = Restricted(base, parent)
        OBVIOUS
      <3>1. Derived(child)
        BY <1>4, <2>1
      <3>2. PICK q \in DOMAIN registered, b \in Ids :
               /\ child = Profile(q.role, Append(q.under, b))
               /\ registered[child] = Restricted(q, agents[b].profile)
        BY <3>1 DEF Derived
      <3>3. q \in ProfileRow /\ b \in Nat
        BY SameRow DEF StaffInv, StaffTypes, ProfileTypes
      <3>4. q = base /\ b = a
        BY <1>3, <3>2, <3>3, ProfileIsRead DEF child
      <3> QED
        BY <3>2, <3>4
    <2>3. \A p \in DOMAIN registered : p \in DOMAIN registered' /\ registered'[p] = registered[p]
      BY <1>10, <2>2
    <2>4. \A p \in DOMAIN registered : Derived(p) => Derived(p)'
      BY <1>8, <2>3 DEF Derived, Restricted
    <2>5. Derived(child)'
      BY <1>1, <1>3, <1>8, <1>10, <2>3 DEF Derived, Restricted, child
    <2>6. ASSUME NEW b \in Ids' PROVE CutDown(b)'
      <3>1. CASE b \in Ids
        <4>1. agents[b].parent # 0 => agents[b].parent \in Ids
          <5>1. b \in Nat /\ Ids = 1..Len(agents) /\ Len(agents) \in Nat
                /\ agents[b].parent \in 0..(b - 1)
            BY <3>1, SameRow DEF StaffInv, StaffTypes, AgentTypes
          <5> QED
            BY <3>1, <5>1
        <4>2. \A c \in Ids : agents[c].profile \in DOMAIN registered
          BY <2>1 DEF CutDown
        <4> QED
          BY <1>8, <2>1, <2>3, <3>1, <4>1, <4>2 DEF CutDown
      <3>2. CASE b = new
        <4>1. agents'[a].profile = parent /\ registered'[parent] = registered[parent]
          BY <1>1, <1>8, <2>3
        <4>2. registered'[child] \subseteq registered'[parent]
          BY <1>10, <4>1 DEF Restricted
        <4> QED
          BY <1>7, <1>10, <3>2, <4>1, <4>2 DEF CutDown
      <3> QED
        BY <1>6, <3>1, <3>2
    <2> QED
      BY <1>10, <2>1, <2>4, <2>5, <2>6
  <1>20. Sparse'
    <2>1. ASSUME NEW b \in Ids', Built(r, agents[b].profile)' # {}
          PROVE  FewEnough(r, Built(r, agents[b].profile))'
      <3> DEFINE p == agents'[b].profile
                 built == Built(r, agents[b].profile)'
      <3>1. built = Built(r, p)
        <4>1. built = {c \in Ids' : /\ agents'[c].run = r
                                    /\ agents'[c].status \notin {"stopped", "gone"}
                                    /\ agents'[c].parent = 0 /\ agents'[c].profile = p}
          BY DEF Built, Live
        <4>2. \A c \in Ids' : agents'[c].parent = 0 => c \in Ids /\ agents'[c] = agents[c]
          BY <1>3, <1>6, <1>7, <1>8
        <4> HIDE DEF p, built
        <4> QED
          BY <1>8, <4>1, <4>2 DEF Built, Live
      <3>2. PICK c \in Ids : agents[c].profile = p
        BY <2>1, <3>1 DEF Built, Live
      <3>3. FewEnough(r, Built(r, p))
        BY <1>6, <2>1, <3>1, <3>2 DEF StaffInv, Sparse
      <3> HIDE DEF p
      <3> QED
        BY <1>1, <3>1, <3>3 DEF FewEnough, Level
    <2> QED
      BY <1>14, <2>1 DEF Sparse
  <1>21. BuilderStaffs' /\ TeamsServe'
    BY <1>1, RolesKept, ServiceKept DEF StaffInv
  <1> QED
    BY <1>9, <1>11, <1>12, <1>13, <1>16, <1>18, <1>19, <1>20, <1>21 DEF StaffInv, StaffTypes
-----------------------------------------------------------------------------
(* Staffing: the theorems                                                    *)

LEMMA StaffInitInv == StaffInit => StaffInv
  <1> SUFFICES ASSUME StaffInit PROVE StaffInv
    OBVIOUS
  <1> USE DEF StaffInit
  <1>1. agents = <<>> /\ Ids = {} /\ call = <<>> /\ DOMAIN call = {} /\ DOMAIN links = {}
    BY DEF Ids
  <1>2. agents \in Seq(AgentRow) /\ call \in Seq(CallRow)
    BY <1>1
  <1>3. AgentTypes /\ CallTypes /\ Working
    BY <1>1, <1>2 DEF AgentTypes, CallTypes, Working
  <1>4. ProfileTypes
    BY DefaultsAreProfiles DEF ProfileTypes
  <1>5. \A r \in Runs : DOMAIN plan[r] = {}
    OBVIOUS
  <1>6. PlanTypes
    <2>1. IsFiniteSet({})
      BY FS_EmptySet
    <2> QED
      BY <1>5, <2>1 DEF PlanTypes
  <1>7. RestartTypes /\ Vetoes
    BY <1>1 DEF RestartTypes, Vetoes, VetoedChildrenEnd, Pending
  <1>8. Unborn /\ Serving /\ Sparse
    BY <1>1, <1>5 DEF Unborn, Serving, Sparse, AgentsOf
  <1>9. Cut
    BY <1>1, DefaultsAreProfiles DEF Cut
  <1>10. BuilderStaffs /\ TeamsServe
    BY DEF BuilderStaffs, TeamsServe
  <1> QED
    BY <1>3, <1>4, <1>6, <1>7, <1>8, <1>9, <1>10 DEF StaffInv, StaffTypes

LEMMA StaffStutters ==
    ASSUME StaffInv, UNCHANGED staffVars
    PROVE  StaffInv'
  <1>1. UNCHANGED <<registered, agents, links, call, vetoed, plan, done, phase, disturbed,
                    unsaved, restarts, events>>
    BY DEF staffVars, registry, process
  <1>2. CallTypes'
    BY <1>1 DEF StaffInv, StaffTypes, CallTypes, Ids
  <1> QED
    BY <1>1, <1>2, CallMovesOn

LEMMA StaffStep == StaffInv /\ [StaffNext]_staffVars => StaffInv'
  <1> SUFFICES ASSUME StaffInv, [StaffNext]_staffVars PROVE StaffInv'
    OBVIOUS
  <1>1. ASSUME NEW r \in Runs, Run(r) PROVE StaffInv'
    BY <1>1, SupervisorKeeps, BuildTeamKeeps, BuildFailsKeeps, AssignKeeps, RunEndsKeeps,
       RepairKeeps DEF Run
  <1>2. ASSUME NEW a \in Ids, Agent(a) PROVE StaffInv'
    BY <1>2, BeginKeeps, ReturnKeeps, SpawnChecksKeeps, SpawnCreatesKeeps, SpawnLinksKeeps,
       SpawnAnnouncesKeeps, SpawnFailsKeeps, StopKeeps, PauseKeeps, ResumeKeeps, ReapKeeps DEF Agent
  <1>3. CASE UNCHANGED staffVars
    BY <1>3, StaffStutters
  <1> QED
    BY <1>1, <1>2, <1>3, RestartKeeps DEF StaffNext

THEOREM StaffInvariant == StaffSpec => []StaffInv
  BY StaffInitInv, StaffStep, PTL DEF StaffSpec

\* What the process knows of agents, profiles, calls and plans is consistent, and until
\* the second restart after a hook's objection a teammate takes no further task
\* (dynamic_team.py:96-119, resume_coordinator.py:107-141).
THEOREM StaffIsSafe == StaffSpec => []StaffSafety
  <1>1. StaffInv => StaffSafety
    BY DEF StaffInv, StaffSafety, Vetoes
  <1> QED
    BY <1>1, StaffInvariant, PTL

\* Who is reserved fits, or the executor finds another profile that does.
LEMMA BeginInv == StaffInv => WorkersBegin
  <1> SUFFICES ASSUME StaffInv, NEW a \in Ids, agents[a].status = "claiming",
                      NEW role \in Roles,
                      Needs(agents[a].run, agents[a].task) \subseteq Caps[role],
                      NEW p \in Profiles(a)
               PROVE  Needs(agents[a].run, agents[a].task) \subseteq CapsOf(p)
    BY DEF WorkersBegin
  <1> DEFINE needs == Needs(agents[a].run, agents[a].task)
  <1>1. needs \subseteq CapsOf(agents[a].profile)
    BY DEF StaffInv, Working, Fitted
  <1>2. Profile(role, <<>>) \in FindBest(needs)
    <2>1. Profile(role, <<>>) \in DOMAIN registered /\ Profile(role, <<>>).role = role
      BY DEF StaffInv, StaffTypes, ProfileTypes, Defaults, Profile
    <2> QED
      BY <2>1 DEF FindBest, FindWorkers, CapsOf
  <1>3. \A q \in FindBest(needs) : needs \subseteq CapsOf(q)
    BY DEF FindBest, FindWorkers
  <1> QED
    BY <1>1, <1>2, <1>3 DEF Profiles

\* A task that lists roles of the team is staffed, and one that some profile has all of
\* begins (planner.py:90-120, team_builder.py:95-136, agent_registry.py:152-187,
\* executor.py:1506-1532).
THEOREM RolesFindProfiles == StaffSpec => []RolesAreStaffed
  <1>1. StaffInv => RolesAreStaffed
    BY BeginInv DEF StaffInv, RolesAreStaffed
  <1> QED
    BY <1>1, StaffInvariant, PTL

\* A run is given up for want of a worker only if an agent was stopped in it or a
\* label is unknown (team_builder.py:95-226, parallel_scheduler.py:517-535).
THEOREM BuiltTeamsServe == StaffSpec => []TeamsServe
  <1>1. StaffInv => TeamsServe
    BY DEF StaffInv
  <1> QED
    BY <1>1, StaffInvariant, PTL

\* Down a line of parents tools only get fewer.
LEMMA CutInv == StaffInv => ChildrenAreRestricted
  <1> SUFFICES ASSUME StaffInv, restarts = 0, NEW a \in Ids, NEW p \in agents[a].as,
                      agents[a].parent # 0, NEW b \in Ancestors(a)
               PROVE  Offered(p) \subseteq Offered(agents[b].profile)
    BY DEF ChildrenAreRestricted, WithinParents
  <1> DEFINE tools(c) == registered[agents[c].profile]
             line == {c \in 1..(a - 1) : tools(a) \subseteq tools(c)}
  <1>1. /\ Ids = 1..Len(agents) /\ Len(agents) \in Nat
        /\ \A c \in Ids : c \in Nat /\ agents[c].parent \in 0..(c - 1)
    BY DEF StaffInv, StaffTypes, AgentTypes, Ids
  <1>2. \A c \in Ids : /\ agents[c].as \subseteq {agents[c].profile}
                       /\ agents[c].parent # 0 => tools(c) \subseteq tools(agents[c].parent)
    BY DEF StaffInv, Cut, CutDown
  <1>3. p = agents[a].profile
    BY <1>2
  <1> HIDE DEF tools
  <1>4. agents[a].parent \in line
    <2>1. agents[a].parent \in 1..(a - 1)
      BY <1>1
    <2> QED
      BY <1>2, <2>1
  <1>5. ASSUME NEW c \in line PROVE agents[c].parent \in line \cup {0}
    <2>1. c \in Ids /\ tools(a) \subseteq tools(c)
      BY <1>1
    <2>2. CASE agents[c].parent # 0
      <3>1. agents[c].parent \in 1..(a - 1)
        BY <1>1, <2>1, <2>2
      <3> QED
        BY <1>2, <2>1, <2>2, <3>1
    <2> QED
      BY <2>2
  <1>6. b \in line
    <2>1. line \in SUBSET (1..(a - 1))
      OBVIOUS
    <2> HIDE DEF line
    <2> QED
      BY <1>4, <1>5, <2>1 DEF Ancestors
  <1>7. tools(a) \subseteq tools(b)
    BY <1>6
  <1> QED
    BY <1>3, <1>7 DEF tools, Offered

\* As long as the process lives, a spawned agent works with no tool that one of its
\* ancestors lacks (dynamic_team.py:130-151, executor.py:1506-1532).
THEOREM ChildrenWorkRestricted == StaffSpec => []ChildrenAreRestricted
  BY CutInv, StaffInvariant, PTL

LEMMA SparseInv == StaffInv => NoLookalikes
  <1> SUFFICES ASSUME StaffInv, NEW r \in Runs, NEW b \in Live(r), agents[b].parent = 0
               PROVE  FewEnough(r, Built(r, agents[b].profile))
    BY DEF NoLookalikes, FewEnough, Built, Level
  <1>1. b \in Ids /\ b \in Built(r, agents[b].profile)
    BY DEF Built, Live
  <1> QED
    BY <1>1 DEF StaffInv, Sparse

\* Of a profile there are never more built agents alive than tasks that could run at
\* the same time, and never more than the limit (team_builder.py:26-31, 155-196).
THEOREM RebuildsAddNoLookalikes == StaffSpec => []NoLookalikes
  BY SparseInv, StaffInvariant, PTL

=============================================================================
