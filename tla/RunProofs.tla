------------------------------ MODULE RunProofs ------------------------------
(***************************************************************************)
(* Proofs about runs: the life of a governed run (RunLifecycle), for every *)
(* number of API workers and of executions, and every bound on requests,   *)
(* crashes and stalls; and the room of a legacy discussion (Discussion),   *)
(* for every team, every set of answers and of requests, and every budget. *)
(* The two share no variable.                                              *)
(***************************************************************************)
EXTENDS RunLifecycle, Discussion, SequenceTheorems, WellFoundedInduction, TLAPS

-----------------------------------------------------------------------------
(* The inductive invariant *)

\* Only start_run passes the hooks; what has settled has a result.
Shape ==
    \A e \in Executions :
        /\ e \notin Starts => phase[e] \notin {"creating", "starting"}
        /\ phase[e] \in {"ended", "hooking"} => result[e] \in Result

\* Until its lease lapses, an execution that took it is named in the row.
Holding ==
    \A e \in Executions :
        Leased(e) /\ ~lapsed[e] => lease.holder = e /\ lease.fresh

\* The execution has still to write the row.
Writes(e) ==
    /\ phase[e] \notin {"none", "closing"}
    /\ ~(e \in Starts /\ phase[e] = "hooking")

Attended ==
    Unsettled => \/ \E e \in Executions : Writes(e)
                 \/ \E w \in Workers : ~up[w]
                 \/ refused

IInv == TypeOK /\ Shape /\ Holding /\ Attended

-----------------------------------------------------------------------------
(* One step.  What the actions of a group leave alone is one leaf. *)

\* What the helpers leave in an entry.
LEMMA EntryWrites ==
    ASSUME TypeOK, NEW w \in Workers, NEW s \in RowStatus,
           Mark(w, s) \/ Activate(w, s)
    PROVE  entry' \in [Workers -> Entry]
  <1>1. entry[w].cancel \in BOOLEAN
    BY DEF TypeOK, Entry
  <1>2. [status |-> s, cancel |-> entry[w].cancel] \in Entry
    BY <1>1 DEF Entry
  <1> QED
    BY <1>2 DEF Mark, Activate, TypeOK

LEMMA ConstantEntries ==
    /\ Absent \in Entry
    /\ [status |-> "cancelled", cancel |-> TRUE] \in Entry
  BY DEF RowStatus, Absent, Entry

\* The row keeps a status of the run.
LEMMA RowStep ==
    ASSUME TypeOK, Shape, Next
    PROVE  status' \in RowStatus \cup {"none"}
  <1>1. ASSUME NEW e \in Executions,
                \/ CreateAllowed(e) \/ StartAllowed(e) \/ Acquire(e)
                \/ EnterGraph(e) \/ DispatchStops(e) \/ DispatchEnds(e)
                \/ Dispatched(e) \/ Verified(e) \/ Heartbeat(e)
                \/ HeartbeatLost(e) \/ Resume(e) \/ Release(e)
         PROVE  status' \in RowStatus \cup {"none"}
    BY <1>1 DEF CreateAllowed, Resumes, Goto, StartAllowed, Acquire, EnterGraph,
       DispatchStops, Returns, DispatchEnds, Dispatched, Verified, Heartbeat,
       HeartbeatLost, Resume, Spawn, Release, TypeOK, Shape, RowStatus, Result,
       execution, bounds
  <1>2. ASSUME NEW w \in Workers,
                \/ RetryNothing(w) \/ Crash(w) \/ Restart(w)
         PROVE  status' \in RowStatus \cup {"none"}
    BY <1>2 DEF RetryNothing, Done, Crash, Restart, Spawn, Goto, Recoverable,
       TypeOK, Shape, RowStatus, Result, execution, bounds
  <1>3. ASSUME NEW e \in Executions, Create(e) PROVE status' \in RowStatus \cup {"none"}
    BY <1>3 DEF Create, Resumes, Goto, Activate, TypeOK, Shape, RowStatus, Result,
       execution, bounds
  <1>4. ASSUME NEW e \in Executions, HookBlocks(e) PROVE status' \in RowStatus \cup {"none"}
    BY <1>4 DEF HookBlocks, Resumes, Goto, Mark, Activate, TypeOK, Shape,
       RowStatus, Result, execution, bounds
  <1>5. ASSUME NEW e \in Executions, Start(e) PROVE status' \in RowStatus \cup {"none"}
    BY <1>5 DEF Start, Resumes, Goto, Activate, TypeOK, Shape, RowStatus, Result,
       execution, bounds
  <1>6. ASSUME NEW e \in Executions, Restore(e) PROVE status' \in RowStatus \cup {"none"}
    BY <1>6 DEF Restore, Goto, Activate, TypeOK, Shape, RowStatus, Result,
       execution, bounds
  <1>7. ASSUME NEW e \in Executions, RestoreFails(e) PROVE status' \in RowStatus \cup {"none"}
    BY <1>7 DEF RestoreFails, Raise, Mark, Activate, TypeOK, Shape, RowStatus,
       Result, execution, bounds
  <1>8. ASSUME NEW e \in Executions, EntryGone(e) PROVE status' \in RowStatus \cup {"none"}
    BY <1>8 DEF EntryGone, Raise, Mark, Activate, TypeOK, Shape, RowStatus,
       Result, execution, bounds
  <1>9. ASSUME NEW e \in Executions, Settle(e) PROVE status' \in RowStatus \cup {"none"}
    BY <1>9 DEF Settle, Raise, Mark, Activate, Final, StatusMap, TypeOK, Shape,
       RowStatus, Result, execution, bounds
  <1>10. ASSUME NEW e \in Executions, Conclude(e) PROVE status' \in RowStatus \cup {"none"}
    BY <1>10 DEF Conclude, Resumes, Goto, Purge, Detached, Mark, Activate, Final,
       StatusMap, TypeOK, Shape, RowStatus, Result, execution, bounds
  <1>11. ASSUME NEW e \in Executions, GraphRaises(e) PROVE status' \in RowStatus \cup {"none"}
    BY <1>11 DEF GraphRaises, Raise, Mark, Activate, TypeOK, Shape, RowStatus,
       Result, execution, bounds
  <1>12. ASSUME NEW e \in Executions, Retry(e) PROVE status' \in RowStatus \cup {"none"}
    BY <1>12 DEF Retry, Done, Spawn, Goto, TypeOK, Shape, RowStatus, Result,
       execution, bounds
  <1>13. ASSUME NEW w \in Workers, PauseRun(w) PROVE status' \in RowStatus \cup {"none"}
    BY <1>13 DEF PauseRun, Done, Mark, Activate, TypeOK, Shape, RowStatus, Result,
       execution, bounds
  <1>14. ASSUME NEW w \in Workers, CancelRun(w) PROVE status' \in RowStatus \cup {"none"}
    BY <1>14 DEF CancelRun, Done, TypeOK, Shape, RowStatus, Result, execution,
       bounds
  <1>15. ASSUME NEW w \in Workers, NEW c \in {"pause", "cancel", "retry"},
                Admit(w, c)
         PROVE  status' \in RowStatus \cup {"none"}
    BY <1>15 DEF Admit, TypeOK, Shape, RowStatus, Result, execution, bounds
  <1>16. CASE LeaseExpires
    BY <1>16 DEF LeaseExpires, TypeOK, Shape, RowStatus, Result, execution, bounds
  <1> QED
    BY <1>1, <1>2, <1>3, <1>4, <1>5, <1>6, <1>7, <1>8, <1>9, <1>10, <1>11, <1>12,
       <1>13, <1>14, <1>15, <1>16 DEF Next, LoopStep, GraphStep, Request, Perform

\* Phases and what belongs to them stay in their sets.
LEMMA PhaseStep ==
    ASSUME TypeOK, Next
    PROVE  /\ phase' \in [Executions -> Phase]
           /\ event' \in [Executions -> {"none", "shared", "set", "unset"}]
           /\ result' \in [Executions -> Result \cup {"none"}]
  <1> DEFINE Goal == /\ phase' \in [Executions -> Phase]
                    /\ event' \in [Executions -> {"none", "shared", "set", "unset"}]
                    /\ result' \in [Executions -> Result \cup {"none"}]
  <1>1. ASSUME NEW e \in Executions,
                \/ CreateAllowed(e) \/ StartAllowed(e) \/ HookBlocks(e)
                \/ Create(e) \/ Start(e) \/ Heartbeat(e) \/ HeartbeatLost(e)
                \/ Resume(e) \/ Release(e)
         PROVE  Goal
    BY <1>1 DEF CreateAllowed, Resumes, Goto, StartAllowed, HookBlocks, Mark,
       Activate, Create, Start, Heartbeat, HeartbeatLost, Resume, Spawn, Release,
       TypeOK, Phase, Result, execution
  <1>2. ASSUME NEW w \in Workers,
                \/ RetryNothing(w) \/ PauseRun(w)
         PROVE  Goal
    BY <1>2 DEF RetryNothing, Done, PauseRun, Mark, Activate, TypeOK, Phase,
       Result, execution
  <1>3. ASSUME NEW e \in Executions, Acquire(e) PROVE Goal
    BY <1>3 DEF Acquire, Resumes, Goto, TypeOK, Phase, Result, execution
  <1>4. ASSUME NEW e \in Executions, Restore(e) PROVE Goal
    BY <1>4 DEF Restore, Goto, Activate, TypeOK, Phase, Result, execution
  <1>5. ASSUME NEW e \in Executions, RestoreFails(e) PROVE Goal
    BY <1>5 DEF RestoreFails, Raise, Mark, Activate, TypeOK, Phase, Result,
       execution
  <1>6. ASSUME NEW e \in Executions, EntryGone(e) PROVE Goal
    BY <1>6 DEF EntryGone, Raise, Mark, Activate, TypeOK, Phase, Result, execution
  <1>7. ASSUME NEW e \in Executions, Settle(e) PROVE Goal
    BY <1>7 DEF Settle, Raise, Mark, Activate, Final, StatusMap, TypeOK, Phase,
       Result, execution
  <1>8. ASSUME NEW e \in Executions, Conclude(e) PROVE Goal
    BY <1>8 DEF Conclude, Resumes, Goto, Purge, Detached, Mark, Activate, Final,
       StatusMap, TypeOK, Phase, Result, execution
  <1>9. ASSUME NEW e \in Executions, EnterGraph(e) PROVE Goal
    BY <1>9 DEF EnterGraph, Goto, TypeOK, Phase, Result, execution
  <1>10. ASSUME NEW e \in Executions, DispatchStops(e) PROVE Goal
    BY <1>10 DEF DispatchStops, Returns, Goto, TypeOK, Phase, Result, execution
  <1>11. ASSUME NEW e \in Executions, DispatchEnds(e) PROVE Goal
    BY <1>11 DEF DispatchEnds, Returns, Goto, TypeOK, Phase, Result, execution
  <1>12. ASSUME NEW e \in Executions, Dispatched(e) PROVE Goal
    BY <1>12 DEF Dispatched, Goto, TypeOK, Phase, Result, execution
  <1>13. ASSUME NEW e \in Executions, Verified(e) PROVE Goal
    BY <1>13 DEF Verified, Returns, Goto, TypeOK, Phase, Result, execution
  <1>14. ASSUME NEW e \in Executions, GraphRaises(e) PROVE Goal
    BY <1>14 DEF GraphRaises, Raise, Mark, Activate, TypeOK, Phase, Result,
       execution
  <1>15. ASSUME NEW e \in Executions, Retry(e) PROVE Goal
    BY <1>15 DEF Retry, Done, Spawn, Goto, TypeOK, Phase, Result, execution
  <1>16. ASSUME NEW w \in Workers, CancelRun(w) PROVE Goal
    BY <1>16 DEF CancelRun, Done, TypeOK, Phase, Result, execution
  <1>17. ASSUME NEW w \in Workers, Crash(w) PROVE Goal
    BY <1>17 DEF Crash, TypeOK, Phase, Result, execution
  <1>18. ASSUME NEW w \in Workers, Restart(w) PROVE Goal
    BY <1>18 DEF Restart, Spawn, Goto, Recoverable, TypeOK, Phase, Result, execution
  <1>19. ASSUME NEW w \in Workers, NEW c \in {"pause", "cancel", "retry"},
                Admit(w, c)
         PROVE  Goal
    BY <1>19 DEF Admit, TypeOK, Phase, Result, execution
  <1>20. CASE LeaseExpires
    BY <1>20 DEF LeaseExpires, TypeOK, Phase, Result, execution
  <1> QED
    BY <1>1, <1>2, <1>3, <1>4, <1>5, <1>6, <1>7, <1>8, <1>9, <1>10, <1>11, <1>12,
       <1>13, <1>14, <1>15, <1>16, <1>17, <1>18, <1>19, <1>20 DEF Next, LoopStep,
       GraphStep, Request, Perform

\* Requests are counted, and those admitted are known.
LEMMA CountStep ==
    ASSUME TypeOK, Next
    PROVE  /\ pending' \in [Workers -> {"none", "pause", "cancel", "retry"}]
           /\ {requests, crashes, stalls}' \subseteq Nat
  <1> DEFINE Goal == /\ pending' \in [Workers -> {"none", "pause", "cancel", "retry"}]
                    /\ {requests, crashes, stalls}' \subseteq Nat
  <1>1. ASSUME NEW e \in Executions,
                \/ Create(e) \/ CreateAllowed(e) \/ HookBlocks(e) \/ Start(e)
                \/ StartAllowed(e) \/ Acquire(e) \/ Restore(e)
                \/ RestoreFails(e) \/ EntryGone(e) \/ Settle(e) \/ Conclude(e)
                \/ Release(e) \/ EnterGraph(e) \/ DispatchStops(e)
                \/ DispatchEnds(e) \/ Dispatched(e) \/ Verified(e)
                \/ GraphRaises(e) \/ Heartbeat(e)
         PROVE  Goal
    BY <1>1 DEF Create, Resumes, Goto, Activate, CreateAllowed, HookBlocks, Mark,
       Start, StartAllowed, Acquire, Restore, RestoreFails, Raise, EntryGone,
       Settle, Final, StatusMap, Conclude, Purge, Detached, Release, EnterGraph,
       DispatchStops, Returns, DispatchEnds, Dispatched, Verified, GraphRaises,
       Heartbeat, TypeOK, execution, bounds
  <1>2. ASSUME NEW w \in Workers,
                \/ Restart(w)
         PROVE  Goal
    BY <1>2 DEF Restart, Spawn, Goto, Recoverable, TypeOK, execution, bounds
  <1>3. ASSUME NEW e \in Executions, HeartbeatLost(e) PROVE Goal
    BY <1>3 DEF HeartbeatLost, TypeOK, execution, bounds
  <1>4. ASSUME NEW e \in Executions, Resume(e) PROVE Goal
    BY <1>4 DEF Resume, Spawn, Goto, TypeOK, execution, bounds
  <1>5. ASSUME NEW e \in Executions, Retry(e) PROVE Goal
    BY <1>5 DEF Retry, Done, Spawn, Goto, TypeOK, execution, bounds
  <1>6. ASSUME NEW w \in Workers, PauseRun(w) PROVE Goal
    BY <1>6 DEF PauseRun, Done, Mark, Activate, TypeOK, execution, bounds
  <1>7. ASSUME NEW w \in Workers, CancelRun(w) PROVE Goal
    BY <1>7 DEF CancelRun, Done, TypeOK, execution, bounds
  <1>8. ASSUME NEW w \in Workers, RetryNothing(w) PROVE Goal
    BY <1>8 DEF RetryNothing, Done, TypeOK, execution, bounds
  <1>9. ASSUME NEW w \in Workers, Crash(w) PROVE Goal
    BY <1>9 DEF Crash, TypeOK, execution, bounds
  <1>10. ASSUME NEW w \in Workers, NEW c \in {"pause", "cancel", "retry"},
                Admit(w, c)
         PROVE  Goal
    BY <1>10 DEF Admit, TypeOK, execution, bounds
  <1>11. CASE LeaseExpires
    BY <1>11 DEF LeaseExpires, TypeOK, execution, bounds
  <1> QED
    BY <1>1, <1>2, <1>3, <1>4, <1>5, <1>6, <1>7, <1>8, <1>9, <1>10, <1>11 DEF
       Next, LoopStep, GraphStep, Request, Perform

\* Entries keep their shape.
LEMMA EntryStep ==
    ASSUME TypeOK, Shape, Next
    PROVE  entry' \in [Workers -> Entry]
  <1>1. ASSUME NEW e \in Executions,
                \/ CreateAllowed(e) \/ StartAllowed(e) \/ Acquire(e)
                \/ Release(e) \/ EnterGraph(e) \/ DispatchStops(e)
                \/ DispatchEnds(e) \/ Dispatched(e) \/ Verified(e)
                \/ Heartbeat(e) \/ Resume(e) \/ Retry(e)
         PROVE  entry' \in [Workers -> Entry]
    BY <1>1 DEF CreateAllowed, Resumes, Goto, StartAllowed, Acquire, Release,
       EnterGraph, DispatchStops, Returns, DispatchEnds, Dispatched, Verified,
       Heartbeat, Resume, Spawn, Retry, Done, TypeOK, execution
  <1>2. ASSUME NEW w \in Workers,
                \/ RetryNothing(w) \/ Restart(w)
         PROVE  entry' \in [Workers -> Entry]
    BY <1>2 DEF RetryNothing, Done, Restart, Spawn, Goto, Recoverable, TypeOK,
       execution
  <1>3. ASSUME NEW e \in Executions, Create(e) PROVE entry' \in [Workers -> Entry]
    <2>1. Host[e] \in Workers /\ "created" \in RowStatus
      BY RunLifecycleAssumption DEF RowStatus
    <2> QED
      BY <1>3, <2>1, EntryWrites DEF Create
  <1>4. ASSUME NEW e \in Executions, HookBlocks(e) PROVE entry' \in [Workers -> Entry]
    <2>1. Host[e] \in Workers /\ "failed" \in RowStatus
      BY RunLifecycleAssumption DEF RowStatus
    <2> QED
      BY <1>4, <2>1, EntryWrites DEF HookBlocks
  <1>5. ASSUME NEW e \in Executions, Start(e) PROVE entry' \in [Workers -> Entry]
    <2>1. Host[e] \in Workers /\ "running" \in RowStatus
      BY RunLifecycleAssumption DEF RowStatus
    <2> QED
      BY <1>5, <2>1, EntryWrites DEF Start
  <1>6. ASSUME NEW e \in Executions, Restore(e) PROVE entry' \in [Workers -> Entry]
    <2>1. Host[e] \in Workers /\ "running" \in RowStatus
      BY RunLifecycleAssumption DEF RowStatus
    <2> QED
      BY <1>6, <2>1, EntryWrites DEF Restore
  <1>7. ASSUME NEW e \in Executions, RestoreFails(e) PROVE entry' \in [Workers -> Entry]
    <2>1. Host[e] \in Workers /\ "failed" \in RowStatus
      BY RunLifecycleAssumption DEF RowStatus
    <2> QED
      BY <1>7, <2>1, EntryWrites DEF RestoreFails, Raise, TypeOK
  <1>8. ASSUME NEW e \in Executions, EntryGone(e) PROVE entry' \in [Workers -> Entry]
    <2>1. Host[e] \in Workers /\ "failed" \in RowStatus
      BY RunLifecycleAssumption DEF RowStatus
    <2> QED
      BY <1>8, <2>1, EntryWrites DEF EntryGone, Raise, TypeOK
  <1>9. ASSUME NEW e \in Executions, Settle(e) PROVE entry' \in [Workers -> Entry]
    <2>1. Host[e] \in Workers /\ "failed" \in RowStatus
      BY RunLifecycleAssumption DEF RowStatus
    <2>2. Final(e) \in RowStatus
      BY <1>9 DEF Settle, Shape, Final, StatusMap, Result, RowStatus
    <2> QED
      BY <1>9, <2>1, <2>2, EntryWrites DEF Settle, Raise, TypeOK
  <1>10. ASSUME NEW e \in Executions, Conclude(e) PROVE entry' \in [Workers -> Entry]
    <2>1. Host[e] \in Workers /\ "paused" \in RowStatus
      BY RunLifecycleAssumption DEF RowStatus
    <2>2. CASE Mark(Host[e], "paused")
      BY <2>1, <2>2, EntryWrites
    <2>3. CASE UNCHANGED entry
      BY <2>3 DEF TypeOK
    <2>4. CASE Purge(Host[e])
      BY <2>1, <2>4, ConstantEntries DEF Purge, TypeOK
    <2> QED
      BY <1>10, <2>2, <2>3, <2>4 DEF Conclude
  <1>11. ASSUME NEW e \in Executions, GraphRaises(e) PROVE entry' \in [Workers -> Entry]
    <2>1. Host[e] \in Workers /\ "failed" \in RowStatus
      BY RunLifecycleAssumption DEF RowStatus
    <2> QED
      BY <1>11, <2>1, EntryWrites DEF GraphRaises, Raise, TypeOK
  <1>12. ASSUME NEW e \in Executions, HeartbeatLost(e) PROVE entry' \in [Workers -> Entry]
    <2>1. \A v \in Workers : entry[v] \in Entry
      BY DEF TypeOK
    <2>2. \A v \in Workers : [status |-> entry[v].status, cancel |-> TRUE] \in Entry
      BY <2>1 DEF Entry
    <2> QED
      BY <1>12, <2>1, <2>2 DEF HeartbeatLost
  <1>13. ASSUME NEW w \in Workers, PauseRun(w) PROVE entry' \in [Workers -> Entry]
    <2>1. "paused" \in RowStatus
      BY DEF RowStatus
    <2> QED
      BY <1>13, <2>1, EntryWrites DEF PauseRun
  <1>14. ASSUME NEW w \in Workers, CancelRun(w) PROVE entry' \in [Workers -> Entry]
    <2>1. CASE entry[w].status \in {"paused", "waiting_human"}
      BY <1>14, <2>1, ConstantEntries DEF CancelRun, TypeOK
    <2>2. CASE entry[w].status \notin {"paused", "waiting_human"}
      BY <1>14, <2>2, ConstantEntries DEF CancelRun, TypeOK
    <2> QED
      BY <2>1, <2>2
  <1>15. ASSUME NEW w \in Workers, Crash(w) PROVE entry' \in [Workers -> Entry]
    BY <1>15, ConstantEntries DEF Crash, TypeOK
  <1>16. ASSUME NEW w \in Workers, NEW c \in {"pause", "cancel", "retry"},
                Admit(w, c)
         PROVE  entry' \in [Workers -> Entry]
    BY <1>16 DEF Admit, TypeOK, execution
  <1>17. CASE LeaseExpires
    BY <1>17 DEF LeaseExpires, TypeOK, execution
  <1> QED
    BY <1>1, <1>2, <1>3, <1>4, <1>5, <1>6, <1>7, <1>8, <1>9, <1>10, <1>11, <1>12,
       <1>13, <1>14, <1>15, <1>16, <1>17 DEF Next, LoopStep, GraphStep, Request,
       Perform

\* The lease keeps its shape.
LEMMA LeaseStep ==
    ASSUME TypeOK, Next
    PROVE  lease' \in Lease
  <1>1. ASSUME NEW e \in Executions,
                \/ Create(e) \/ CreateAllowed(e) \/ HookBlocks(e) \/ Start(e)
                \/ StartAllowed(e) \/ Restore(e) \/ RestoreFails(e)
                \/ EntryGone(e) \/ Settle(e) \/ Conclude(e) \/ EnterGraph(e)
                \/ DispatchStops(e) \/ DispatchEnds(e) \/ Dispatched(e)
                \/ Verified(e) \/ GraphRaises(e) \/ HeartbeatLost(e)
                \/ Resume(e) \/ Retry(e)
         PROVE  lease' \in Lease
    BY <1>1 DEF Create, Resumes, Goto, Activate, CreateAllowed, HookBlocks, Mark,
       Start, StartAllowed, Restore, RestoreFails, Raise, EntryGone, Settle,
       Final, StatusMap, Conclude, Purge, Detached, EnterGraph, DispatchStops,
       Returns, DispatchEnds, Dispatched, Verified, GraphRaises, HeartbeatLost,
       Resume, Spawn, Retry, Done, TypeOK, Lease, execution
  <1>2. ASSUME NEW w \in Workers,
                \/ PauseRun(w) \/ CancelRun(w) \/ RetryNothing(w) \/ Restart(w)
         PROVE  lease' \in Lease
    BY <1>2 DEF PauseRun, Done, Mark, Activate, CancelRun, RetryNothing, Restart,
       Spawn, Goto, Recoverable, TypeOK, Lease, execution
  <1>3. ASSUME NEW e \in Executions, Acquire(e) PROVE lease' \in Lease
    <2>1. CASE Acquires(e)
      <3>1. [holder |-> e, fresh |-> TRUE] \in Lease
        BY DEF Lease
      <3> QED
        BY <1>3, <2>1, <3>1 DEF Acquire
    <2>2. CASE ~Acquires(e)
      BY <1>3, <2>2 DEF Acquire, TypeOK
    <2> QED
      BY <2>1, <2>2
  <1>4. ASSUME NEW e \in Executions, Release(e) PROVE lease' \in Lease
    BY <1>4 DEF Release, Resumes, Goto, TypeOK, Lease, execution
  <1>5. ASSUME NEW e \in Executions, Heartbeat(e) PROVE lease' \in Lease
    BY <1>5 DEF Heartbeat, TypeOK, Lease, execution
  <1>6. ASSUME NEW w \in Workers, Crash(w) PROVE lease' \in Lease
    BY <1>6 DEF Crash, TypeOK, Lease, execution
  <1>7. ASSUME NEW w \in Workers, NEW c \in {"pause", "cancel", "retry"},
                Admit(w, c)
         PROVE  lease' \in Lease
    BY <1>7 DEF Admit, TypeOK, Lease, execution
  <1>8. CASE LeaseExpires
    BY <1>8 DEF LeaseExpires, TypeOK, Lease, execution
  <1> QED
    BY <1>1, <1>2, <1>3, <1>4, <1>5, <1>6, <1>7, <1>8 DEF Next, LoopStep,
       GraphStep, Request, Perform

\* The flags stay Booleans.
LEMMA FlagStep ==
    ASSUME TypeOK, Next
    PROVE  /\ up' \in [Workers -> BOOLEAN]
           /\ beating' \in [Executions -> BOOLEAN]
           /\ lapsed' \in [Executions -> BOOLEAN]
           /\ refused' \in BOOLEAN
  <1> DEFINE Goal == /\ up' \in [Workers -> BOOLEAN]
                    /\ beating' \in [Executions -> BOOLEAN]
                    /\ lapsed' \in [Executions -> BOOLEAN]
                    /\ refused' \in BOOLEAN
  <1>1. ASSUME NEW e \in Executions,
                \/ Create(e) \/ CreateAllowed(e) \/ HookBlocks(e) \/ Start(e)
                \/ StartAllowed(e) \/ Restore(e) \/ EnterGraph(e)
                \/ DispatchStops(e) \/ DispatchEnds(e) \/ Dispatched(e)
                \/ Verified(e) \/ Resume(e) \/ Retry(e)
         PROVE  Goal
    BY <1>1 DEF Create, Resumes, Goto, Activate, CreateAllowed, HookBlocks, Mark,
       Start, StartAllowed, Restore, EnterGraph, DispatchStops, Returns,
       DispatchEnds, Dispatched, Verified, Resume, Spawn, Retry, Done, TypeOK,
       execution
  <1>2. ASSUME NEW w \in Workers,
                \/ PauseRun(w) \/ CancelRun(w) \/ RetryNothing(w)
         PROVE  Goal
    BY <1>2 DEF PauseRun, Done, Mark, Activate, CancelRun, RetryNothing, TypeOK,
       execution
  <1>3. ASSUME NEW e \in Executions, Acquire(e) PROVE Goal
    BY <1>3 DEF Acquire, Resumes, Goto, TypeOK, execution
  <1>4. ASSUME NEW e \in Executions, RestoreFails(e) PROVE Goal
    BY <1>4 DEF RestoreFails, Raise, Mark, Activate, TypeOK, execution
  <1>5. ASSUME NEW e \in Executions, EntryGone(e) PROVE Goal
    BY <1>5 DEF EntryGone, Raise, Mark, Activate, TypeOK, execution
  <1>6. ASSUME NEW e \in Executions, Settle(e) PROVE Goal
    BY <1>6 DEF Settle, Raise, Mark, Activate, Final, StatusMap, TypeOK, execution
  <1>7. ASSUME NEW e \in Executions, Conclude(e) PROVE Goal
    BY <1>7 DEF Conclude, Resumes, Goto, Purge, Detached, Mark, Activate, Final,
       StatusMap, TypeOK, execution
  <1>8. ASSUME NEW e \in Executions, Release(e) PROVE Goal
    BY <1>8 DEF Release, Resumes, Goto, TypeOK, execution
  <1>9. ASSUME NEW e \in Executions, GraphRaises(e) PROVE Goal
    BY <1>9 DEF GraphRaises, Raise, Mark, Activate, TypeOK, execution
  <1>10. ASSUME NEW e \in Executions, Heartbeat(e) PROVE Goal
    BY <1>10 DEF Heartbeat, TypeOK, execution
  <1>11. ASSUME NEW e \in Executions, HeartbeatLost(e) PROVE Goal
    BY <1>11 DEF HeartbeatLost, TypeOK, execution
  <1>12. ASSUME NEW w \in Workers, Crash(w) PROVE Goal
    BY <1>12 DEF Crash, TypeOK, execution
  <1>13. ASSUME NEW w \in Workers, Restart(w) PROVE Goal
    BY <1>13 DEF Restart, Spawn, Goto, Recoverable, TypeOK, execution
  <1>14. ASSUME NEW w \in Workers, NEW c \in {"pause", "cancel", "retry"},
                Admit(w, c)
         PROVE  Goal
    BY <1>14 DEF Admit, TypeOK, execution
  <1>15. CASE LeaseExpires
    BY <1>15 DEF LeaseExpires, TypeOK, execution
  <1> QED
    BY <1>1, <1>2, <1>3, <1>4, <1>5, <1>6, <1>7, <1>8, <1>9, <1>10, <1>11, <1>12,
       <1>13, <1>14, <1>15 DEF Next, LoopStep, GraphStep, Request, Perform

\* Only start_run passes the hooks.
LEMMA ShapeStep ==
    ASSUME TypeOK, Shape, Next
    PROVE  Shape'
  <1>1. ASSUME NEW e \in Executions, Create(e) PROVE Shape'
    BY <1>1 DEF Create, Resumes, Goto, Activate, TypeOK, Shape, Result, execution
  <1>2. ASSUME NEW e \in Executions, CreateAllowed(e) PROVE Shape'
    BY <1>2 DEF CreateAllowed, Resumes, Goto, TypeOK, Shape, Result, execution
  <1>3. ASSUME NEW e \in Executions, HookBlocks(e) PROVE Shape'
    BY <1>3 DEF HookBlocks, Resumes, Goto, Mark, Activate, TypeOK, Shape, Result,
       execution
  <1>4. ASSUME NEW e \in Executions, Start(e) PROVE Shape'
    BY <1>4 DEF Start, Resumes, Goto, Activate, TypeOK, Shape, Result, execution
  <1>5. ASSUME NEW e \in Executions, StartAllowed(e) PROVE Shape'
    BY <1>5 DEF StartAllowed, Resumes, Goto, TypeOK, Shape, Result, execution
  <1>6. ASSUME NEW e \in Executions, Acquire(e) PROVE Shape'
    BY <1>6 DEF Acquire, Resumes, Goto, TypeOK, Shape, Result, execution
  <1>7. ASSUME NEW e \in Executions, Restore(e) PROVE Shape'
    BY <1>7 DEF Restore, Goto, Activate, TypeOK, Shape, Result, execution
  <1>8. ASSUME NEW e \in Executions, RestoreFails(e) PROVE Shape'
    BY <1>8 DEF RestoreFails, Raise, Mark, Activate, TypeOK, Shape, Result,
       execution
  <1>9. ASSUME NEW e \in Executions, EntryGone(e) PROVE Shape'
    BY <1>9 DEF EntryGone, Raise, Mark, Activate, TypeOK, Shape, Result, execution
  <1>10. ASSUME NEW e \in Executions, Settle(e) PROVE Shape'
    BY <1>10 DEF Settle, Raise, Mark, Activate, Final, StatusMap, TypeOK, Shape,
       Result, execution
  <1>11. ASSUME NEW e \in Executions, Conclude(e) PROVE Shape'
    BY <1>11 DEF Conclude, Resumes, Goto, Purge, Detached, Mark, Activate, Final,
       StatusMap, TypeOK, Shape, Result, execution
  <1>12. ASSUME NEW e \in Executions, Release(e) PROVE Shape'
    BY <1>12 DEF Release, Resumes, Goto, TypeOK, Shape, Result, execution
  <1>13. ASSUME NEW e \in Executions, EnterGraph(e) PROVE Shape'
    BY <1>13 DEF EnterGraph, Goto, TypeOK, Shape, Result, execution
  <1>14. ASSUME NEW e \in Executions, DispatchStops(e) PROVE Shape'
    BY <1>14 DEF DispatchStops, Returns, Goto, TypeOK, Shape, Result, execution
  <1>15. ASSUME NEW e \in Executions, DispatchEnds(e) PROVE Shape'
    BY <1>15 DEF DispatchEnds, Returns, Goto, TypeOK, Shape, Result, execution
  <1>16. ASSUME NEW e \in Executions, Dispatched(e) PROVE Shape'
    BY <1>16 DEF Dispatched, Goto, TypeOK, Shape, Result, execution
  <1>17. ASSUME NEW e \in Executions, Verified(e) PROVE Shape'
    BY <1>17 DEF Verified, Returns, Goto, TypeOK, Shape, Result, execution
  <1>18. ASSUME NEW e \in Executions, GraphRaises(e) PROVE Shape'
    BY <1>18 DEF GraphRaises, Raise, Mark, Activate, TypeOK, Shape, Result,
       execution
  <1>19. ASSUME NEW e \in Executions, Heartbeat(e) PROVE Shape'
    BY <1>19 DEF Heartbeat, TypeOK, Shape, Result, execution
  <1>20. ASSUME NEW e \in Executions, HeartbeatLost(e) PROVE Shape'
    BY <1>20 DEF HeartbeatLost, TypeOK, Shape, Result, execution
  <1>21. ASSUME NEW e \in Executions, Resume(e) PROVE Shape'
    BY <1>21 DEF Resume, Spawn, Goto, TypeOK, Shape, Result, execution
  <1>22. ASSUME NEW e \in Executions, Retry(e) PROVE Shape'
    BY <1>22 DEF Retry, Done, Spawn, Goto, TypeOK, Shape, Result, execution
  <1>23. ASSUME NEW w \in Workers, PauseRun(w) PROVE Shape'
    BY <1>23 DEF PauseRun, Done, Mark, Activate, TypeOK, Shape, Result, execution
  <1>24. ASSUME NEW w \in Workers, CancelRun(w) PROVE Shape'
    BY <1>24 DEF CancelRun, Done, TypeOK, Shape, Result, execution
  <1>25. ASSUME NEW w \in Workers, RetryNothing(w) PROVE Shape'
    BY <1>25 DEF RetryNothing, Done, TypeOK, Shape, Result, execution
  <1>26. ASSUME NEW w \in Workers, Crash(w) PROVE Shape'
    BY <1>26 DEF Crash, TypeOK, Shape, Result, execution
  <1>27. ASSUME NEW w \in Workers, Restart(w) PROVE Shape'
    BY <1>27 DEF Restart, Spawn, Goto, Recoverable, TypeOK, Shape, Result, execution
  <1>28. ASSUME NEW w \in Workers, NEW c \in {"pause", "cancel", "retry"},
                Admit(w, c)
         PROVE  Shape'
    BY <1>28 DEF Admit, TypeOK, Shape, Result, execution
  <1>29. CASE LeaseExpires
    BY <1>29 DEF LeaseExpires, TypeOK, Shape, Result, execution
  <1> QED
    BY <1>1, <1>2, <1>3, <1>4, <1>5, <1>6, <1>7, <1>8, <1>9, <1>10, <1>11, <1>12,
       <1>13, <1>14, <1>15, <1>16, <1>17, <1>18, <1>19, <1>20, <1>21, <1>22,
       <1>23, <1>24, <1>25, <1>26, <1>27, <1>28, <1>29 DEF Next, LoopStep,
       GraphStep, Request, Perform

\* Nobody takes a lease that is held and fresh.
LEMMA HoldingStep ==
    ASSUME TypeOK, Shape, Holding, Next
    PROVE  Holding'
  <1>1. ASSUME NEW e \in Executions, Create(e) PROVE Holding'
    BY <1>1 DEF Create, Resumes, Goto, Activate, TypeOK, Shape, Holding, Leased,
       Lease, Phase, execution
  <1>2. ASSUME NEW e \in Executions, CreateAllowed(e) PROVE Holding'
    BY <1>2 DEF CreateAllowed, Resumes, Goto, TypeOK, Shape, Holding, Leased,
       Lease, Phase, execution
  <1>3. ASSUME NEW e \in Executions, HookBlocks(e) PROVE Holding'
    BY <1>3 DEF HookBlocks, Resumes, Goto, Mark, Activate, TypeOK, Shape, Holding,
       Leased, Lease, Phase, execution
  <1>4. ASSUME NEW e \in Executions, Start(e) PROVE Holding'
    BY <1>4 DEF Start, Resumes, Goto, Activate, TypeOK, Shape, Holding, Leased,
       Lease, Phase, execution
  <1>5. ASSUME NEW e \in Executions, StartAllowed(e) PROVE Holding'
    BY <1>5 DEF StartAllowed, Resumes, Goto, TypeOK, Shape, Holding, Leased,
       Lease, Phase, execution
  <1>6. ASSUME NEW e \in Executions, Acquire(e) PROVE Holding'
    <2>1. CASE Acquires(e)
      <3>1. \A f \in Executions : Leased(f) /\ ~lapsed[f] => f = e
        <4> SUFFICES ASSUME NEW f \in Executions, Leased(f), ~lapsed[f] PROVE f = e
          OBVIOUS
        <4>1. lease.holder = f /\ lease.fresh /\ f # Nobody
          BY RunLifecycleAssumption DEF Holding
        <4> QED
          BY <2>1, <4>1 DEF Acquires, Held
      <3>2. lease' = [holder |-> e, fresh |-> TRUE] /\ UNCHANGED lapsed
        BY <1>6, <2>1 DEF Acquire
      <3>3. \A f \in Executions : f # e => (Leased(f)' <=> Leased(f))
        BY <1>6 DEF Acquire, Resumes, Goto, Leased, TypeOK
      <3> QED
        BY <3>1, <3>2, <3>3 DEF Holding
    <2>2. CASE ~Acquires(e)
      BY <1>6, <2>2 DEF Acquire, Resumes, Goto, Leased, Holding, TypeOK
    <2> QED
      BY <2>1, <2>2
  <1>7. ASSUME NEW e \in Executions, Restore(e) PROVE Holding'
    BY <1>7 DEF Restore, Goto, Activate, TypeOK, Shape, Holding, Leased, Lease,
       Phase, execution
  <1>8. ASSUME NEW e \in Executions, RestoreFails(e) PROVE Holding'
    BY <1>8 DEF RestoreFails, Raise, Mark, Activate, TypeOK, Shape, Holding,
       Leased, Lease, Phase, execution
  <1>9. ASSUME NEW e \in Executions, EntryGone(e) PROVE Holding'
    BY <1>9 DEF EntryGone, Raise, Mark, Activate, TypeOK, Shape, Holding, Leased,
       Lease, Phase, execution
  <1>10. ASSUME NEW e \in Executions, Settle(e) PROVE Holding'
    BY <1>10 DEF Settle, Raise, Mark, Activate, Final, StatusMap, TypeOK, Shape,
       Holding, Leased, Lease, Phase, execution
  <1>11. ASSUME NEW e \in Executions, Conclude(e) PROVE Holding'
    BY <1>11 DEF Conclude, Resumes, Goto, Purge, Detached, Mark, Activate, Final,
       StatusMap, TypeOK, Shape, Holding, Leased, Lease, Phase, execution
  <1>12. ASSUME NEW e \in Executions, Release(e) PROVE Holding'
    BY <1>12 DEF Release, Resumes, Goto, TypeOK, Shape, Holding, Leased, Lease,
       Phase, execution
  <1>13. ASSUME NEW e \in Executions, EnterGraph(e) PROVE Holding'
    BY <1>13 DEF EnterGraph, Goto, TypeOK, Shape, Holding, Leased, Lease, Phase,
       execution
  <1>14. ASSUME NEW e \in Executions, DispatchStops(e) PROVE Holding'
    BY <1>14 DEF DispatchStops, Returns, Goto, TypeOK, Shape, Holding, Leased,
       Lease, Phase, execution
  <1>15. ASSUME NEW e \in Executions, DispatchEnds(e) PROVE Holding'
    BY <1>15 DEF DispatchEnds, Returns, Goto, TypeOK, Shape, Holding, Leased,
       Lease, Phase, execution
  <1>16. ASSUME NEW e \in Executions, Dispatched(e) PROVE Holding'
    BY <1>16 DEF Dispatched, Goto, TypeOK, Shape, Holding, Leased, Lease, Phase,
       execution
  <1>17. ASSUME NEW e \in Executions, Verified(e) PROVE Holding'
    BY <1>17 DEF Verified, Returns, Goto, TypeOK, Shape, Holding, Leased, Lease,
       Phase, execution
  <1>18. ASSUME NEW e \in Executions, GraphRaises(e) PROVE Holding'
    BY <1>18 DEF GraphRaises, Raise, Mark, Activate, TypeOK, Shape, Holding,
       Leased, Lease, Phase, execution
  <1>19. ASSUME NEW e \in Executions, Heartbeat(e) PROVE Holding'
    BY <1>19 DEF Heartbeat, TypeOK, Shape, Holding, Leased, Lease, Phase, execution
  <1>20. ASSUME NEW e \in Executions, HeartbeatLost(e) PROVE Holding'
    BY <1>20 DEF HeartbeatLost, TypeOK, Shape, Holding, Leased, Lease, Phase,
       execution
  <1>21. ASSUME NEW e \in Executions, Resume(e) PROVE Holding'
    BY <1>21 DEF Resume, Spawn, Goto, TypeOK, Shape, Holding, Leased, Lease,
       Phase, execution
  <1>22. ASSUME NEW e \in Executions, Retry(e) PROVE Holding'
    BY <1>22 DEF Retry, Done, Spawn, Goto, TypeOK, Shape, Holding, Leased, Lease,
       Phase, execution
  <1>23. ASSUME NEW w \in Workers, PauseRun(w) PROVE Holding'
    BY <1>23 DEF PauseRun, Done, Mark, Activate, TypeOK, Shape, Holding, Leased,
       Lease, Phase, execution
  <1>24. ASSUME NEW w \in Workers, CancelRun(w) PROVE Holding'
    BY <1>24 DEF CancelRun, Done, TypeOK, Shape, Holding, Leased, Lease, Phase,
       execution
  <1>25. ASSUME NEW w \in Workers, RetryNothing(w) PROVE Holding'
    BY <1>25 DEF RetryNothing, Done, TypeOK, Shape, Holding, Leased, Lease, Phase,
       execution
  <1>26. ASSUME NEW w \in Workers, Crash(w) PROVE Holding'
    BY <1>26 DEF Crash, TypeOK, Shape, Holding, Leased, Lease, Phase, execution
  <1>27. ASSUME NEW w \in Workers, Restart(w) PROVE Holding'
    BY <1>27 DEF Restart, Spawn, Goto, Recoverable, TypeOK, Shape, Holding,
       Leased, Lease, Phase, execution
  <1>28. ASSUME NEW w \in Workers, NEW c \in {"pause", "cancel", "retry"},
                Admit(w, c)
         PROVE  Holding'
    BY <1>28 DEF Admit, TypeOK, Shape, Holding, Leased, Lease, Phase, execution
  <1>29. CASE LeaseExpires
    BY <1>29 DEF LeaseExpires, TypeOK, Shape, Holding, Leased, Lease, Phase,
       execution
  <1> QED
    BY <1>1, <1>2, <1>3, <1>4, <1>5, <1>6, <1>7, <1>8, <1>9, <1>10, <1>11, <1>12,
       <1>13, <1>14, <1>15, <1>16, <1>17, <1>18, <1>19, <1>20, <1>21, <1>22,
       <1>23, <1>24, <1>25, <1>26, <1>27, <1>28, <1>29 DEF Next, LoopStep,
       GraphStep, Request, Perform

\* A row that says the run is under way is attended to.
LEMMA AttendedStep ==
    ASSUME TypeOK, Shape, Attended, Next
    PROVE  Attended'
  <1>1. ASSUME NEW e \in Executions, Create(e) PROVE Attended'
    BY <1>1 DEF Create, Resumes, Goto, Activate, TypeOK, Shape, Attended,
       Unsettled, Writes, Result, execution
  <1>2. ASSUME NEW e \in Executions, CreateAllowed(e) PROVE Attended'
    BY <1>2 DEF CreateAllowed, Resumes, Goto, TypeOK, Shape, Attended, Unsettled,
       Writes, Result, execution
  <1>3. ASSUME NEW e \in Executions, HookBlocks(e) PROVE Attended'
    BY <1>3 DEF HookBlocks, Resumes, Goto, Mark, Activate, TypeOK, Shape,
       Attended, Unsettled, Writes, Result, execution
  <1>4. ASSUME NEW e \in Executions, Start(e) PROVE Attended'
    BY <1>4 DEF Start, Resumes, Goto, Activate, TypeOK, Shape, Attended,
       Unsettled, Writes, Result, execution
  <1>5. ASSUME NEW e \in Executions, StartAllowed(e) PROVE Attended'
    BY <1>5 DEF StartAllowed, Resumes, Goto, TypeOK, Shape, Attended, Unsettled,
       Writes, Result, execution
  <1>6. ASSUME NEW e \in Executions, Acquire(e) PROVE Attended'
    BY <1>6 DEF Acquire, Resumes, Goto, Acquires, AllowedStatuses, TypeOK, Shape,
       Attended, Unsettled, Writes, Result, execution
  <1>7. ASSUME NEW e \in Executions, Restore(e) PROVE Attended'
    BY <1>7 DEF Restore, Goto, Activate, TypeOK, Shape, Attended, Unsettled,
       Writes, Result, execution
  <1>8. ASSUME NEW e \in Executions, RestoreFails(e) PROVE Attended'
    BY <1>8 DEF RestoreFails, Raise, Mark, Activate, TypeOK, Shape, Attended,
       Unsettled, Writes, Result, execution
  <1>9. ASSUME NEW e \in Executions, EntryGone(e) PROVE Attended'
    BY <1>9 DEF EntryGone, Raise, Mark, Activate, TypeOK, Shape, Attended,
       Unsettled, Writes, Result, execution
  <1>10. ASSUME NEW e \in Executions, Settle(e) PROVE Attended'
    BY <1>10 DEF Settle, Raise, Mark, Activate, Final, StatusMap, TypeOK, Shape,
       Attended, Unsettled, Writes, Result, execution
  <1>11. ASSUME NEW e \in Executions, Conclude(e) PROVE Attended'
    BY <1>11 DEF Conclude, Resumes, Goto, Purge, Detached, Mark, Activate, Final,
       StatusMap, TypeOK, Shape, Attended, Unsettled, Writes, Result, execution
  <1>12. ASSUME NEW e \in Executions, Release(e) PROVE Attended'
    BY <1>12 DEF Release, Resumes, Goto, TypeOK, Shape, Attended, Unsettled,
       Writes, Result, execution
  <1>13. ASSUME NEW e \in Executions, EnterGraph(e) PROVE Attended'
    BY <1>13 DEF EnterGraph, Goto, TypeOK, Shape, Attended, Unsettled, Writes,
       Result, execution
  <1>14. ASSUME NEW e \in Executions, DispatchStops(e) PROVE Attended'
    BY <1>14 DEF DispatchStops, Returns, Goto, TypeOK, Shape, Attended, Unsettled,
       Writes, Result, execution
  <1>15. ASSUME NEW e \in Executions, DispatchEnds(e) PROVE Attended'
    BY <1>15 DEF DispatchEnds, Returns, Goto, TypeOK, Shape, Attended, Unsettled,
       Writes, Result, execution
  <1>16. ASSUME NEW e \in Executions, Dispatched(e) PROVE Attended'
    BY <1>16 DEF Dispatched, Goto, TypeOK, Shape, Attended, Unsettled, Writes,
       Result, execution
  <1>17. ASSUME NEW e \in Executions, Verified(e) PROVE Attended'
    BY <1>17 DEF Verified, Returns, Goto, TypeOK, Shape, Attended, Unsettled,
       Writes, Result, execution
  <1>18. ASSUME NEW e \in Executions, GraphRaises(e) PROVE Attended'
    BY <1>18 DEF GraphRaises, Raise, Mark, Activate, TypeOK, Shape, Attended,
       Unsettled, Writes, Result, execution
  <1>19. ASSUME NEW e \in Executions, Heartbeat(e) PROVE Attended'
    BY <1>19 DEF Heartbeat, TypeOK, Shape, Attended, Unsettled, Writes, Result,
       execution
  <1>20. ASSUME NEW e \in Executions, HeartbeatLost(e) PROVE Attended'
    BY <1>20 DEF HeartbeatLost, TypeOK, Shape, Attended, Unsettled, Writes,
       Result, execution
  <1>21. ASSUME NEW e \in Executions, Resume(e) PROVE Attended'
    BY <1>21 DEF Resume, Spawn, Goto, TypeOK, Shape, Attended, Unsettled, Writes,
       Result, execution
  <1>22. ASSUME NEW e \in Executions, Retry(e) PROVE Attended'
    BY <1>22 DEF Retry, Done, Spawn, Goto, TypeOK, Shape, Attended, Unsettled,
       Writes, Result, execution
  <1>23. ASSUME NEW w \in Workers, PauseRun(w) PROVE Attended'
    BY <1>23 DEF PauseRun, Done, Mark, Activate, TypeOK, Shape, Attended,
       Unsettled, Writes, Result, execution
  <1>24. ASSUME NEW w \in Workers, CancelRun(w) PROVE Attended'
    BY <1>24 DEF CancelRun, Done, TypeOK, Shape, Attended, Unsettled, Writes,
       Result, execution
  <1>25. ASSUME NEW w \in Workers, RetryNothing(w) PROVE Attended'
    BY <1>25 DEF RetryNothing, Done, TypeOK, Shape, Attended, Unsettled, Writes,
       Result, execution
  <1>26. ASSUME NEW w \in Workers, Crash(w) PROVE Attended'
    BY <1>26 DEF Crash, TypeOK, Shape, Attended, Unsettled, Writes, Result,
       execution
  <1>27. ASSUME NEW w \in Workers, Restart(w) PROVE Attended'
    BY <1>27 DEF Restart, Spawn, Goto, Recoverable, TypeOK, Shape, Attended,
       Unsettled, Writes, Result, execution
  <1>28. ASSUME NEW w \in Workers, NEW c \in {"pause", "cancel", "retry"},
                Admit(w, c)
         PROVE  Attended'
    BY <1>28 DEF Admit, TypeOK, Shape, Attended, Unsettled, Writes, Result,
       execution
  <1>29. CASE LeaseExpires
    BY <1>29 DEF LeaseExpires, TypeOK, Shape, Attended, Unsettled, Writes, Result,
       execution
  <1> QED
    BY <1>1, <1>2, <1>3, <1>4, <1>5, <1>6, <1>7, <1>8, <1>9, <1>10, <1>11, <1>12,
       <1>13, <1>14, <1>15, <1>16, <1>17, <1>18, <1>19, <1>20, <1>21, <1>22,
       <1>23, <1>24, <1>25, <1>26, <1>27, <1>28, <1>29 DEF Next, LoopStep,
       GraphStep, Request, Perform

\* At rest nothing opens a closed run.
LEMMA ClosedStep ==
    ASSUME TypeOK, Quiet, status \in {"completed", "cancelled"}, Next
    PROVE  UNCHANGED <<status, pending, phase>>
  <1>1. ASSUME NEW e \in Executions, Create(e) PROVE UNCHANGED <<status, pending, phase>>
    BY <1>1 DEF Create, Resumes, Goto, Activate, TypeOK, Quiet, Live, execution
  <1>2. ASSUME NEW e \in Executions, CreateAllowed(e) PROVE UNCHANGED <<status, pending, phase>>
    BY <1>2 DEF CreateAllowed, Resumes, Goto, TypeOK, Quiet, Live, execution
  <1>3. ASSUME NEW e \in Executions, HookBlocks(e) PROVE UNCHANGED <<status, pending, phase>>
    BY <1>3 DEF HookBlocks, Resumes, Goto, Mark, Activate, TypeOK, Quiet, Live,
       execution
  <1>4. ASSUME NEW e \in Executions, Start(e) PROVE UNCHANGED <<status, pending, phase>>
    BY <1>4 DEF Start, Resumes, Goto, Activate, TypeOK, Quiet, Live, execution
  <1>5. ASSUME NEW e \in Executions, StartAllowed(e) PROVE UNCHANGED <<status, pending, phase>>
    BY <1>5 DEF StartAllowed, Resumes, Goto, TypeOK, Quiet, Live, execution
  <1>6. ASSUME NEW e \in Executions, Acquire(e) PROVE UNCHANGED <<status, pending, phase>>
    BY <1>6 DEF Acquire, Resumes, Goto, Acquires, AllowedStatuses, TypeOK, Quiet,
       Live, execution
  <1>7. ASSUME NEW e \in Executions, Restore(e) PROVE UNCHANGED <<status, pending, phase>>
    BY <1>7 DEF Restore, Goto, Activate, TypeOK, Quiet, Live, execution
  <1>8. ASSUME NEW e \in Executions, RestoreFails(e) PROVE UNCHANGED <<status, pending, phase>>
    BY <1>8 DEF RestoreFails, Raise, Mark, Activate, TypeOK, Quiet, Live, execution
  <1>9. ASSUME NEW e \in Executions, EntryGone(e) PROVE UNCHANGED <<status, pending, phase>>
    BY <1>9 DEF EntryGone, Raise, Mark, Activate, TypeOK, Quiet, Live, execution
  <1>10. ASSUME NEW e \in Executions, Settle(e) PROVE UNCHANGED <<status, pending, phase>>
    BY <1>10 DEF Settle, Raise, Mark, Activate, Final, StatusMap, TypeOK, Quiet,
       Live, execution
  <1>11. ASSUME NEW e \in Executions, Conclude(e) PROVE UNCHANGED <<status, pending, phase>>
    BY <1>11 DEF Conclude, Resumes, Goto, Purge, Detached, Mark, Activate, Final,
       StatusMap, TypeOK, Quiet, Live, execution
  <1>12. ASSUME NEW e \in Executions, Release(e) PROVE UNCHANGED <<status, pending, phase>>
    BY <1>12 DEF Release, Resumes, Goto, TypeOK, Quiet, Live, execution
  <1>13. ASSUME NEW e \in Executions, EnterGraph(e) PROVE UNCHANGED <<status, pending, phase>>
    BY <1>13 DEF EnterGraph, Goto, TypeOK, Quiet, Live, execution
  <1>14. ASSUME NEW e \in Executions, DispatchStops(e) PROVE UNCHANGED <<status, pending, phase>>
    BY <1>14 DEF DispatchStops, Returns, Goto, TypeOK, Quiet, Live, execution
  <1>15. ASSUME NEW e \in Executions, DispatchEnds(e) PROVE UNCHANGED <<status, pending, phase>>
    BY <1>15 DEF DispatchEnds, Returns, Goto, TypeOK, Quiet, Live, execution
  <1>16. ASSUME NEW e \in Executions, Dispatched(e) PROVE UNCHANGED <<status, pending, phase>>
    BY <1>16 DEF Dispatched, Goto, TypeOK, Quiet, Live, execution
  <1>17. ASSUME NEW e \in Executions, Verified(e) PROVE UNCHANGED <<status, pending, phase>>
    BY <1>17 DEF Verified, Returns, Goto, TypeOK, Quiet, Live, execution
  <1>18. ASSUME NEW e \in Executions, GraphRaises(e) PROVE UNCHANGED <<status, pending, phase>>
    BY <1>18 DEF GraphRaises, Raise, Mark, Activate, TypeOK, Quiet, Live, execution
  <1>19. ASSUME NEW e \in Executions, Heartbeat(e) PROVE UNCHANGED <<status, pending, phase>>
    BY <1>19 DEF Heartbeat, TypeOK, Quiet, Live, execution
  <1>20. ASSUME NEW e \in Executions, HeartbeatLost(e) PROVE UNCHANGED <<status, pending, phase>>
    BY <1>20 DEF HeartbeatLost, TypeOK, Quiet, Live, execution
  <1>21. ASSUME NEW e \in Executions, Resume(e) PROVE UNCHANGED <<status, pending, phase>>
    BY <1>21 DEF Resume, Spawn, Goto, TypeOK, Quiet, Live, execution
  <1>22. ASSUME NEW e \in Executions, Retry(e) PROVE UNCHANGED <<status, pending, phase>>
    BY <1>22, RunLifecycleAssumption DEF Retry, Done, Quiet
  <1>23. ASSUME NEW w \in Workers, PauseRun(w) PROVE UNCHANGED <<status, pending, phase>>
    BY <1>23 DEF PauseRun, Done, Mark, Activate, TypeOK, Quiet, Live, execution
  <1>24. ASSUME NEW w \in Workers, CancelRun(w) PROVE UNCHANGED <<status, pending, phase>>
    BY <1>24 DEF CancelRun, Done, TypeOK, Quiet, Live, execution
  <1>25. ASSUME NEW w \in Workers, RetryNothing(w) PROVE UNCHANGED <<status, pending, phase>>
    BY <1>25 DEF RetryNothing, Done, TypeOK, Quiet, Live, execution
  <1>26. ASSUME NEW w \in Workers, Crash(w) PROVE UNCHANGED <<status, pending, phase>>
    BY <1>26 DEF Crash, TypeOK, Quiet, Live, execution
  <1>27. ASSUME NEW w \in Workers, Restart(w) PROVE UNCHANGED <<status, pending, phase>>
    BY <1>27 DEF Restart, Spawn, Goto, Recoverable, TypeOK, Quiet, Live, execution
  <1>28. ASSUME NEW w \in Workers, NEW c \in {"pause", "cancel", "retry"},
                Admit(w, c)
         PROVE  UNCHANGED <<status, pending, phase>>
    BY <1>28 DEF Admit, Admissible, LoopFree, TypeOK, Quiet, Live, execution
  <1>29. CASE LeaseExpires
    BY <1>29 DEF LeaseExpires, TypeOK, Quiet, Live, execution
  <1> QED
    BY <1>1, <1>2, <1>3, <1>4, <1>5, <1>6, <1>7, <1>8, <1>9, <1>10, <1>11, <1>12,
       <1>13, <1>14, <1>15, <1>16, <1>17, <1>18, <1>19, <1>20, <1>21, <1>22,
       <1>23, <1>24, <1>25, <1>26, <1>27, <1>28, <1>29 DEF Next, LoopStep,
       GraphStep, Request, Perform

-----------------------------------------------------------------------------
(* The theorems *)

LEMMA InitInvariant == Init => IInv
  <1> SUFFICES ASSUME Init PROVE IInv
    OBVIOUS
  <1>1. TypeOK
    <2>1. lease \in Lease
      BY DEF Init, Lease
    <2>2. Absent \in Entry /\ entry \in [Workers -> Entry]
      BY ConstantEntries DEF Init
    <2>3. /\ up \in [Workers -> BOOLEAN] /\ refused \in BOOLEAN
          /\ beating \in [Executions -> BOOLEAN]
          /\ lapsed \in [Executions -> BOOLEAN]
      BY DEF Init
    <2>4. phase \in [Executions -> Phase] /\ {requests, crashes, stalls} \subseteq Nat
      BY DEF Init, Phase
    <2> QED
      BY <2>1, <2>2, <2>3, <2>4 DEF Init, TypeOK
  <1> QED
    BY <1>1 DEF Init, IInv, Shape, Holding, Attended, Leased, Unsettled

LEMMA StepInvariant == IInv /\ [Next]_vars => IInv'
  <1> SUFFICES ASSUME IInv, [Next]_vars PROVE IInv'
    OBVIOUS
  <1>1. CASE Next
    <2>1. TypeOK'
      BY <1>1, RowStep, PhaseStep, CountStep, EntryStep, LeaseStep, FlagStep
         DEF IInv, TypeOK
    <2> QED
      BY <1>1, <2>1, ShapeStep, HoldingStep, AttendedStep DEF IInv
  <1>2. CASE UNCHANGED vars
    BY <1>2 DEF vars, execution, bounds, IInv, TypeOK, Shape, Holding, Leased,
       Attended, Unsettled, Writes
  <1> QED
    BY <1>1, <1>2

\* The inductive invariant holds: types, results, the lease and attendance.
THEOREM LifecycleInvariant == Spec => []IInv
  BY InitInvariant, StepInvariant, PTL DEF Spec

\* The variables of the lifecycle keep their types.
THEOREM TypeCorrect == Spec => []TypeOK
  <1>1. IInv => TypeOK
    BY DEF IInv
  <1> QED
    BY <1>1, LifecycleInvariant, PTL

\* The lease fences: of two executions that took it (resume_run) and still run, one
\* has let it expire.
THEOREM LeaseFences == Spec => []LeasedExecutionsExclude
  <1>1. IInv => LeasedExecutionsExclude
    BY DEF IInv, Holding, LeasedExecutionsExclude
  <1> QED
    BY <1>1, LifecycleInvariant, PTL

\* Types, and what the lease of a run fences off (acquire, heartbeat and release).
THEOREM LeaseIsSafe == Spec => []Safety
  BY TypeCorrect, LeaseFences, PTL DEF Safety

\* Every run whose row says it is under way has an execution that will write the
\* row, or a worker that recovers it, unless its recovery met a lease.
THEOREM NoGhosts == Spec => []NoGhostRun
  <1>1. IInv => NoGhostRun
    BY DEF IInv, Attended, Writes, NoGhostRun, Live
  <1> QED
    BY <1>1, LifecycleInvariant, PTL

\* A closed run at rest is never opened again (service.py and recover_incomplete).
THEOREM ClosedForGood == Spec => ClosedRunsStayClosed
  <1>1. IInv /\ [Next]_vars
           => [Quiet /\ status \in {"completed", "cancelled"}
                  => UNCHANGED <<status, pending, phase>>]_vars
    BY ClosedStep DEF IInv
  <1> QED
    BY <1>1, LifecycleInvariant, PTL DEF Spec, ClosedRunsStayClosed

-----------------------------------------------------------------------------
(* The discussion room                                                       *)

\* The round of an agent.
Taking == {"think", "publish", "process", "decide"}

\* In an agent's round it is one of the team that speaks; a round is begun only
\* within the budget; what the runner's own cancel() stopped stays cancelled; and
\* the driver has no outcome before it is through.
Turned ==
    /\ pc \in Taking => speaker \in Agents
    /\ pc = "new" => round = 0
    /\ pc = "top" => round < MaxRounds
    /\ asked = "own" => st.phase = "cancelled"
    /\ pc # "done" => outcome = "none"

RoomInv == RoomTypes /\ Turned /\ OwnCancelHolds

\* The first of some numbers is one of them.
LEMMA FirstIsOne ==
    ASSUME NEW s, s \subseteq Nat, s # {}
    PROVE  First(s) \in s /\ \A j \in s : First(s) <= j
  <1>1. \E x \in s : \A y \in s : ~(<<y, x>> \in OpToRel(<, Nat))
    BY NatLessThanWellFounded, WFMin
  <1>2. PICK x \in s : \A y \in s : ~(<<y, x>> \in OpToRel(<, Nat))
    BY <1>1
  <1>3. \A y \in s : ~(y < x)
    BY <1>2 DEF OpToRel
  <1>4. \A y \in s : x <= y
    BY <1>3
  <1> QED
    BY <1>4 DEF First

LEMMA TeamIsThere == Agents # {} /\ \A i \in DOMAIN Team : Team[i] \in Agents
  BY TeamAssumption DEF Agents

\* Each group holds agents, and the last one all of them.
LEMMA GroupsAreAgents ==
    /\ DOMAIN Candidates = 1 .. 8
    /\ \A i \in 1 .. 8 : Candidates[i] \subseteq Agents
    /\ Candidates[8] = Agents
  <1> DEFINE fit == Agents \cap PhaseRole(st.phase)
             some == {a \in Agents : unread[a] # <<>>}
             asks == {a \in Agents : Has(a, "ask")}
             acts == {a \in Agents : Has(a, "ask") \/ Has(a, "act")}
             g3 == fit \cap some
             g4 == fit \ {last}
             g5 == some \ {last}
             g6 == IF some # {} THEN fit ELSE {}
             g7 == IF last \in Agents THEN Agents \ {last} ELSE {}
  <1>1. Candidates = << asks, acts, g3, g4, g5, g6, g7, Agents >>
    BY DEF Candidates
  <1>2. /\ asks \subseteq Agents /\ acts \subseteq Agents /\ g3 \subseteq Agents
        /\ g4 \subseteq Agents /\ g5 \subseteq Agents /\ g6 \subseteq Agents
        /\ g7 \subseteq Agents
    OBVIOUS
  <1> HIDE DEF asks, acts, g3, g4, g5, g6, g7
  <1>3. DOMAIN << asks, acts, g3, g4, g5, g6, g7, Agents >> = 1 .. 8
    OBVIOUS
  <1>4. \A i \in 1 .. 8 :
           << asks, acts, g3, g4, g5, g6, g7, Agents >>[i] \subseteq Agents
    BY <1>2
  <1> QED
    BY <1>1, <1>3, <1>4

\* The speaker is one of the team.
LEMMA SpeakerIsAnAgent == Selected \in Agents
  <1> DEFINE nonempty == {i \in DOMAIN Candidates : Candidates[i] # {}}
             group == Candidates[First(nonempty)]
             places == {i \in DOMAIN Team : Team[i] \in group}
  <1>1. nonempty \subseteq Nat /\ 8 \in nonempty
    BY GroupsAreAgents, TeamIsThere
  <1>2. First(nonempty) \in nonempty
    BY <1>1, FirstIsOne
  <1>3. group \subseteq Agents /\ group # {}
    BY <1>2, GroupsAreAgents
  <1>4. places \subseteq Nat /\ places # {}
    <2>1. DOMAIN Team \subseteq Nat
      BY TeamAssumption
    <2>2. PICK a \in Agents : a \in group
      BY <1>3
    <2> HIDE DEF group
    <2>3. PICK i \in DOMAIN Team : Team[i] = a
      BY <2>2 DEF Agents
    <2> QED
      BY <2>1, <2>2, <2>3
  <1>5. First(places) \in places
    BY <1>4, FirstIsOne
  <1> QED
    BY <1>5, TeamIsThere DEF Selected

\* While the check says to go on, the budget of rounds is not spent.
LEMMA GoingOnIsWithinBudget ==
    ASSUME NEW s, NEW idle, round \in Nat, Check(s, idle) = "continue"
    PROVE  round < MaxRounds
  <1> DEFINE rules == Rules(s, idle)
             apply == {i \in DOMAIN rules : rules[i][1]}
  <1> SUFFICES ASSUME round >= MaxRounds PROVE FALSE
    BY TeamAssumption
  <1>1. /\ DOMAIN rules = 1 .. 12
        /\ rules[1] = <<s.phase \in {"completed", "failed", "cancelled"}, s.phase>>
        /\ rules[2] = <<s.cancel, "cancelled">>
        /\ rules[3] = <<round >= MaxRounds /\ (s.final \/ Approved(s)), "completed">>
        /\ rules[4] = <<round >= MaxRounds, "incomplete">>
    BY DEF Rules
  <1> HIDE DEF rules
  <1>2. apply \subseteq Nat /\ 4 \in apply
    <2>1. rules[4][1] = (round >= MaxRounds)
      BY <1>1
    <2>2. 4 \in DOMAIN rules
      BY <1>1
    <2>3. 4 \in apply
      BY <2>1, <2>2
    <2> QED
      BY <2>3, <1>1
  <1>3. First(apply) \in apply /\ First(apply) <= 4
    BY <1>2, FirstIsOne
  <1>4. First(apply) \in {1, 2, 3, 4}
    BY <1>1, <1>3
  <1>5. rules[First(apply)][2] # "continue"
    <2>1. CASE First(apply) = 1
      <3>1. rules[1][1]
        BY <2>1, <1>3
      <3>2. rules[1][1] = (s.phase \in {"completed", "failed", "cancelled"})
        BY <1>1
      <3>3. rules[1][2] = s.phase
        BY <1>1
      <3> QED
        BY <2>1, <3>1, <3>2, <3>3
    <2>2. CASE First(apply) \in {2, 3, 4}
      BY <2>2, <1>1
    <2> QED
      BY <2>1, <2>2, <1>4
  <1>6. Check(s, idle) = rules[First(apply)][2]
    BY DEF Check, rules
  <1> QED
    BY <1>5, <1>6

-----------------------------------------------------------------------------
(* What the helpers leave                                                    *)

\* The state keeps its type whatever phase is asked for; a terminal phase stays,
\* and nothing but the phase changes.
LEMMA PhaseUpdates ==
    ASSUME NEW s \in State, NEW p
    PROVE  /\ UpdatePhase(s, p) \in State
           /\ s.phase \in Terminal => UpdatePhase(s, p) = s
           /\ UpdatePhase(s, p).review = s.review
           /\ UpdatePhase(s, p).final = s.final
  <1>1. CASE UpdatePhase(s, p) = s
    BY <1>1
  <1>2. CASE p \in Terminal \cup Working /\ s.phase \notin Terminal
    <2>1. UpdatePhase(s, p) = s \/ UpdatePhase(s, p) = [s EXCEPT !.phase = p]
      BY DEF UpdatePhase
    <2>2. [s EXCEPT !.phase = p] \in State
      BY <1>2 DEF State, Phases
    <2> QED
      BY <1>2, <2>1, <2>2, <1>1 DEF State
  <1> QED
    BY <1>1, <1>2 DEF UpdatePhase

LEMMA FailedStep ==
    ASSUME NEW s \in State, NEW severe \in BOOLEAN
    PROVE  /\ Failed(s, severe) \in State
           /\ s.phase \in Terminal => Failed(s, severe).phase = s.phase
           /\ Failed(s, severe).review # "passed"
           /\ Failed(s, severe).final = s.final
  <1> DEFINE c == s.cycles + 1
             b == s.blocked \/ (severe /\ c <= MaxCycles)
             r == IF c > MaxCycles THEN "max_retries_exceeded" ELSE "failed"
             f == [s EXCEPT !.cycles = c, !.review = r, !.blocked = b]
  <1>1. c \in Nat /\ b \in BOOLEAN /\ r \in Reviews /\ r # "passed"
    BY DEF State, Reviews
  <1>2. Failed(s, severe) = UpdatePhase(f, "repairing")
    BY DEF Failed
  <1> HIDE DEF c, b, r
  <1>3. f \in State
    BY <1>1 DEF State
  <1>4. f.phase = s.phase /\ f.review = r /\ f.final = s.final
    BY DEF State
  <1> HIDE DEF f
  <1> QED
    BY <1>1, <1>2, <1>3, <1>4, PhaseUpdates

LEMMA FinalizedStep ==
    ASSUME NEW s \in State, NEW a
    PROVE  /\ Finalized(a, s) \in State
           /\ s.phase \in Terminal => Finalized(a, s).phase = s.phase
           /\ Finalized(a, s).review = s.review
           /\ Finalized(a, s).final => s.final \/ a = "Finalizer"
  <1> DEFINE f == [s EXCEPT !.final = TRUE]
  <1>1. f \in State /\ f.phase = s.phase /\ f.review = s.review
    BY DEF State
  <1>2. Finalized(a, s) = s \/ (a = "Finalizer" /\ Finalized(a, s) = UpdatePhase(f, "finalizing"))
    BY DEF Finalized
  <1> HIDE DEF f
  <1> QED
    BY <1>1, <1>2, PhaseUpdates

\* What one action of an answer does to the state.
ActionKeeps(a, s, s1) ==
    /\ s1 \in State
    /\ s.phase \in Terminal => s1.phase = s.phase
    /\ s1.final => s.final \/ a = "Finalizer"
    /\ s1.review = "passed" => s.review = "passed" \/ a = "ReviewerAgent"

LEMMA SaidStep ==
    ASSUME NEW s \in State, NEW a, NEW x
    PROVE  ActionKeeps(a, s, Said(a, x, s))
  <1> DEFINE ok == [s EXCEPT !.review = "passed"]
  <1>1. ok \in State /\ ok.phase = s.phase /\ ok.final = s.final
    BY DEF State, Reviews
  <1>2. ASSUME a = "ReviewerAgent" PROVE ActionKeeps(a, s, UpdatePhase(ok, "finalizing"))
    BY <1>1, <1>2, PhaseUpdates DEF ActionKeeps
  <1>3. ActionKeeps(a, s, Failed(s, x.arg = "severe"))
    BY FailedStep DEF ActionKeeps
  <1>4. ActionKeeps(a, s, UpdatePhase(s, "executing"))
    BY PhaseUpdates DEF ActionKeeps
  <1>5. ActionKeeps(a, s, Finalized(a, s))
    BY FinalizedStep DEF ActionKeeps
  <1>6. ActionKeeps(a, s, s)
    BY DEF ActionKeeps
  <1>7. \/ a = "ReviewerAgent" /\ Said(a, x, s) = UpdatePhase(ok, "finalizing")
        \/ Said(a, x, s) = Failed(s, x.arg = "severe")
        \/ Said(a, x, s) = UpdatePhase(s, "executing")
        \/ Said(a, x, s) = Finalized(a, s)
        \/ Said(a, x, s) = s
    BY DEF Said
  <1> QED
    BY <1>2, <1>3, <1>4, <1>5, <1>6, <1>7

LEMMA AppliedStep ==
    ASSUME NEW s \in State, NEW a, NEW x
    PROVE  ActionKeeps(a, s, Applied(a, x, s))
  <1> DEFINE asked1 == [s EXCEPT !.review = "pending"]
  <1>1. asked1 \in State /\ asked1.phase = s.phase /\ asked1.final = s.final /\ asked1.review = "pending"
    BY DEF State, Reviews
  <1>2. ActionKeeps(a, s, UpdatePhase(asked1, "reviewing"))
    BY <1>1, PhaseUpdates DEF ActionKeeps
  <1>3. ActionKeeps(a, s, UpdatePhase(s, x.arg)) /\ ActionKeeps(a, s, UpdatePhase(s, "executing"))
    BY PhaseUpdates DEF ActionKeeps
  <1>4. ActionKeeps(a, s, Finalized(a, s))
    BY FinalizedStep DEF ActionKeeps
  <1>5. ActionKeeps(a, s, s)
    BY DEF ActionKeeps
  <1>6. \/ Applied(a, x, s) = UpdatePhase(asked1, "reviewing")
        \/ Applied(a, x, s) = UpdatePhase(s, x.arg)
        \/ Applied(a, x, s) = UpdatePhase(s, "executing")
        \/ Applied(a, x, s) = Finalized(a, s)
        \/ Applied(a, x, s) = Said(a, x, s)
        \/ Applied(a, x, s) = s
    BY DEF Applied
  <1> QED
    BY <1>2, <1>3, <1>4, <1>5, <1>6, SaidStep

\* What the role's filter leaves is an answer with at least one action.
LEMMA AnswerStep ==
    ASSUME NEW a, NEW t \in Turns
    PROVE  Filtered(a, t) \in Seq(Action) /\ Len(Filtered(a, t)) >= 1
  <1>1. NoOp \in Action
    BY DEF Action
  <1>2. t \in Seq(Action)
    <2>1. t \in Seq({t[i] : i \in DOMAIN t})
      BY TeamAssumption
    <2>2. {t[i] : i \in DOMAIN t} \subseteq Action
      BY DEF Action
    <2> QED
      BY <2>1, <2>2
  <1>3. CASE t = <<>>
    BY <1>1, <1>3 DEF Filtered
  <1>4. CASE t # <<>>
    <2>1. Len(t) \in Nat /\ Len(t) >= 1 /\ DOMAIN t = 1 .. Len(t)
      BY <1>2, <1>4, EmptySeq, LenProperties
    <2>2. Filtered(a, t) = [i \in 1 .. Len(t) |-> IF t[i].type \in Allowed(a) THEN t[i] ELSE NoOp]
      BY <1>4, <2>1 DEF Filtered
    <2>3. \A i \in 1 .. Len(t) : t[i] \in Action
      BY <1>2, <2>1
    <2>4. Filtered(a, t) \in [1 .. Len(t) -> Action]
      BY <1>1, <2>2, <2>3
    <2>5. Filtered(a, t) \in Seq(Action) /\ Len(Filtered(a, t)) = Len(t)
      BY <2>1, <2>4, SeqDef, LenProperties
    <2> QED
      BY <2>1, <2>5
  <1> QED
    BY <1>3, <1>4

\* A delivery only adds to the inboxes.
Grown(before, after) ==
    /\ after \in [Agents -> Seq({"ask", "act", "info"})]
    /\ \A a \in Agents : Len(before[a]) <= Len(after[a])

LEMMA DeliveryStep ==
    ASSUME NEW m, unread \in [Agents -> Seq({"ask", "act", "info"})]
    PROVE  Grown(unread, Deliver(unread, m))
  <1>1. ASSUME NEW a \in Agents
        PROVE  /\ Deliver(unread, m)[a] \in Seq({"ask", "act", "info"})
               /\ Len(unread[a]) <= Len(Deliver(unread, m)[a])
    <2>1. Urgency(m, a) \in {"ask", "act", "info"}
      BY DEF Urgency
    <2>2. unread[a] \in Seq({"ask", "act", "info"}) /\ Len(unread[a]) \in Nat
      OBVIOUS
    <2>3. /\ Append(unread[a], Urgency(m, a)) \in Seq({"ask", "act", "info"})
          /\ Len(Append(unread[a], Urgency(m, a))) = Len(unread[a]) + 1
      BY <2>1, <2>2
    <2>4. \/ Deliver(unread, m)[a] = unread[a]
          \/ Deliver(unread, m)[a] = Append(unread[a], Urgency(m, a))
      BY DEF Deliver
    <2>5. CASE Deliver(unread, m)[a] = unread[a]
      BY <2>2, <2>5
    <2>6. CASE Deliver(unread, m)[a] = Append(unread[a], Urgency(m, a))
      <3> DEFINE longer == Append(unread[a], Urgency(m, a))
      <3>1. longer \in Seq({"ask", "act", "info"}) /\ Len(unread[a]) <= Len(longer)
        BY <2>2, <2>3
      <3> HIDE DEF longer
      <3> QED
        BY <2>6, <3>1 DEF longer
    <2> QED
      BY <2>4, <2>5, <2>6
  <1>2. Deliver(unread, m) = [a \in Agents |-> Deliver(unread, m)[a]]
    BY DEF Deliver
  <1> QED
    BY <1>1, <1>2 DEF Grown

LEMMA NothingGrows ==
    ASSUME unread \in [Agents -> Seq({"ask", "act", "info"})]
    PROVE  Grown(unread, unread)
  BY DEF Grown

-----------------------------------------------------------------------------
(* One step of the room                                                      *)

Urgencies == {"ask", "act", "info"}
Row == [state : State, status : Phases, terminated : BOOLEAN]

\* The row that save_state writes.
LEMMA SavedIsARow ==
    ASSUME RoomTypes, NEW s \in State
    PROVE  Saved(s) \in Row
  <1>1. s.phase \in Phases
    BY DEF State
  <1>2. row \in Row
    BY DEF RoomTypes, Row
  <1> QED
    BY <1>1, <1>2 DEF Saved, Row

\* The prompt still fits the inbox of who speaks after something arrived there.
LEMMA PromptFits ==
    ASSUME RoomInv, Grown(unread, unread'), pc \in Taking
    PROVE  seen <= Len(unread'[speaker])
  <1>1. speaker \in Agents /\ seen \in Nat /\ seen <= Len(unread[speaker])
    BY DEF RoomInv, RoomTypes, PromptTypes, Turned, Taking
  <1>2. Len(unread[speaker]) \in Nat /\ Len(unread'[speaker]) \in Nat
    <2>1. unread \in [Agents -> Seq(Urgencies)] /\ unread' \in [Agents -> Seq(Urgencies)]
      BY DEF RoomInv, RoomTypes, PromptTypes, Grown, Urgencies
    <2>2. unread[speaker] \in Seq(Urgencies) /\ unread'[speaker] \in Seq(Urgencies)
      BY <1>1, <2>1
    <2> QED
      BY <2>2
  <1>3. Len(unread[speaker]) <= Len(unread'[speaker])
    BY <1>1 DEF Grown
  <1> QED
    BY <1>1, <1>2, <1>3

\* What arrives never disturbs the prompt.
LEMMA ArrivalKeepsPrompt ==
    ASSUME RoomInv, Grown(unread, unread'), seen' = seen, speaker' = speaker,
           pc' \in Taking => pc \in Taking
    PROVE  PromptTypes'
  <1>1. pc' \in Taking => seen' <= Len(unread'[speaker'])
    BY PromptFits
  <1>2. seen' \in Nat
    BY DEF RoomInv, RoomTypes, PromptTypes
  <1> QED
    BY <1>1, <1>2 DEF PromptTypes, Grown, Taking

\* The next action of a turn is one of it, or the first of the next pass.
LEMMA NextIsInTheTurn ==
    ASSUME RoomInv, pc \in {"publish", "process"}
    PROVE  /\ next + 1 \in Nat \ {0} /\ 1 <= Len(turn)
           /\ next # Len(turn) => next + 1 <= Len(turn)
  <1>1. turn \in Seq(Action) /\ next \in Nat \ {0} /\ next <= Len(turn)
    BY DEF RoomInv, RoomTypes, TurnTypes
  <1>2. Len(turn) \in Nat
    BY <1>1
  <1> QED
    BY <1>1, <1>2

LEMMA StartRoomKeeps ==
    ASSUME RoomInv, StartRoom
    PROVE  RoomInv'
  <1>1. st \in State
    BY DEF RoomInv, RoomTypes, LoopTypes
  <1>2. st' \in State /\ (st.phase \in Terminal => st' = st)
    BY <1>1, PhaseUpdates DEF StartRoom
  <1>3. Grown(unread, unread')
    BY DeliveryStep, NothingGrows DEF RoomInv, RoomTypes, PromptTypes, StartRoom
  <1>4. row' \in Row
    BY <1>2, SavedIsARow DEF StartRoom, RoomInv, RoomTypes, Row
  <1>5. LoopTypes' /\ TurnTypes'
    BY <1>2 DEF RoomInv, RoomTypes, LoopTypes, TurnTypes, StartRoom
  <1>6. PromptTypes'
    BY <1>3, ArrivalKeepsPrompt DEF StartRoom, Taking
  <1>7. RoomTypes'
    BY <1>4, <1>5, <1>6 DEF RoomInv, RoomTypes, StartRoom, Row
  <1>8. round = 0 => round < MaxRounds
    BY TeamAssumption
  <1>9. Turned' /\ OwnCancelHolds'
    BY <1>2, <1>8 DEF RoomInv, Turned, OwnCancelHolds, StartRoom, Taking, Terminal
  <1> QED
    BY <1>7, <1>9 DEF RoomInv

LEMMA StopKeeps ==
    ASSUME RoomInv, Stop
    PROVE  RoomInv'
  <1>1. st' \in State /\ (st.phase \in Terminal => st' = st)
    BY PhaseUpdates DEF RoomInv, RoomTypes, LoopTypes, Stop
  <1>2. RoomTypes'
    BY <1>1 DEF RoomInv, RoomTypes, LoopTypes, TurnTypes, PromptTypes, Stop
  <1>3. Turned' /\ OwnCancelHolds'
    BY <1>1 DEF RoomInv, Turned, OwnCancelHolds, Stop, Taking, Terminal
  <1> QED
    BY <1>2, <1>3 DEF RoomInv

LEMMA SelectKeeps ==
    ASSUME RoomInv, Select
    PROVE  RoomInv'
  <1>1. Selected \in Agents
    BY SpeakerIsAnAgent
  <1>2. unread \in [Agents -> Seq(Urgencies)]
    BY DEF RoomInv, RoomTypes, PromptTypes, Urgencies
  <1>3. Len(unread[Selected]) \in Nat
    <2>1. unread[Selected] \in Seq(Urgencies)
      BY <1>1, <1>2
    <2> QED
      BY <2>1
  <1>4. /\ speaker' = Selected /\ seen' = Len(unread[Selected])
        /\ unread' = unread /\ round' = round + 1
    BY DEF Select
  <1>5. \A n \in Nat : n <= n
    OBVIOUS
  <1>6. PromptTypes'
    BY <1>2, <1>3, <1>4, <1>5 DEF PromptTypes, Urgencies
  <1>7. round' \in 0 .. MaxRounds
    <2>1. MaxRounds \in Nat
      BY TeamAssumption
    <2>2. round \in 0 .. MaxRounds /\ round < MaxRounds
      BY DEF RoomInv, RoomTypes, LoopTypes, Turned, Select
    <2> QED
      BY <2>1, <2>2, <1>4
  <1>8. LoopTypes' /\ TurnTypes'
    BY <1>1, <1>7 DEF RoomInv, RoomTypes, LoopTypes, TurnTypes, Select
  <1>9. RoomTypes'
    BY <1>6, <1>8 DEF RoomInv, RoomTypes, Select
  <1>10. Turned' /\ OwnCancelHolds'
    BY <1>1 DEF RoomInv, Turned, OwnCancelHolds, Select, Taking
  <1> QED
    BY <1>9, <1>10 DEF RoomInv

LEMMA ThinkKeeps ==
    ASSUME RoomInv, Think
    PROVE  RoomInv'
  <1>1. turn' \in Seq(Action) /\ Len(turn') >= 1
    BY AnswerStep DEF Think
  <1>2. next' = 1 /\ Len(turn') \in Nat
    BY <1>1 DEF Think
  <1>3. TurnTypes'
    BY <1>1, <1>2 DEF TurnTypes
  <1>4. LoopTypes' /\ PromptTypes'
    BY DEF RoomInv, RoomTypes, LoopTypes, PromptTypes, Think
  <1>5. RoomTypes'
    BY <1>3, <1>4 DEF RoomInv, RoomTypes, Think
  <1>6. Turned' /\ OwnCancelHolds'
    BY DEF RoomInv, Turned, OwnCancelHolds, Think, Taking
  <1> QED
    BY <1>5, <1>6 DEF RoomInv

LEMMA PublishKeeps ==
    ASSUME RoomInv, Publish
    PROVE  RoomInv'
  <1>1. Grown(unread, unread')
    BY DeliveryStep DEF RoomInv, RoomTypes, PromptTypes, Publish
  <1>2. row' \in Row
    BY SavedIsARow DEF Publish, RoomInv, RoomTypes, LoopTypes
  <1>3. PromptTypes'
    BY <1>1, ArrivalKeepsPrompt DEF Publish, Taking
  <1>4. LoopTypes' /\ TurnTypes'
    <2>1. LoopTypes'
      BY DEF RoomInv, RoomTypes, LoopTypes, Publish
    <2>2. /\ next + 1 \in Nat \ {0} /\ 1 <= Len(turn)
          /\ next # Len(turn) => next + 1 <= Len(turn)
      BY NextIsInTheTurn DEF Publish
    <2>3. turn' = turn /\ turn \in Seq(Action)
      BY DEF RoomInv, RoomTypes, TurnTypes, Publish
    <2>4. \/ next = Len(turn) /\ next' = 1
          \/ next # Len(turn) /\ next' = next + 1
      BY DEF Publish
    <2>5. next' \in Nat \ {0} /\ next' <= Len(turn')
      BY <2>2, <2>3, <2>4
    <2> QED
      BY <2>1, <2>3, <2>5 DEF TurnTypes
  <1>5. RoomTypes'
    BY <1>2, <1>3, <1>4 DEF RoomInv, RoomTypes, Publish, Row
  <1>6. Turned' /\ OwnCancelHolds'
    BY DEF RoomInv, Turned, OwnCancelHolds, Publish, Taking
  <1> QED
    BY <1>5, <1>6 DEF RoomInv

LEMMA ProcessKeeps ==
    ASSUME RoomInv, Process
    PROVE  RoomInv'
  <1>1. st' \in State /\ (st.phase \in Terminal => st'.phase = st.phase)
    <2>1. st \in State
      BY DEF RoomInv, RoomTypes, LoopTypes
    <2>2. st' = Applied(speaker, turn[next], st)
      BY DEF Process
    <2>3. ActionKeeps(speaker, st, st')
      BY <2>1, <2>2, AppliedStep
    <2> QED
      BY <2>3 DEF ActionKeeps
  <1>2. Grown(unread, unread')
    BY DeliveryStep, NothingGrows DEF RoomInv, RoomTypes, PromptTypes, Process
  <1>3. row' \in Row
    <2>1. row' = Saved(st') \/ row' = row
      BY DEF Process
    <2> QED
      BY <2>1, <1>1, SavedIsARow DEF RoomInv, RoomTypes, Row
  <1>4. PromptTypes'
    BY <1>2, ArrivalKeepsPrompt DEF Process, Taking
  <1>5. LoopTypes' /\ TurnTypes'
    <2>1. LoopTypes'
      BY <1>1 DEF RoomInv, RoomTypes, LoopTypes, Process
    <2>2. /\ next + 1 \in Nat \ {0} /\ 1 <= Len(turn)
          /\ next # Len(turn) => next + 1 <= Len(turn)
      BY NextIsInTheTurn DEF Process
    <2>3. turn' = turn /\ turn \in Seq(Action)
      BY DEF RoomInv, RoomTypes, TurnTypes, Process
    <2>4. \/ next = Len(turn) /\ next' = 1
          \/ next # Len(turn) /\ next' = next + 1
      BY DEF Process
    <2>5. next' \in Nat \ {0} /\ next' <= Len(turn')
      BY <2>2, <2>3, <2>4
    <2> QED
      BY <2>1, <2>3, <2>5 DEF TurnTypes
  <1>6. RoomTypes'
    BY <1>3, <1>4, <1>5 DEF RoomInv, RoomTypes, Process, Row
  <1>7. Turned' /\ OwnCancelHolds'
    BY <1>1 DEF RoomInv, Turned, OwnCancelHolds, Process, Taking, Terminal
  <1> QED
    BY <1>6, <1>7 DEF RoomInv

LEMMA HandlerRaisesKeeps ==
    ASSUME RoomInv, HandlerRaises
    PROVE  RoomInv'
  <1>1. st' \in State /\ (st.phase \in Terminal => st'.phase = st.phase)
    BY FailedStep DEF HandlerRaises, RoomInv, RoomTypes, LoopTypes
  <1>2. turn' \in Seq(Action)
    <2>1. turn \in Seq(Action)
      BY DEF RoomInv, RoomTypes, TurnTypes
    <2>2. << >> \in Seq(Action)
      OBVIOUS
    <2> QED
      BY <2>1, <2>2 DEF HandlerRaises
  <1>3. LoopTypes' /\ PromptTypes'
    BY <1>1 DEF RoomInv, RoomTypes, LoopTypes, PromptTypes, HandlerRaises
  <1>4. TurnTypes'
    BY <1>2 DEF TurnTypes, HandlerRaises
  <1>5. RoomTypes'
    BY <1>3, <1>4 DEF RoomInv, RoomTypes, HandlerRaises
  <1>6. Turned' /\ OwnCancelHolds'
    BY <1>1 DEF RoomInv, Turned, OwnCancelHolds, HandlerRaises, Taking, Terminal
  <1> QED
    BY <1>5, <1>6 DEF RoomInv

\* The rest of an inbox, when the prompt's messages are acknowledged.
LEMMA AckStep ==
    ASSUME RoomInv, pc = "decide"
    PROVE  /\ Acked(unread[speaker], seen) \in Seq(Urgencies)
           /\ Len(unread[speaker]) - Len(Acked(unread[speaker], seen)) = seen
  <1>1. speaker \in Agents /\ seen \in Nat /\ seen <= Len(unread[speaker])
    BY DEF RoomInv, RoomTypes, PromptTypes, Turned, Taking
  <1>2. unread \in [Agents -> Seq(Urgencies)]
    BY DEF RoomInv, RoomTypes, PromptTypes, Urgencies
  <1>3. unread[speaker] \in Seq(Urgencies)
    BY <1>1, <1>2
  <1> DEFINE q == unread[speaker]
             n == Len(q)
  <1>4. q \in Seq(Urgencies) /\ n \in Nat /\ seen <= n
    BY <1>1, <1>3
  <1> HIDE DEF q
  <1>5. SubSeq(q, seen + 1, n) \in Seq(Urgencies) /\ Len(SubSeq(q, seen + 1, n)) = n - seen
    <2>1. \A i \in (seen + 1) .. n : q[i] \in Urgencies
      BY <1>1, <1>4
    <2>2. SubSeq(q, seen + 1, n) = [i \in 1 .. (n - seen) |-> q[i + seen]]
      BY <1>1, <1>4
    <2> QED
      BY <1>1, <1>4, <2>1, <2>2, SubSeqProperties
  <1> QED
    BY <1>1, <1>4, <1>5 DEF Acked, q

LEMMA DecideKeeps ==
    ASSUME RoomInv, Decide
    PROVE  RoomInv'
  <1>1. PICK d : /\ d = Check(st, ~Reached)
                 /\ st' = IF d = "continue" THEN st ELSE UpdatePhase(st, d)
                 /\ pc' = IF driver = "graph" THEN "recheck" ELSE
                          IF d = "continue" THEN "top" ELSE "finish"
    BY DEF Decide
  <1>2. st' \in State /\ (st.phase \in Terminal => st' = st)
    <2>1. st \in State
      BY DEF RoomInv, RoomTypes, LoopTypes
    <2> QED
      BY <1>1, <2>1, PhaseUpdates
  <1>3. pc' = "top" => round < MaxRounds
    <2>1. round \in Nat
      <3>1. round \in 0 .. MaxRounds /\ MaxRounds \in Nat
        BY TeamAssumption DEF RoomInv, RoomTypes, LoopTypes
      <3> QED
        BY <3>1
    <2>2. d = "continue" => round < MaxRounds
      BY <1>1, <2>1, GoingOnIsWithinBudget
    <2> QED
      BY <1>1, <2>2
  <1>4. pc' \in {"recheck", "top", "finish"}
    BY <1>1
  <1>5. speaker \in Agents
    BY DEF RoomInv, Turned, Decide, Taking
  <1>6. unread' \in [Agents -> Seq(Urgencies)]
    <2>1. unread \in [Agents -> Seq(Urgencies)]
      BY DEF RoomInv, RoomTypes, PromptTypes, Urgencies
    <2>2. Acked(unread[speaker], seen) \in Seq(Urgencies)
      BY AckStep DEF Decide
    <2>3. unread' = [unread EXCEPT ![speaker] = Acked(unread[speaker], seen)]
      BY DEF Decide
    <2> QED
      BY <2>1, <2>2, <2>3
  <1>7. stale' \in Nat /\ noops' \in Nat
    <2>1. stale \in Nat /\ noops \in Nat
      BY DEF RoomInv, RoomTypes, LoopTypes
    <2>2. /\ stale' \in {0, stale + 1}
          /\ noops' \in {0, noops + 1}
      BY DEF Decide
    <2> QED
      BY <2>1, <2>2
  <1>8. LoopTypes'
    BY <1>2, <1>4, <1>5, <1>7 DEF RoomInv, RoomTypes, LoopTypes, Decide
  <1>9. TurnTypes' /\ PromptTypes'
    BY <1>4, <1>6 DEF RoomInv, RoomTypes, TurnTypes, PromptTypes, Urgencies, Decide
  <1>10. RoomTypes'
    BY <1>8, <1>9 DEF RoomInv, RoomTypes, Decide
  <1>11. Turned' /\ OwnCancelHolds'
    BY <1>2, <1>3, <1>4 DEF RoomInv, Turned, OwnCancelHolds, Decide, Taking, Terminal
  <1> QED
    BY <1>10, <1>11 DEF RoomInv

LEMMA RecheckKeeps ==
    ASSUME RoomInv, Recheck
    PROVE  RoomInv'
  <1>1. pc' \in {"top", "finish"} /\ (pc' = "top" => round < MaxRounds)
    BY DEF Recheck
  <1>2. noops' \in Nat
    <2>1. noops \in Nat
      BY DEF RoomInv, RoomTypes, LoopTypes
    <2>2. noops' \in {0, noops + 1}
      BY DEF Recheck
    <2> QED
      BY <2>1, <2>2
  <1>3. LoopTypes' /\ TurnTypes' /\ PromptTypes'
    BY <1>1, <1>2 DEF RoomInv, RoomTypes, LoopTypes, TurnTypes, PromptTypes, Recheck
  <1>4. RoomTypes'
    BY <1>3 DEF RoomInv, RoomTypes, Recheck
  <1>5. Turned' /\ OwnCancelHolds'
    BY <1>1 DEF RoomInv, Turned, OwnCancelHolds, Recheck, Taking
  <1> QED
    BY <1>4, <1>5 DEF RoomInv

LEMMA FinishKeeps ==
    ASSUME RoomInv, Finish
    PROVE  RoomInv'
  <1>1. st \in State /\ st.phase \in Phases
    BY DEF RoomInv, RoomTypes, LoopTypes, State
  <1>2. row' \in Row
    BY <1>1 DEF RoomInv, RoomTypes, Finish, Row
  <1>3. /\ outcome' \in {"completed", "failed", "cancelled"}
        /\ st.phase = "cancelled" => outcome' = "cancelled"
    BY DEF Finish
  <1>4. LoopTypes' /\ TurnTypes' /\ PromptTypes'
    BY <1>3 DEF RoomInv, RoomTypes, LoopTypes, TurnTypes, PromptTypes, Finish
  <1>5. RoomTypes'
    BY <1>2, <1>4 DEF RoomInv, RoomTypes, Finish, Row
  <1>6. Turned' /\ OwnCancelHolds'
    BY <1>3 DEF RoomInv, Turned, OwnCancelHolds, Finish, Taking
  <1> QED
    BY <1>5, <1>6 DEF RoomInv

LEMMA CancelOwnKeeps ==
    ASSUME RoomInv, CancelOwn
    PROVE  RoomInv'
  <1> DEFINE marked == [st EXCEPT !.cancel = TRUE]
  <1>1. marked \in State /\ marked.phase = st.phase
    BY DEF RoomInv, RoomTypes, LoopTypes, State
  <1>2. st' = UpdatePhase(marked, "cancelled")
    BY DEF CancelOwn
  <1> HIDE DEF marked
  <1>3. st' \in State /\ (st.phase \in Terminal => st'.phase = st.phase)
    BY <1>1, <1>2, PhaseUpdates
  <1>4. st.phase \notin Terminal => st'.phase = "cancelled"
    BY <1>1, <1>2 DEF UpdatePhase, State, Terminal
  <1>5. row' \in Row
    BY <1>3 DEF CancelOwn, Row, Phases, Terminal
  <1>6. LoopTypes' /\ TurnTypes' /\ PromptTypes'
    BY <1>3 DEF RoomInv, RoomTypes, LoopTypes, TurnTypes, PromptTypes, CancelOwn
  <1>7. RoomTypes'
    BY <1>5, <1>6 DEF RoomInv, RoomTypes, CancelOwn, Row
  <1>8. Turned' /\ OwnCancelHolds'
    BY <1>3, <1>4 DEF RoomInv, Turned, OwnCancelHolds, CancelOwn, Open, Taking, Terminal
  <1> QED
    BY <1>7, <1>8 DEF RoomInv

\* What a request loads and keeps is a state of the room.
LEMMA RequestStep ==
    ASSUME RoomInv, NEW q \in Requests, Load(q) \/ Served(q)
    PROVE  req' \in [Requests -> [kind : Kinds \cup {"none", "served"}, copy : State]]
  <1>1. /\ req \in [Requests -> [kind : Kinds \cup {"none", "served"}, copy : State]]
        /\ row.state \in State
    BY DEF RoomInv, RoomTypes
  <1>2. Fresh \in State
    BY DEF Fresh, State, Phases, Reviews
  <1>3. CASE Load(q)
    BY <1>1, <1>3 DEF Load
  <1>4. CASE Served(q)
    BY <1>1, <1>2, <1>4 DEF Served
  <1> QED
    BY <1>3, <1>4

LEMMA RequestsKeep ==
    ASSUME RoomInv, NEW q \in Requests,
           Load(q) \/ CancelLoaded(q) \/ Inject(q) \/ ResolveIssue(q)
    PROVE  RoomInv'
  <1>1. req[q].copy \in State
    BY DEF RoomInv, RoomTypes
  <1>2. req' \in [Requests -> [kind : Kinds \cup {"none", "served"}, copy : State]]
    BY RequestStep DEF CancelLoaded, Inject, ResolveIssue
  <1>3. row' \in Row
    <2>1. CASE Load(q)
      BY <2>1 DEF Load, RoomInv, RoomTypes, Row
    <2>2. CASE CancelLoaded(q)
      <3>1. [req[q].copy EXCEPT !.cancel = TRUE] \in State
        BY <1>1 DEF State
      <3>2. UpdatePhase([req[q].copy EXCEPT !.cancel = TRUE], "cancelled") \in State
        BY <3>1, PhaseUpdates
      <3> QED
        BY <2>2, <3>2 DEF CancelLoaded, Row, Phases, Terminal
    <2>3. CASE Inject(q)
      BY <1>1, <2>3, SavedIsARow DEF Inject, RoomInv
    <2>4. CASE ResolveIssue(q)
      <3>1. [req[q].copy EXCEPT !.blocked = FALSE] \in State
        BY <1>1 DEF State
      <3> QED
        BY <2>4, <3>1, SavedIsARow DEF ResolveIssue, RoomInv
    <2> QED
      BY <2>1, <2>2, <2>3, <2>4
  <1>4. UNCHANGED <<driver, required, loopVars>>
    BY DEF Load, CancelLoaded, Inject, ResolveIssue
  <1>5. Grown(unread, unread')
    BY DeliveryStep, NothingGrows
       DEF RoomInv, RoomTypes, PromptTypes, Load, CancelLoaded, Inject, ResolveIssue
  <1>6. asked' \in {"no", "own", "api"} /\ (asked' = "own" <=> asked = "own")
    BY DEF RoomInv, RoomTypes, Load, CancelLoaded, Inject, ResolveIssue
  <1>7. PromptTypes'
    BY <1>4, <1>5, ArrivalKeepsPrompt DEF loopVars
  <1>8. LoopTypes' /\ TurnTypes'
    BY <1>4 DEF RoomInv, RoomTypes, LoopTypes, TurnTypes, loopVars
  <1>9. RoomTypes'
    BY <1>2, <1>3, <1>4, <1>6, <1>7, <1>8 DEF RoomInv, RoomTypes, Row
  <1>10. Turned' /\ OwnCancelHolds'
    BY <1>4, <1>6 DEF RoomInv, Turned, OwnCancelHolds, loopVars, Taking
  <1> QED
    BY <1>9, <1>10 DEF RoomInv

LEMMA RoomStands ==
    ASSUME RoomInv, UNCHANGED roomVars
    PROVE  RoomInv'
  <1>1. RoomTypes'
    <2>1. LoopTypes' /\ TurnTypes'
      BY DEF RoomInv, RoomTypes, LoopTypes, TurnTypes, roomVars, loopVars
    <2>2. PromptTypes'
      BY DEF RoomInv, RoomTypes, PromptTypes, roomVars, loopVars
    <2> QED
      BY <2>1, <2>2 DEF RoomInv, RoomTypes, roomVars
  <1>2. Turned' /\ OwnCancelHolds'
    BY DEF RoomInv, Turned, OwnCancelHolds, Taking, roomVars, loopVars
  <1> QED
    BY <1>1, <1>2 DEF RoomInv

LEMMA RoomBegins == RoomInit => RoomInv
  <1> SUFFICES ASSUME RoomInit PROVE RoomInv
    OBVIOUS
  <1>1. Fresh \in State /\ Fresh.phase = "created"
    BY DEF Fresh, State, Phases, Reviews
  <1>2. 0 \in 0 .. MaxRounds
    BY TeamAssumption
  <1>3. LoopTypes
    BY <1>1, <1>2 DEF RoomInit, LoopTypes
  <1>4. TurnTypes /\ PromptTypes
    <2>1. << >> \in Seq(Action) /\ << >> \in Seq({"ask", "act", "info"})
      OBVIOUS
    <2>2. TurnTypes
      <3>1. turn = << >> /\ next = 1 /\ pc = "new"
        BY DEF RoomInit
      <3>2. turn \in Seq(Action) /\ next \in Nat \ {0}
        BY <2>1, <3>1
      <3> QED
        BY <3>1, <3>2 DEF TurnTypes
    <2>3. PromptTypes
      BY <2>1 DEF RoomInit, PromptTypes
    <2> QED
      BY <2>2, <2>3
  <1>5. row \in [state : State, status : Phases, terminated : BOOLEAN]
    BY <1>1 DEF RoomInit, Phases
  <1>6. req \in [Requests -> [kind : Kinds \cup {"none", "served"}, copy : State]]
    BY <1>1 DEF RoomInit
  <1>7. RoomTypes
    BY <1>3, <1>4, <1>5, <1>6 DEF RoomInit, RoomTypes
  <1>8. Turned /\ OwnCancelHolds
    BY DEF RoomInit, Turned, OwnCancelHolds, Taking
  <1> QED
    BY <1>7, <1>8 DEF RoomInv

\* Every step keeps the room in a state its code can be in.
LEMMA RoomGoesOn ==
    ASSUME RoomInv, [RoomNext]_roomVars
    PROVE  RoomInv'
  <1>1. CASE Runner
    BY <1>1, StartRoomKeeps, StopKeeps, SelectKeeps, ThinkKeeps, PublishKeeps, ProcessKeeps,
       HandlerRaisesKeeps, DecideKeeps, RecheckKeeps, FinishKeeps DEF Runner
  <1>2. CASE CancelOwn
    BY <1>2, CancelOwnKeeps
  <1>3. CASE \E q \in Requests : Load(q) \/ CancelLoaded(q) \/ Inject(q) \/ ResolveIssue(q)
    BY <1>3, RequestsKeep
  <1>4. CASE UNCHANGED roomVars
    BY <1>4, RoomStands
  <1> QED
    BY <1>1, <1>2, <1>3, <1>4 DEF RoomNext

THEOREM RoomInvariant == RoomSpec => []RoomInv
  BY RoomBegins, RoomGoesOn, PTL DEF RoomSpec

\* A cancellation through the room's own runner is what the run is reported to have
\* ended with, wherever in a round it came and whatever the agents answer, for every
\* team, every set of answers and requests and every budget (RoomSafety; team_runner.py
\* cancel, state.py update_phase).
THEOREM CancelledRoomsAreReported == RoomSpec => []RoomSafety
  <1>1. RoomInv => RoomSafety
    BY DEF RoomInv, RoomSafety
  <1> QED
    BY <1>1, RoomInvariant, PTL

\* A result is written in the Finalizer's turn only and a review passes only in the
\* reviewer's, whatever types of message the others send (DoneByItsRole;
\* round_executor.py handlers).
THEOREM RolesWriteResults == RoomSpec => DoneByItsRole
  <1> DEFINE Role == /\ st'.final /\ ~st.final => speaker = "Finalizer"
                     /\ st'.review = "passed" /\ st.review # "passed" => speaker = "ReviewerAgent"
  <1>1. ASSUME RoomInv, [RoomNext]_roomVars PROVE [Role]_roomVars
    <2>1. st \in State
      BY <1>1 DEF RoomInv, RoomTypes, LoopTypes
    <2>2. CASE Process
      <3>1. st' = Applied(speaker, turn[next], st)
        BY <2>2 DEF Process
      <3>2. ActionKeeps(speaker, st, st')
        BY <2>1, <3>1, AppliedStep
      <3> QED
        BY <3>2 DEF ActionKeeps
    <2>3. CASE HandlerRaises
      BY <2>1, <2>3, FailedStep DEF HandlerRaises
    <2>4. CASE StartRoom \/ Stop
      BY <2>1, <2>4, PhaseUpdates DEF StartRoom, Stop
    <2>5. CASE Decide
      BY <2>1, <2>5, PhaseUpdates DEF Decide
    <2>6. CASE CancelOwn
      <3> DEFINE marked == [st EXCEPT !.cancel = TRUE]
      <3>1. marked \in State /\ marked.final = st.final /\ marked.review = st.review
        BY <2>1 DEF State
      <3>2. st' = UpdatePhase(marked, "cancelled")
        BY <2>6 DEF CancelOwn
      <3> HIDE DEF marked
      <3> QED
        BY <3>1, <3>2, PhaseUpdates
    <2>7. CASE Select \/ Think \/ Publish \/ Recheck \/ Finish
      BY <2>7 DEF Select, Think, Publish, Recheck, Finish
    <2>8. CASE \E q \in Requests : Load(q) \/ CancelLoaded(q) \/ Inject(q) \/ ResolveIssue(q)
      BY <2>8 DEF Load, CancelLoaded, Inject, ResolveIssue, loopVars
    <2>9. CASE UNCHANGED roomVars
      BY <2>9
    <2> QED
      BY <1>1, <2>2, <2>3, <2>4, <2>5, <2>6, <2>7, <2>8, <2>9 DEF RoomNext, Runner
  <1> QED
    BY <1>1, RoomInvariant, PTL DEF RoomSpec, DoneByItsRole

\* No unread message leaves an inbox unless the prompt of that agent's round showed it:
\* what arrives while the model thinks stays unread (OnlyShownIsRead; round_executor.py
\* execute_round, inbox.py mark_read).
THEOREM UnshownStaysUnread == RoomSpec => OnlyShownIsRead
  <1> DEFINE Kept == \A a \in Agents :
                        \/ Len(unread[a]) <= Len(unread'[a])
                        \/ a = speaker /\ Len(unread[a]) - Len(unread'[a]) = seen
  <1>1. ASSUME RoomInv, [RoomNext]_roomVars PROVE [Kept]_roomVars
    <2>1. unread \in [Agents -> Seq({"ask", "act", "info"})]
      BY <1>1 DEF RoomInv, RoomTypes, PromptTypes
    <2>2. Grown(unread, unread') => Kept
      BY DEF Grown
    <2>3. CASE Decide
      <3>1. unread' = [unread EXCEPT ![speaker] = Acked(unread[speaker], seen)]
        BY <2>3 DEF Decide
      <3>2. Len(unread[speaker]) - Len(Acked(unread[speaker], seen)) = seen
        BY <1>1, <2>3, AckStep DEF Decide
      <3>3. \A a \in Agents : Len(unread[a]) \in Nat
        <4> SUFFICES ASSUME NEW a \in Agents PROVE Len(unread[a]) \in Nat
          OBVIOUS
        <4>1. unread[a] \in Seq({"ask", "act", "info"})
          BY <2>1
        <4> QED
          BY <4>1
      <3>4. \A n \in Nat : n <= n
        OBVIOUS
      <3>5. ASSUME NEW a \in Agents, a # speaker
            PROVE  Len(unread[a]) <= Len(unread'[a])
        <4>1. unread'[a] = unread[a]
          BY <2>1, <3>1, <3>5
        <4> QED
          BY <3>3, <3>4, <4>1
      <3>6. ASSUME NEW a \in Agents, a = speaker
            PROVE  Len(unread[a]) - Len(unread'[a]) = seen
        <4>1. unread'[a] = Acked(unread[speaker], seen)
          BY <2>1, <3>1, <3>6
        <4> QED
          BY <3>2, <3>6, <4>1
      <3> QED
        BY <3>5, <3>6
    <2>4. CASE StartRoom \/ Publish \/ Process
      <3>1. Grown(unread, unread')
        BY <2>1, <2>4, DeliveryStep, NothingGrows DEF StartRoom, Publish, Process
      <3> QED
        BY <2>2, <3>1
    <2>5. CASE \/ Stop \/ Select \/ Think \/ HandlerRaises \/ Recheck \/ Finish \/ CancelOwn
               \/ \E q \in Requests : Load(q) \/ CancelLoaded(q) \/ Inject(q) \/ ResolveIssue(q)
      <3>1. Grown(unread, unread')
        BY <2>1, <2>5, DeliveryStep, NothingGrows
           DEF Stop, Select, Think, HandlerRaises, Recheck, Finish, CancelOwn,
               Load, CancelLoaded, Inject, ResolveIssue
      <3> QED
        BY <2>2, <3>1
    <2>6. CASE UNCHANGED roomVars
      BY <2>6
    <2> QED
      BY <1>1, <2>3, <2>4, <2>5, <2>6 DEF RoomNext, Runner
  <1> QED
    BY <1>1, RoomInvariant, PTL DEF RoomSpec, OnlyShownIsRead

=============================================================================
