--------------------------- MODULE RootGraphProofs ---------------------------
(***************************************************************************)
(* Proofs about the governed run graph, for every set of tasks, every      *)
(* dependency relation, every repair budget and every recursion limit.     *)
(***************************************************************************)
EXTENDS RootGraph, TLAPS

-----------------------------------------------------------------------------
(* The inductive invariant *)

\* From registration until the plan is dropped, the graph's plan is the board's.
Registration ==
    /\ node \in {"collect", "verify", "judging", "repair", "human_interrupt",
                 "waiting", "finalize"} => matches
    /\ node \in {"collect", "verify", "judging", "finalize"} => plan = DOMAIN current

\* The counter of the checkpoint and the records of the board agree, but for
\* crashes; a plan that is still the first one has not been repaired.
Counting ==
    /\ \A t \in Tasks : rounds[t] <= MaxRepairRounds
    /\ matches => \A t \in Tasks : made[t] <= rounds[t] + crashes
    /\ original => \A t \in Tasks : made[t] = 0
    /\ RepairBudget

\* A replan that verification asked for found room in the global budget.
Rounds ==
    /\ node = "replan" /\ cause = "verify" => repairRound < GlobalLimit
    /\ RoundsBounded

\* Super-steps an invocation may have taken on arrival at a node, not counting
\* the rounds it has begun.
Cost ==
    CASE node = "intake" -> 0
      [] node = "complexity_router" -> 1
      [] node \in {"single_plan", "team_supervisor"} -> 2
      [] node = "build_team" /\ ~error -> 3
      [] node = "build_team" /\ error -> 8
      [] node = "dispatch" -> 4
      [] node = "collect" -> 5
      [] node \in {"verify", "judging"} -> 6
      [] node = "fail" -> 9
      [] node = "end" -> 10
      [] OTHER -> 7

Steps ==
    /\ startRound <= repairRound
    /\ steps <= Cost + 6 * (repairRound - startRound)

\* What the verifier saw stays true, unless a replan request overtakes it.
Seen ==
    /\ node \in {"judging", "finalize"} /\ ~overtaken
          => DOMAIN current # {} /\ AllSucceeded(current)
    /\ status = "succeeded" => node = "end"
    /\ SucceededRunsAreDone

IInv == TypeOK /\ Registration /\ Counting /\ Rounds /\ Steps /\ Seen

-----------------------------------------------------------------------------
(* Lemmas about boards *)

\* A board is a function from a set of tasks to statuses.
LEMMA BoardType ==
    ASSUME NEW P \in SUBSET Tasks, NEW b \in [P -> TaskStatus]
    PROVE  b \in Board /\ DOMAIN b = P
  BY DEF Board

\* ... and has no other members.
LEMMA BoardDomain ==
    ASSUME NEW b \in Board
    PROVE  DOMAIN b \in SUBSET Tasks /\ b \in [DOMAIN b -> TaskStatus]
  BY DEF Board

\* The board a registration produces.
LEMMA RegisteredType ==
    ASSUME TypeOK
    PROVE  /\ Registered \in Board
           /\ DOMAIN Registered \in SUBSET Tasks
           /\ Superseded \subseteq Steering \cup {"pending"}
           /\ Counted(rounds) \in [Tasks -> Nat]
           /\ Counted(made) \in [Tasks -> Nat]
  <1>1. [t \in plan |-> "pending"] \in Board
    BY BoardType DEF TypeOK, TaskStatus
  <1>2. Registered \in Board
    BY <1>1 DEF Registered, TypeOK
  <1>3. DOMAIN Registered \in SUBSET Tasks
    BY <1>2, BoardDomain
  <1> QED
    BY <1>2, <1>3 DEF Superseded, Kept, Counted, Zero, TypeOK

\* A scheduler run keeps the shape of the board.
LEMMA RanType ==
    ASSUME NEW b \in Board, NEW after \in Ran(b)
    PROVE  after \in Board
  <1>1. after \in [DOMAIN b -> TaskStatus]
    BY DEF Ran
  <1> QED
    BY <1>1, BoardDomain, BoardType

\* Superseded records that are still dispatched stay superseded.
LEMMA LeftBehindType ==
    ASSUME NEW s \in SUBSET (Steering \cup {"pending"}), NEW old \in LeftBehind(s)
    PROVE  old \subseteq Steering \cup {"pending"}
  BY DEF LeftBehind

\* Fresh repair records: they are counted, and they are not the first plan.
LEMMA CreateRepairsType ==
    ASSUME TypeOK, NEW ts \in SUBSET DOMAIN current, CreateRepairs(ts)
    PROVE  /\ current' \in Board
           /\ DOMAIN current' = DOMAIN current
           /\ leftover' \subseteq Steering \cup {"pending"}
           /\ original' = (original /\ ts = {})
           /\ original' \in BOOLEAN
           /\ made' \in [Tasks -> Nat]
           /\ \A t \in Tasks : made'[t] = IF t \in ts THEN made[t] + 1 ELSE made[t]
  <1>1. current' \in [DOMAIN current -> TaskStatus]
    BY BoardDomain DEF CreateRepairs, TypeOK, TaskStatus
  <1>2. current' \in Board /\ DOMAIN current' = DOMAIN current
    BY <1>1, BoardDomain, BoardType DEF TypeOK
  <1>3. leftover' \subseteq Steering \cup {"pending"}
    BY DEF CreateRepairs, Kept, TypeOK
  <1> QED
    BY <1>2, <1>3 DEF CreateRepairs, TypeOK

-----------------------------------------------------------------------------
(* One step *)

\* The flags stay Booleans.
LEMMA FlagStep ==
    ASSUME TypeOK, Next
    PROVE  error' \in BOOLEAN /\ matches' \in BOOLEAN /\ overtaken' \in BOOLEAN
  <1>1. CASE Intake
    BY <1>1, Zenon DEF Intake, TypeOK, Goto
  <1>2. CASE ComplexityRouter
    BY <1>2, Zenon DEF ComplexityRouter, TypeOK, Goto
  <1>3. CASE SinglePlan
    BY <1>3, Zenon DEF SinglePlan, TypeOK, Goto
  <1>4. CASE TeamSupervisor
    BY <1>4, Zenon DEF TeamSupervisor, TypeOK, Goto
  <1>5. CASE BuildTeam
    BY <1>5, Zenon DEF BuildTeam, TypeOK, Goto
  <1>6. CASE Dispatch
    BY <1>6, Zenon DEF Dispatch, TypeOK, Goto
  <1>7. CASE Collect
    BY <1>7, Zenon DEF Collect, TypeOK, Goto
  <1>8. CASE VerifyReads
    BY <1>8, Zenon DEF VerifyReads, TypeOK, Goto
  <1>9. CASE Judge
    BY <1>9, Zenon DEF Judge, TypeOK, Goto
  <1>10. CASE Repair
    BY <1>10, Zenon DEF Repair, TypeOK, Goto
  <1>11. CASE Replan
    BY <1>11, Zenon DEF Replan, TypeOK, Goto
  <1>12. CASE HumanInterrupt
    BY <1>12, Zenon DEF HumanInterrupt, TypeOK, Goto
  <1>13. CASE Finalize
    BY <1>13, Zenon DEF Finalize, TypeOK, Goto
  <1>14. CASE Fail
    BY <1>14, Zenon DEF Fail, TypeOK, Goto
  <1>15. CASE RecursionError
    BY <1>15, Zenon DEF RecursionError, TypeOK, Goto
  <1>16. CASE HumanAnswers
    BY <1>16, Zenon DEF HumanAnswers, TypeOK, Goto
  <1>17. CASE RequestReplan
    BY <1>17, Zenon DEF RequestReplan, TypeOK, Goto
  <1>18. CASE Crash
    BY <1>18, Zenon DEF Crash, TypeOK, Goto
  <1> QED
    BY <1>1, <1>2, <1>3, <1>4, <1>5, <1>6, <1>7, <1>8, <1>9,
       <1>10, <1>11, <1>12, <1>13, <1>14, <1>15, <1>16, <1>17, <1>18
    DEF Next, Advance

\* Every action keeps the types.
LEMMA TypeStep ==
    ASSUME TypeOK, Next
    PROVE  TypeOK'
  <1>1. CASE Intake
    BY <1>1 DEF TypeOK, Goto, Node, vars, boardVars, counters, bounds, Intake
  <1>2. CASE ComplexityRouter
    BY <1>2 DEF TypeOK, Goto, Node, vars, boardVars, counters, bounds, ComplexityRouter
  <1>3. CASE SinglePlan
    BY <1>3, FlagStep DEF TypeOK, Goto, Node, vars, boardVars, counters, bounds, SinglePlan
  <1>4. CASE TeamSupervisor
    <2>1. /\ plan' \in SUBSET Tasks
          /\ Goto("team_supervisor", "build_team")
          /\ status' \in {status, "failed"}
          /\ UNCHANGED <<boardVars, counters, startRound, cause, overtaken, bounds>>
      BY <1>4, Zenon DEF TeamSupervisor, Plans, TypeOK
    <2> QED
      BY <2>1, FlagStep DEF TypeOK, Goto, Node, boardVars, counters, bounds
  <1>5. CASE BuildTeam
    BY <1>5, FlagStep DEF TypeOK, Goto, Node, vars, boardVars, counters, bounds, BuildTeam
  <1>6. CASE Dispatch
    <2>1. PICK after \in Ran(Registered), old \in LeftBehind(Superseded) :
             \E outcome \in Outcomes(after, old) :
                /\ Goto("dispatch",
                        RouteAfterDispatch(outcome, Statuses(after) \cup old))
                /\ current' = after
                /\ leftover' = old
                /\ error' = (outcome # "completed")
      BY <1>6 DEF Dispatch
    <2>2. current' \in Board /\ DOMAIN current' \in SUBSET Tasks
      BY <2>1, RegisteredType, RanType, BoardDomain
    <2>3. leftover' \subseteq Steering \cup {"pending"}
      BY <2>1, RegisteredType, LeftBehindType
    <2>4. node' \in Node /\ steps' \in Nat /\ error' \in BOOLEAN
      BY <2>1 DEF RouteAfterDispatch, Goto, Node, TypeOK
    <2>5. rounds' \in [Tasks -> Nat] /\ made' \in [Tasks -> Nat]
      BY <1>6, RegisteredType DEF Dispatch
    <2> QED
      BY <1>6, <2>2, <2>3, <2>4, <2>5 DEF Dispatch, Renamed, TypeOK, bounds
  <1>7. CASE Collect
    BY <1>7 DEF TypeOK, Goto, Node, vars, boardVars, counters, bounds, Collect
  <1>8. CASE VerifyReads
    BY <1>8, FlagStep DEF TypeOK, Goto, Node, vars, boardVars, counters, bounds, VerifyReads
  <1>9. CASE Judge
    BY <1>9, FlagStep DEF Judge, RouteAfterVerify, TypeOK, Node, boardVars, counters, bounds
  <1>10. CASE Repair
    <2>1. CASE repairRound < GlobalLimit /\ Eligible # {}
      <3>1. CreateRepairs(Eligible) /\ Eligible \subseteq DOMAIN current
        BY <1>10, <2>1 DEF Repair, Eligible, Candidates, Broken, Leaves
      <3> QED
        BY <1>10, <2>1, <3>1, CreateRepairsType, FlagStep
           DEF Repair, TypeOK, Goto, Node, bounds
    <2>2. CASE ~(repairRound < GlobalLimit /\ Eligible # {})
      BY <1>10, <2>2, FlagStep DEF Repair, TypeOK, Goto, Node, boardVars, bounds
    <2> QED
      BY <2>1, <2>2
  <1>11. CASE Replan
    BY <1>11, FlagStep DEF Replan, Zero, TypeOK, Goto, Node, boardVars, bounds
  <1>12. CASE HumanInterrupt
    BY <1>12 DEF TypeOK, Goto, Node, vars, boardVars, counters, bounds, HumanInterrupt
  <1>13. CASE Finalize
    BY <1>13, FlagStep DEF TypeOK, Goto, Node, vars, boardVars, counters, bounds, Finalize
  <1>14. CASE Fail
    BY <1>14 DEF TypeOK, Goto, Node, vars, boardVars, counters, bounds, Fail
  <1>15. CASE RecursionError
    BY <1>15 DEF TypeOK, Goto, Node, vars, boardVars, counters, bounds, RecursionError
  <1>16. CASE HumanAnswers
    <2>1. current' \in Board
      <3>1. current' = current \/ current' \in [DOMAIN current -> TaskStatus]
        BY <1>16, BoardDomain DEF HumanAnswers, TypeOK, TaskStatus
      <3> QED
        BY <3>1, BoardDomain, BoardType DEF TypeOK
    <2> QED
      BY <1>16, <2>1, FlagStep DEF HumanAnswers, Invoked, TypeOK, Node, counters
  <1>17. CASE RequestReplan
    <2>1. current' \in [DOMAIN current -> TaskStatus]
      BY <1>17, BoardDomain DEF RequestReplan, TypeOK, TaskStatus
    <2>2. current' \in Board
      BY <2>1, BoardDomain, BoardType DEF TypeOK
    <2> QED
      BY <1>17, <2>2 DEF RequestReplan, TypeOK, counters
  <1>18. CASE Crash
    <2>1. /\ current' \in Board
          /\ leftover' \subseteq Steering \cup {"pending"}
          /\ original' \in BOOLEAN
          /\ matches' \in BOOLEAN
          /\ made' \in [Tasks -> Nat]
          /\ rounds' \in [Tasks -> Nat]
      <3>1. CASE /\ node = "dispatch"
                 /\ current' \in Ran(Registered)
                 /\ leftover' \in LeftBehind(Superseded)
                 /\ original' = ~Renamed
                 /\ made' = Counted(made)
                 /\ rounds' = Counted(rounds)
                 /\ matches' \in BOOLEAN
        BY <3>1, RegisteredType, RanType, LeftBehindType DEF Renamed, TypeOK
      <3>2. CASE /\ node = "repair"
                 /\ repairRound < GlobalLimit
                 /\ \E ts \in SUBSET Eligible : CreateRepairs(ts)
                 /\ UNCHANGED <<matches, rounds>>
        <4>1. Eligible \subseteq DOMAIN current
          BY DEF Eligible, Candidates, Broken, Leaves
        <4> QED
          BY <3>2, <4>1, CreateRepairsType DEF TypeOK
      <3>3. CASE node # "dispatch" /\ UNCHANGED <<boardVars, matches, rounds>>
        BY <3>3 DEF boardVars, TypeOK
      <3> QED
        BY <1>18, <3>1, <3>2, <3>3 DEF Crash
    <2> QED
      BY <1>18, <2>1 DEF Crash, Invoked, TypeOK, Node
  <1> QED
    BY <1>1, <1>2, <1>3, <1>4, <1>5, <1>6, <1>7, <1>8, <1>9,
       <1>10, <1>11, <1>12, <1>13, <1>14, <1>15, <1>16, <1>17, <1>18
    DEF Next, Advance

\* The graph's plan and the board's plan stay the same where they must.
LEMMA RegistrationStep ==
    ASSUME TypeOK, Registration, Next
    PROVE  Registration'
  <1>1. CASE Intake
    BY <1>1 DEF Intake, Registration, Goto, boardVars
  <1>2. CASE ComplexityRouter
    BY <1>2 DEF ComplexityRouter, Registration, Goto, boardVars
  <1>3. CASE SinglePlan
    BY <1>3 DEF SinglePlan, Registration, Goto, boardVars
  <1>4. CASE TeamSupervisor
    <2>1. node' = "build_team"
      BY <1>4 DEF TeamSupervisor, Goto
    <2> QED
      BY <2>1 DEF Registration
  <1>5. CASE BuildTeam
    BY <1>5 DEF BuildTeam, Registration, Goto, boardVars
  <1>6. CASE Dispatch
    <2>1. node' \in {"collect", "repair", "replan", "human_interrupt", "fail"}
      BY <1>6 DEF Dispatch, Goto, RouteAfterDispatch
    <2> QED
      BY <1>6, <2>1, Zenon DEF Dispatch, Registration
  <1>7. CASE Collect
    BY <1>7 DEF Collect, Registration, Goto, boardVars
  <1>8. CASE VerifyReads
    BY <1>8 DEF VerifyReads, Registration, Goto, boardVars
  <1>9. CASE Judge
    BY <1>9 DEF Judge, Registration, RouteAfterVerify, boardVars
  <1>10. CASE Repair
    <2>1. node' = "build_team"
      BY <1>10 DEF Repair, Goto
    <2> QED
      BY <2>1 DEF Registration
  <1>11. CASE Replan
    BY <1>11 DEF Replan, Registration, Goto, boardVars
  <1>12. CASE HumanInterrupt
    BY <1>12 DEF HumanInterrupt, Registration, Goto, boardVars
  <1>13. CASE Finalize
    BY <1>13 DEF Finalize, Registration, Goto, boardVars
  <1>14. CASE Fail
    BY <1>14 DEF Fail, Registration, Goto, boardVars
  <1>15. CASE RecursionError
    BY <1>15 DEF RecursionError, Registration, Goto, boardVars
  <1>16. CASE HumanAnswers
    BY <1>16 DEF HumanAnswers, Registration, Goto, boardVars
  <1>17. CASE RequestReplan
    <2>1. DOMAIN current' = DOMAIN current
      BY <1>17 DEF RequestReplan
    <2> QED
      BY <1>17, <2>1 DEF RequestReplan, Registration
  <1>18. CASE Crash
    <2>1. node' = IF node = "judging" THEN "verify" ELSE node
      BY <1>18 DEF Crash
    <2>2. node # "dispatch" => matches' = matches
      BY <1>18, Zenon DEF Crash
    <2>3. node \in {"collect", "verify", "judging", "finalize"}
             => plan' = plan /\ current' = current
      BY <1>18 DEF Crash, boardVars
    <2> QED
      BY <1>18, <2>1, <2>2, <2>3 DEF Crash, Registration
  <1> QED
    BY <1>1, <1>2, <1>3, <1>4, <1>5, <1>6, <1>7, <1>8, <1>9,
       <1>10, <1>11, <1>12, <1>13, <1>14, <1>15, <1>16, <1>17, <1>18
    DEF Next, Advance

\* The global budget is kept.
LEMMA RoundsStep ==
    ASSUME TypeOK, Rounds, Next
    PROVE  Rounds'
  <1>1. CASE Intake
    BY <1>1 DEF Intake, Rounds, RoundsBounded, TypeOK, GlobalLimit, Goto, counters
  <1>2. CASE ComplexityRouter
    BY <1>2 DEF ComplexityRouter, Rounds, RoundsBounded, TypeOK, GlobalLimit, Goto, counters
  <1>3. CASE SinglePlan
    BY <1>3 DEF SinglePlan, Rounds, RoundsBounded, TypeOK, GlobalLimit, Goto, counters
  <1>4. CASE TeamSupervisor
    <2>1. node' = "build_team" /\ UNCHANGED <<repairRound, replans>>
      BY <1>4 DEF TeamSupervisor, Goto, counters
    <2> QED
      BY <2>1 DEF Rounds, RoundsBounded, GlobalLimit
  <1>5. CASE BuildTeam
    BY <1>5 DEF BuildTeam, Rounds, RoundsBounded, TypeOK, GlobalLimit, Goto, counters
  <1>6. CASE Dispatch
    <2>1. node' \in {"collect", "repair", "replan", "human_interrupt", "fail"}
      BY <1>6 DEF Dispatch, Goto, RouteAfterDispatch
    <2>2. cause' = "dispatch" /\ UNCHANGED <<repairRound, replans>>
      BY <1>6 DEF Dispatch
    <2> QED
      BY <2>1, <2>2 DEF Rounds, RoundsBounded, GlobalLimit
  <1>7. CASE Collect
    BY <1>7 DEF Collect, Rounds, RoundsBounded, TypeOK, GlobalLimit, Goto, counters
  <1>8. CASE VerifyReads
    BY <1>8 DEF VerifyReads, Rounds, RoundsBounded, TypeOK, GlobalLimit, Goto, counters
  <1>9. CASE Judge
    BY <1>9 DEF Judge, RouteAfterVerify, Rounds, RoundsBounded, GlobalLimit, counters
  <1>10. CASE Repair
    <2>1. /\ node' = "build_team"
          /\ UNCHANGED replans
          /\ repairRound' = repairRound \/ (repairRound < GlobalLimit /\ repairRound' = repairRound + 1)
      BY <1>10 DEF Repair, Goto
    <2> QED
      BY <2>1, RootGraphAssumption DEF Rounds, RoundsBounded, GlobalLimit, TypeOK
  <1>11. CASE Replan
    BY <1>11, RootGraphAssumption DEF Replan, Rounds, RoundsBounded, GlobalLimit, TypeOK, Goto
  <1>12. CASE HumanInterrupt
    BY <1>12 DEF HumanInterrupt, Rounds, RoundsBounded, TypeOK, GlobalLimit, Goto, counters
  <1>13. CASE Finalize
    BY <1>13 DEF Finalize, Rounds, RoundsBounded, TypeOK, GlobalLimit, Goto, counters
  <1>14. CASE Fail
    BY <1>14 DEF Fail, Rounds, RoundsBounded, TypeOK, GlobalLimit, Goto, counters
  <1>15. CASE RecursionError
    BY <1>15 DEF RecursionError, Rounds, RoundsBounded, TypeOK, GlobalLimit, Goto, counters
  <1>16. CASE HumanAnswers
    BY <1>16 DEF HumanAnswers, Rounds, RoundsBounded, TypeOK, GlobalLimit, Goto, counters
  <1>17. CASE RequestReplan
    BY <1>17 DEF RequestReplan, Rounds, RoundsBounded, TypeOK, GlobalLimit, Goto, counters
  <1>18. CASE Crash
    <2>1. /\ UNCHANGED <<repairRound, replans, cause>>
          /\ node' = node \/ node' = "verify"
      BY <1>18 DEF Crash
    <2> QED
      BY <2>1 DEF Rounds, RoundsBounded, GlobalLimit
  <1> QED
    BY <1>1, <1>2, <1>3, <1>4, <1>5, <1>6, <1>7, <1>8, <1>9,
       <1>10, <1>11, <1>12, <1>13, <1>14, <1>15, <1>16, <1>17, <1>18
    DEF Next, Advance

\* Every super-step is paid for on arrival.
LEMMA StepsStep ==
    ASSUME TypeOK, Steps, Next
    PROVE  Steps'
  <1>1. CASE Intake
    BY <1>1 DEF Intake, Steps, Cost, TypeOK, Goto, counters
  <1>2. CASE ComplexityRouter
    BY <1>2 DEF ComplexityRouter, Steps, Cost, TypeOK, Goto, counters
  <1>3. CASE SinglePlan
    BY <1>3 DEF SinglePlan, Steps, Cost, TypeOK, Goto, counters
  <1>4. CASE TeamSupervisor
    <2>1. /\ node = "team_supervisor" /\ node' = "build_team" /\ steps' = steps + 1
          /\ UNCHANGED <<repairRound, startRound>>
      BY <1>4 DEF TeamSupervisor, Goto, counters
    <2> QED
      BY <2>1, FlagStep DEF Steps, Cost, TypeOK
  <1>5. CASE BuildTeam
    BY <1>5 DEF BuildTeam, Steps, Cost, TypeOK, Goto, counters
  <1>6. CASE Dispatch
    <2>1. node' \in {"collect", "repair", "replan", "human_interrupt", "fail"}
      BY <1>6 DEF Dispatch, Goto, RouteAfterDispatch
    <2>2. steps' = steps + 1 /\ node = "dispatch" /\ UNCHANGED <<repairRound, startRound>>
      BY <1>6 DEF Dispatch, Goto
    <2> QED
      BY <2>1, <2>2 DEF Steps, Cost, TypeOK
  <1>7. CASE Collect
    BY <1>7 DEF Collect, Steps, Cost, TypeOK, Goto, counters
  <1>8. CASE VerifyReads
    BY <1>8 DEF VerifyReads, Steps, Cost, TypeOK, Goto, counters
  <1>9. CASE Judge
    <2>1. /\ node = "judging" /\ steps' = steps + 1
          /\ node' \in {"finalize", "repair", "replan", "human_interrupt", "fail"}
          /\ UNCHANGED <<repairRound, startRound>>
      BY <1>9 DEF Judge, RouteAfterVerify, counters
    <2> QED
      BY <2>1 DEF Steps, Cost, TypeOK
  <1>10. CASE Repair
    <2>1. /\ node = "repair" /\ node' = "build_team" /\ steps' = steps + 1
          /\ UNCHANGED startRound
      BY <1>10 DEF Repair, Goto
    <2>2. \/ repairRound' = repairRound /\ error' = TRUE
          \/ repairRound' = repairRound + 1 /\ error' = FALSE
      BY <1>10, Zenon DEF Repair
    <2> QED
      BY <2>1, <2>2 DEF Steps, Cost, TypeOK
  <1>11. CASE Replan
    <2>1. /\ node = "replan" /\ node' = "team_supervisor" /\ steps' = steps + 1
          /\ repairRound' = repairRound + 1 /\ UNCHANGED startRound
      BY <1>11 DEF Replan, Goto
    <2> QED
      BY <2>1 DEF Steps, Cost, TypeOK
  <1>12. CASE HumanInterrupt
    BY <1>12 DEF HumanInterrupt, Steps, Cost, TypeOK, Goto, counters
  <1>13. CASE Finalize
    BY <1>13 DEF Finalize, Steps, Cost, TypeOK, Goto, counters
  <1>14. CASE Fail
    BY <1>14 DEF Fail, Steps, Cost, TypeOK, Goto, counters
  <1>15. CASE RecursionError
    BY <1>15 DEF RecursionError, Steps, Cost, TypeOK, Goto, counters
  <1>16. CASE HumanAnswers
    <2>1. /\ node' \in {"fail", "dispatch"} /\ steps' = 1
          /\ startRound' = repairRound /\ UNCHANGED repairRound
      BY <1>16 DEF HumanAnswers, Invoked, counters
    <2> QED
      BY <2>1 DEF Steps, Cost, TypeOK
  <1>17. CASE RequestReplan
    BY <1>17 DEF RequestReplan, Steps, Cost, TypeOK, Goto, counters
  <1>18. CASE Crash
    <2>1. steps' = 0 /\ startRound' = repairRound /\ UNCHANGED repairRound
      BY <1>18 DEF Crash, Invoked
    <2> QED
      BY <2>1 DEF Steps, Cost, TypeOK
  <1> QED
    BY <1>1, <1>2, <1>3, <1>4, <1>5, <1>6, <1>7, <1>8, <1>9,
       <1>10, <1>11, <1>12, <1>13, <1>14, <1>15, <1>16, <1>17, <1>18
    DEF Next, Advance

\* The repair budget of a task is kept.
LEMMA CountingStep ==
    ASSUME TypeOK, Registration, Counting, Next
    PROVE  Counting'
  <1>1. CASE Intake
    <2>1. UNCHANGED <<matches, original, made, rounds, crashes>>
      BY <1>1 DEF Intake, Goto, boardVars, counters, bounds
    <2> QED
      BY <2>1 DEF Counting, RepairBudget
  <1>2. CASE ComplexityRouter
    <2>1. UNCHANGED <<matches, original, made, rounds, crashes>>
      BY <1>2 DEF ComplexityRouter, Goto, boardVars, counters, bounds
    <2> QED
      BY <2>1 DEF Counting, RepairBudget
  <1>3. CASE SinglePlan
    <2>1. matches' = FALSE /\ UNCHANGED <<original, made, rounds, crashes>>
      BY <1>3 DEF SinglePlan, Goto, boardVars, counters, bounds
    <2> QED
      BY <2>1 DEF Counting, RepairBudget
  <1>4. CASE TeamSupervisor
    <2>1. UNCHANGED <<original, made, rounds, crashes>>
      <3>1. UNCHANGED <<boardVars, counters, bounds>>
        BY <1>4, Zenon DEF TeamSupervisor
      <3> QED
        BY <3>1 DEF boardVars, counters, bounds
    <2>2. matches' => matches \/ original
      BY <1>4, Zenon DEF TeamSupervisor
    <2>3. original => \A t \in Tasks : made[t] <= rounds[t] + crashes
      BY DEF Counting, TypeOK
    <2>4. matches' => \A t \in Tasks : made[t] <= rounds[t] + crashes
      BY <2>2, <2>3, Zenon DEF Counting
    <2> QED
      BY <2>1, <2>4 DEF Counting, RepairBudget
  <1>5. CASE BuildTeam
    <2>1. UNCHANGED <<matches, original, made, rounds, crashes>>
      BY <1>5 DEF BuildTeam, Goto, boardVars, counters, bounds
    <2> QED
      BY <2>1 DEF Counting, RepairBudget
  <1>6. CASE Dispatch
    <2>1. CASE matches
      <3>1. UNCHANGED <<made, rounds, crashes>>
        BY <1>6, <2>1 DEF Dispatch, Counted, bounds
      <3>2. original' = original
        BY <1>6, <2>1, Zenon DEF Dispatch, Renamed, TypeOK
      <3> QED
        BY <2>1, <3>1, <3>2 DEF Counting, RepairBudget
    <2>2. CASE ~matches
      <3>1. made' = Zero /\ rounds' = Zero /\ crashes' = crashes
        BY <1>6, <2>2 DEF Dispatch, Counted, bounds
      <3> QED
        BY <3>1, RootGraphAssumption DEF Counting, RepairBudget, Zero, TypeOK
    <2> QED
      BY <2>1, <2>2
  <1>7. CASE Collect
    <2>1. UNCHANGED <<matches, original, made, rounds, crashes>>
      BY <1>7 DEF Collect, Goto, boardVars, counters, bounds
    <2> QED
      BY <2>1 DEF Counting, RepairBudget
  <1>8. CASE VerifyReads
    <2>1. UNCHANGED <<matches, original, made, rounds, crashes>>
      BY <1>8 DEF VerifyReads, Goto, boardVars, counters, bounds
    <2> QED
      BY <2>1 DEF Counting, RepairBudget
  <1>9. CASE Judge
    <2>1. UNCHANGED <<matches, original, made, rounds, crashes>>
      BY <1>9 DEF Judge, Goto, boardVars, counters, bounds
    <2> QED
      BY <2>1 DEF Counting, RepairBudget
  <1>10. CASE Repair
    <2>1. matches /\ UNCHANGED <<matches, crashes>>
      BY <1>10 DEF Repair, Goto, Registration, bounds
    <2>2. CASE repairRound < GlobalLimit /\ Eligible # {}
      <3>1. CreateRepairs(Eligible) /\ Eligible \subseteq DOMAIN current
        BY <1>10, <2>2 DEF Repair, Eligible, Candidates, Broken, Leaves
      <3>2. \A t \in Tasks :
               /\ made'[t] = IF t \in Eligible THEN made[t] + 1 ELSE made[t]
               /\ rounds'[t] = IF t \in Eligible THEN rounds[t] + 1 ELSE rounds[t]
        BY <1>10, <2>2, <3>1, CreateRepairsType DEF Repair
      <3>3. \A t \in Tasks : t \in Eligible => rounds[t] < MaxRepairRounds
        BY DEF Eligible
      <3>4. \A t \in Tasks : made[t] <= rounds[t] + crashes /\ rounds[t] <= MaxRepairRounds
        BY <2>1 DEF Counting
      <3>5. \A t \in Tasks : /\ rounds'[t] <= MaxRepairRounds
                             /\ made'[t] <= rounds'[t] + crashes
                             /\ made'[t] <= MaxRepairRounds + crashes
        BY <3>2, <3>3, <3>4, RootGraphAssumption DEF TypeOK
      <3>6. ~original'
        BY <2>2, <3>1, CreateRepairsType
      <3> QED
        BY <2>1, <3>5, <3>6 DEF Counting, RepairBudget
    <2>3. CASE ~(repairRound < GlobalLimit /\ Eligible # {})
      <3>1. UNCHANGED <<original, made, rounds>>
        BY <1>10, <2>3 DEF Repair, boardVars
      <3> QED
        BY <2>1, <3>1 DEF Counting, RepairBudget
    <2> QED
      BY <2>2, <2>3
  <1>11. CASE Replan
    <2>1. matches' = FALSE /\ rounds' = Zero /\ UNCHANGED <<original, made, crashes>>
      BY <1>11 DEF Replan, boardVars, bounds
    <2> QED
      BY <2>1, RootGraphAssumption DEF Counting, RepairBudget, Zero
  <1>12. CASE HumanInterrupt
    <2>1. UNCHANGED <<matches, original, made, rounds, crashes>>
      BY <1>12 DEF HumanInterrupt, Goto, boardVars, counters, bounds
    <2> QED
      BY <2>1 DEF Counting, RepairBudget
  <1>13. CASE Finalize
    <2>1. UNCHANGED <<matches, original, made, rounds, crashes>>
      BY <1>13 DEF Finalize, Goto, boardVars, counters, bounds
    <2> QED
      BY <2>1 DEF Counting, RepairBudget
  <1>14. CASE Fail
    <2>1. UNCHANGED <<matches, original, made, rounds, crashes>>
      BY <1>14 DEF Fail, Goto, boardVars, counters, bounds
    <2> QED
      BY <2>1 DEF Counting, RepairBudget
  <1>15. CASE RecursionError
    <2>1. UNCHANGED <<matches, original, made, rounds, crashes>>
      BY <1>15 DEF RecursionError, Goto, boardVars, counters, bounds
    <2> QED
      BY <2>1 DEF Counting, RepairBudget
  <1>16. CASE HumanAnswers
    <2>1. UNCHANGED <<matches, original, made, rounds, crashes>>
      BY <1>16 DEF HumanAnswers, Goto, boardVars, counters, bounds
    <2> QED
      BY <2>1 DEF Counting, RepairBudget
  <1>17. CASE RequestReplan
    <2>1. UNCHANGED <<matches, original, made, rounds, crashes>>
      BY <1>17 DEF RequestReplan, Goto, boardVars, counters, bounds
    <2> QED
      BY <2>1 DEF Counting, RepairBudget
  <1>18. CASE Crash
    <2>0. crashes' = crashes + 1
      BY <1>18 DEF Crash
    <2>1. CASE /\ node = "dispatch"
               /\ original' = ~Renamed
               /\ made' = Counted(made)
               /\ rounds' = Counted(rounds)
      <3>1. CASE matches
        <4>1. made' = made /\ rounds' = rounds
          BY <2>1, <3>1 DEF Counted
        <4>2. original' = original
          BY <2>1, <3>1, Zenon DEF Renamed, TypeOK
        <4> QED
          BY <2>0, <3>1, <4>1, <4>2, RootGraphAssumption
             DEF Counting, RepairBudget, TypeOK
      <3>2. CASE ~matches
        <4>1. made' = Zero /\ rounds' = Zero
          BY <2>1, <3>2 DEF Counted
        <4> QED
          BY <2>0, <4>1, RootGraphAssumption DEF Counting, RepairBudget, Zero, TypeOK
      <3> QED
        BY <3>1, <3>2
    <2>2. CASE /\ node = "repair"
               /\ \E ts \in SUBSET Eligible : CreateRepairs(ts)
               /\ UNCHANGED <<matches, rounds>>
      <3>1. PICK ts \in SUBSET Eligible : CreateRepairs(ts)
        BY <2>2
      <3>2. ts \subseteq DOMAIN current
        BY DEF Eligible, Candidates, Broken, Leaves
      <3>3. /\ \A t \in Tasks : made'[t] = IF t \in ts THEN made[t] + 1 ELSE made[t]
            /\ original' = (original /\ ts = {})
        BY <3>1, <3>2, CreateRepairsType
      <3>4. \A t \in Tasks : made[t] <= rounds[t] + crashes /\ rounds[t] <= MaxRepairRounds
        BY <2>2 DEF Counting, Registration
      <3>5. \A t \in Tasks : /\ made'[t] <= rounds[t] + crashes'
                             /\ made'[t] <= MaxRepairRounds + crashes'
        BY <2>0, <3>3, <3>4, RootGraphAssumption DEF TypeOK
      <3>6. original' => \A t \in Tasks : made'[t] = 0
        <4>1. original' => original /\ ts = {}
          BY <3>3, Zenon
        <4>2. original => \A t \in Tasks : made[t] = 0
          BY Zenon DEF Counting
        <4>3. ts = {} => \A t \in Tasks : made'[t] = made[t]
          BY <3>3
        <4> QED
          BY <4>1, <4>2, <4>3
      <3> QED
        BY <2>2, <3>4, <3>5, <3>6 DEF Counting, RepairBudget
    <2>3. CASE UNCHANGED <<boardVars, matches, rounds>>
      <3>1. UNCHANGED <<matches, original, made, rounds>>
        BY <2>3 DEF boardVars
      <3> QED
        BY <2>0, <3>1, RootGraphAssumption DEF Counting, RepairBudget, TypeOK
    <2> QED
      BY <1>18, <2>1, <2>2, <2>3, Zenon DEF Crash
  <1> QED
    BY <1>1, <1>2, <1>3, <1>4, <1>5, <1>6, <1>7, <1>8, <1>9,
       <1>10, <1>11, <1>12, <1>13, <1>14, <1>15, <1>16, <1>17, <1>18
    DEF Next, Advance

\* The verifier's view stays right until somebody overtakes it.
LEMMA SeenStep ==
    ASSUME TypeOK, Registration, Seen, Next
    PROVE  Seen'
  <1>1. CASE Intake
    <2>1. /\ node' \notin {"judging", "finalize"}
          /\ node # "end"
          /\ status' \in {status, "running", "failed"}
      BY <1>1 DEF Intake, Goto
    <2> QED
      BY <2>1 DEF Seen, SucceededRunsAreDone
  <1>2. CASE ComplexityRouter
    <2>1. /\ node' \notin {"judging", "finalize"}
          /\ node # "end"
          /\ status' \in {status, "running", "failed"}
      BY <1>2 DEF ComplexityRouter, Goto
    <2> QED
      BY <2>1 DEF Seen, SucceededRunsAreDone
  <1>3. CASE SinglePlan
    <2>1. /\ node' \notin {"judging", "finalize"}
          /\ node # "end"
          /\ status' \in {status, "running", "failed"}
      BY <1>3 DEF SinglePlan, Goto
    <2> QED
      BY <2>1 DEF Seen, SucceededRunsAreDone
  <1>4. CASE TeamSupervisor
    <2>1. /\ node' \notin {"judging", "finalize"}
          /\ node # "end"
          /\ status' \in {status, "running", "failed"}
      BY <1>4 DEF TeamSupervisor, Goto
    <2> QED
      BY <2>1 DEF Seen, SucceededRunsAreDone
  <1>5. CASE BuildTeam
    <2>1. /\ node' \notin {"judging", "finalize"}
          /\ node # "end"
          /\ status' \in {status, "running", "failed"}
      BY <1>5 DEF BuildTeam, Goto
    <2> QED
      BY <2>1 DEF Seen, SucceededRunsAreDone
  <1>6. CASE Dispatch
    <2>1. node' \in {"collect", "repair", "replan", "human_interrupt", "fail"}
      BY <1>6 DEF Dispatch, Goto, RouteAfterDispatch
    <2>2. /\ node' \notin {"judging", "finalize"}
          /\ node # "end"
          /\ status' \in {status, "running", "failed"}
      BY <1>6, <2>1 DEF Dispatch, Goto
    <2> QED
      BY <2>2 DEF Seen, SucceededRunsAreDone
  <1>7. CASE Collect
    <2>1. /\ node' \notin {"judging", "finalize"}
          /\ node # "end"
          /\ status' \in {status, "running", "failed"}
      BY <1>7 DEF Collect, Goto
    <2> QED
      BY <2>1 DEF Seen, SucceededRunsAreDone
  <1>8. CASE VerifyReads
    <2>1. /\ node = "verify"
          /\ UNCHANGED <<status, current, overtaken>>
          /\ node' = "fail" \/ (node' = "judging" /\ DOMAIN current # {} /\ AllSucceeded(current))
      BY <1>8 DEF VerifyReads, Goto, boardVars
    <2> QED
      BY <2>1 DEF Seen, SucceededRunsAreDone, AllSucceeded
  <1>9. CASE Judge
    <2>1. node' # "judging" /\ node' # "end" /\ node = "judging"
      BY <1>9 DEF Judge, RouteAfterVerify
    <2>2. UNCHANGED <<status, current, overtaken>>
      BY <1>9 DEF Judge, boardVars
    <2> QED
      BY <2>1, <2>2 DEF Seen, SucceededRunsAreDone, AllSucceeded
  <1>10. CASE Repair
    <2>1. /\ node' \notin {"judging", "finalize"}
          /\ node # "end"
          /\ status' \in {status, "running", "failed"}
      BY <1>10 DEF Repair, Goto
    <2> QED
      BY <2>1 DEF Seen, SucceededRunsAreDone
  <1>11. CASE Replan
    <2>1. /\ node' \notin {"judging", "finalize"}
          /\ node # "end"
          /\ status' \in {status, "running", "failed"}
      BY <1>11 DEF Replan, Goto
    <2> QED
      BY <2>1 DEF Seen, SucceededRunsAreDone
  <1>12. CASE HumanInterrupt
    <2>1. /\ node' \notin {"judging", "finalize"}
          /\ node # "end"
          /\ status' \in {status, "running", "failed"}
      BY <1>12 DEF HumanInterrupt, Goto
    <2> QED
      BY <2>1 DEF Seen, SucceededRunsAreDone
  <1>13. CASE Finalize
    <2>1. node = "finalize" /\ node' = "end" /\ UNCHANGED <<plan, current, overtaken>>
      BY <1>13 DEF Finalize, Goto, boardVars
    <2>2. ~overtaken => plan # {} /\ AllSucceeded(current)
      BY <2>1 DEF Seen, Registration
    <2> QED
      BY <2>1, <2>2 DEF Seen, SucceededRunsAreDone, AllSucceeded
  <1>14. CASE Fail
    <2>1. /\ node' \notin {"judging", "finalize"}
          /\ node # "end"
          /\ status' \in {status, "running", "failed"}
      BY <1>14 DEF Fail, Goto
    <2> QED
      BY <2>1 DEF Seen, SucceededRunsAreDone
  <1>15. CASE RecursionError
    <2>1. /\ node' \notin {"judging", "finalize"}
          /\ node # "end"
          /\ status' \in {status, "running", "failed"}
      BY <1>15 DEF RecursionError, Goto
    <2> QED
      BY <2>1 DEF Seen, SucceededRunsAreDone
  <1>16. CASE HumanAnswers
    <2>1. /\ node' \notin {"judging", "finalize"}
          /\ node # "end"
          /\ status' \in {status, "running", "failed"}
      BY <1>16 DEF HumanAnswers, Goto
    <2> QED
      BY <2>1 DEF Seen, SucceededRunsAreDone
  <1>17. CASE RequestReplan
    <2>1. /\ node' = node /\ node # "end" /\ status' = status
          /\ node \in {"judging", "finalize"} => overtaken'
      BY <1>17, Zenon DEF RequestReplan
    <2> QED
      BY <2>1 DEF Seen, SucceededRunsAreDone
  <1>18. CASE Crash
    <2>1. /\ node # "end" /\ status' = status
          /\ node' # "end" /\ node' # "judging"
          /\ node' = "finalize" => node = "finalize"
      BY <1>18 DEF Crash
    <2>2. node = "finalize" => UNCHANGED <<current, overtaken>>
      BY <1>18 DEF Crash, boardVars
    <2> QED
      BY <2>1, <2>2 DEF Seen, SucceededRunsAreDone, AllSucceeded
  <1> QED
    BY <1>1, <1>2, <1>3, <1>4, <1>5, <1>6, <1>7, <1>8, <1>9,
       <1>10, <1>11, <1>12, <1>13, <1>14, <1>15, <1>16, <1>17, <1>18
    DEF Next, Advance

-----------------------------------------------------------------------------
(* The invariant and what follows from it *)

\* The graph starts with nothing planned, counted or seen.
LEMMA InitIInv == Init => IInv
<1> SUFFICES ASSUME Init PROVE IInv
  OBVIOUS
<1>1. TypeOK
  <2>1. [t \in {} |-> "pending"] \in [{} -> TaskStatus]
    BY DEF TaskStatus
  <2>2. current \in Board
    BY <2>1, BoardType DEF Init
  <2>3. /\ error \in BOOLEAN /\ matches \in BOOLEAN
        /\ original \in BOOLEAN /\ overtaken \in BOOLEAN
    BY Zenon DEF Init
  <2> QED
    BY <2>2, <2>3 DEF Init, TypeOK, Node, Zero
<1>2. Registration
  BY DEF Init, Registration
<1>3. Counting
  BY RootGraphAssumption DEF Init, Counting, RepairBudget, Zero
<1>4. Rounds
  BY RootGraphAssumption DEF Init, Rounds, RoundsBounded, GlobalLimit
<1>5. Steps
  BY DEF Init, Steps, Cost
<1>6. Seen
  BY DEF Init, Seen, SucceededRunsAreDone
<1> QED
  BY <1>1, <1>2, <1>3, <1>4, <1>5, <1>6 DEF IInv

\* One step of the graph, of a human or of a crash keeps it.
LEMMA NextIInv == IInv /\ [Next]_vars => IInv'
<1> SUFFICES ASSUME IInv, [Next]_vars PROVE IInv'
  OBVIOUS
<1>1. CASE Next
  BY <1>1, TypeStep, RegistrationStep, CountingStep, RoundsStep, StepsStep, SeenStep
     DEF IInv
<1>2. CASE UNCHANGED vars
  <2>1. TypeOK'
    BY <1>2 DEF IInv, TypeOK, vars
  <2>2. Registration' /\ Counting'
    BY <1>2 DEF IInv, Registration, Counting, RepairBudget, vars
  <2>3. Rounds' /\ Steps'
    BY <1>2 DEF IInv, Rounds, RoundsBounded, Steps, Cost, vars
  <2>4. Seen'
    BY <1>2 DEF IInv, Seen, SucceededRunsAreDone, AllSucceeded, vars
  <2> QED
    BY <2>1, <2>2, <2>3, <2>4 DEF IInv
<1> QED
  BY <1>1, <1>2

\* The inductive invariant holds of every execution.
THEOREM GraphInvariant == Spec => []IInv
<1> QED
  BY InitIInv, NextIInv, PTL DEF Spec

\* Types of the graph's state.
THEOREM TypeCorrect == Spec => []TypeOK
<1>1. IInv => TypeOK
  BY DEF IInv
<1> QED
  BY <1>1, GraphInvariant, PTL

\* A task is repaired at most max_repair_rounds times, plus once per crash,
\* whatever the plan and whoever asks.
THEOREM RepairsAreBudgeted == Spec => []RepairBudget
<1>1. IInv => RepairBudget
  BY DEF IInv, Counting
<1> QED
  BY <1>1, GraphInvariant, PTL

\* The global safety net bounds every round except the new plans the task
\* board itself asks for.
THEOREM RoundsAreBounded == Spec => []RoundsBounded
<1>1. IInv => RoundsBounded
  BY DEF IInv, Rounds
<1> QED
  BY <1>1, GraphInvariant, PTL

\* An invocation that has begun k rounds has taken at most 10 + 6k super-steps.
THEOREM StepsArePaid == Spec => []StepsPerRound
<1>1. IInv => StepsPerRound
  BY DEF IInv, Steps, Cost, StepsPerRound, TypeOK
<1> QED
  BY <1>1, GraphInvariant, PTL

\* No run works for ever: repairs, rounds and super-steps are all bounded.
THEOREM WorkIsBounded == Spec => []BoundedWork
<1>1. RepairBudget /\ RoundsBounded /\ StepsPerRound => BoundedWork
  BY DEF BoundedWork
<1> QED
  BY <1>1, RepairsAreBudgeted, RoundsAreBounded, StepsArePaid, PTL

\* Types, and the budgets that bound repairs, rounds and super-steps.
THEOREM GraphIsSafe == Spec => []Safety
  BY TypeCorrect, WorkIsBounded, PTL DEF Safety

\* A run succeeds only with every task of its plan SUCCEEDED, unless a replan
\* request came after the verifier had read the board.
THEOREM SuccessIsComplete == Spec => []SucceededRunsAreDone
<1>1. IInv => SucceededRunsAreDone
  BY DEF IInv, Seen
<1> QED
  BY <1>1, GraphInvariant, PTL

=============================================================================
