--------------------------- MODULE EvidenceProofs ---------------------------
(***************************************************************************)
(* Proofs about modules Verdict and Evidence.  That the strictest verdict  *)
(* wins is a matter of five cases, as ranks go from 0 to 4; what a pass     *)
(* rests on follows by going back from the merged verdict to the results    *)
(* it was merged from.  The state machine adds that nothing but Judge and   *)
(* Finalize decides, so that no crash, stop, cancellation or replan request *)
(* between them can turn an unearned verdict into a success.                *)
(*                                                                         *)
(* Then the evidence itself: an artifact is followed from the attempt that  *)
(* made it through the worktree, the merge and the mark to the record that  *)
(* names it (EvidenceInv), and a step of one coroutine is shown to leave    *)
(* what all others hold where it was.                                       *)
(***************************************************************************)
EXTENDS Evidence, TLAPS

-----------------------------------------------------------------------------
(* The merged verdict.                                                     *)

\* A rank is a natural number of at most 4, and 0 is the pass alone.
LEMMA Ranks ==
    ASSUME NEW v \in Verdicts
    PROVE  /\ Rank(v) \in 0..4
           /\ Rank(v) = 0 <=> v = "pass"
  BY DEF Rank, Verdicts

\* Some result is at least as strict as every other one: no induction is
\* needed, the strictest of five ranks that occurs is the greatest.
LEMMA StrictestExists ==
    ASSUME NEW S, S # {}, \A r \in S : r.verdict \in Verdicts
    PROVE  \E r \in S : \A s \in S : Rank(s.verdict) <= Rank(r.verdict)
<1> DEFINE At(n) == \E r \in S : Rank(r.verdict) = n
<1>1. \A r \in S : Rank(r.verdict) \in 0..4
  BY Ranks
<1>2. CASE At(4)
  BY <1>1, <1>2
<1>3. CASE ~At(4) /\ At(3)
  BY <1>1, <1>3
<1>4. CASE ~At(4) /\ ~At(3) /\ At(2)
  BY <1>1, <1>4
<1>5. CASE ~At(4) /\ ~At(3) /\ ~At(2) /\ At(1)
  BY <1>1, <1>5
<1>6. CASE ~At(4) /\ ~At(3) /\ ~At(2) /\ ~At(1)
  BY <1>1, <1>6
<1> QED
  BY <1>2, <1>3, <1>4, <1>5, <1>6

\* A merged pass is a pass of every result (_merge_results).
LEMMA MergedPass ==
    ASSUME NEW S, S # {}, \A r \in S : r.verdict \in Verdicts, Merged(S) = "pass"
    PROVE  \A r \in S : r.verdict = "pass"
<1> DEFINE Strictest(r) == \A s \in S : Rank(s.verdict) <= Rank(r.verdict)
<1> DEFINE m == CHOOSE r \in S : Strictest(r)
<1>1. \E r \in S : Strictest(r)
  BY StrictestExists
<1>2. m \in S /\ Strictest(m)
  BY <1>1
<1>3. m.verdict = "pass"
  BY DEF Merged
<1>4. Rank(m.verdict) = 0
  BY <1>2, <1>3, Ranks
<1>5. ASSUME NEW r \in S PROVE r.verdict = "pass"
  <2>1. Rank(r.verdict) <= 0
    BY <1>2, <1>4
  <2> QED
    BY <2>1, Ranks
<1> QED
  BY <1>5

-----------------------------------------------------------------------------
(* What a pass of the model's review means.                                *)

LEMMA ReviewedPass ==
    ASSUME NEW a \in Answers
    PROVE  /\ Reviewed(a).verdict \in Verdicts
           /\ Reviewed(a).verdict = "pass" =>
                  a.verdict = "pass" \/ ("semantic" \notin a.failed /\ a.verdict # "human_required")
           /\ Reviewed(a).verdict = "repair" => ~(Reviewed(a).failed \subseteq {"semantic_verifier_unavailable"})
  BY DEF Reviewed, Result, Answers, Verdicts

LEMMA UnreviewedRepairs ==
    ASSUME NEW hollow \in BOOLEAN
    PROVE  Unreviewed(hollow).verdict = "repair"
  BY DEF Unreviewed, Result

LEMMA ChecksPass ==
    ASSUME NEW c \in Contracts, NEW f \in Findings
    PROVE  /\ \A r \in Checked(c, f) : r.verdict \in Verdicts
           /\ FilesResult(c, f) \in Checked(c, f)
           /\ FilesResult(c, f).score = "files"
           /\ FilesResult(c, f).verdict = "pass" => ("path" \in c.required => ~f.missing)
           /\ Runs(c) => CommandResult(f) \in Checked(c, f)
           /\ CommandResult(f).verdict = "pass" => f.exit = "expected"
           /\ (\E r \in Checked(c, f) : r.score = "command") => Runs(c)
  BY DEF Checked, FilesResult, CommandResult, Result, Verdicts, Contracts, Findings

\* A judgement that passes is earned: whatever the contract, the findings, the
\* calls of the model and its answer are (validate).
LEMMA ValidatedIsEarned ==
    ASSUME NEW evident \in BOOLEAN, NEW c \in Contracts, NEW f \in Findings, NEW calls,
           NEW a \in Answers \cup {Garbled}, NEW hollow \in BOOLEAN,
           Validated(evident, c, f, Rubric(calls, a, hollow)) = "pass"
    PROVE  Earned(evident, c, f, Consents(calls, a), Answered(calls) /\ a # Garbled)
<1> DEFINE rubric == Rubric(calls, a, hollow)
           settled == Settled(c, Checked(c, f), rubric)
           answered == Answered(calls) /\ a # Garbled
<1>1. evident
  BY DEF Validated
<1>2. Merged(Checked(c, f) \cup {settled}) = "pass"
  BY <1>1 DEF Validated
<1>3. rubric.verdict \in Verdicts
  <2>1. CASE answered
    BY <2>1, ReviewedPass DEF Rubric
  <2>2. CASE ~answered
    BY <2>2, UnreviewedRepairs DEF Rubric, Verdicts
  <2> QED
    BY <2>1, <2>2
<1>4. settled.verdict \in Verdicts
  BY <1>3 DEF Settled, Result, Verdicts
<1>5. \A r \in Checked(c, f) \cup {settled} : r.verdict = "pass"
  BY <1>2, <1>4, ChecksPass, MergedPass
<1>6. "path" \in c.required => ~f.missing
  BY <1>5, ChecksPass
<1>7. "command" \in c.criteria => f.exit = "expected"
  BY <1>5, ChecksPass DEF Runs
<1>8. Consents(calls, a)
      \/ (~answered /\ "command" \in c.criteria /\ c.criteria \subseteq {"command", "blank"}
                    /\ "role" \notin c.required)
  <2>1. CASE StandsIn(c, Checked(c, f), rubric)
    <3>1. ~answered
      BY <2>1, ReviewedPass DEF StandsIn, Rubric
    <3>2. Runs(c) /\ ~Reviews(c)
      BY <2>1, ChecksPass DEF StandsIn
    <3> QED
      BY <3>1, <3>2 DEF Runs, Reviews, Contracts
  <2>2. CASE ~StandsIn(c, Checked(c, f), rubric)
    <3>1. rubric.verdict = "pass"
      BY <2>2, <1>5 DEF Settled
    <3>2. answered
      BY <3>1, UnreviewedRepairs DEF Rubric
    <3> QED
      BY <3>1, <3>2, ReviewedPass DEF Rubric, Consents
  <2> QED
    BY <2>1, <2>2
<1> QED
  BY <1>1, <1>6, <1>7, <1>8 DEF Earned

\* Every judgement Judge can take keeps to that.
LEMMA JudgementsAreEarned ==
    ASSUME NEW evident \in BOOLEAN, NEW j \in Judgements[evident], j.passes
    PROVE  j.earned
<1> DEFINE reviews ==
        {[rubric |-> Rubric(calls, a, hollow), consent |-> Consents(calls, a),
          answered |-> Answered(calls) /\ a # Garbled] :
             calls \in {c \in Replies : Made(c)}, a \in Answers \cup {Garbled}, hollow \in BOOLEAN}
<1>1. PICK c \in Contracts, f \in Findings, r \in reviews :
           j = [passes |-> Validated(evident, c, f, r.rubric) = "pass",
                earned |-> Earned(evident, c, f, r.consent, r.answered)]
  BY DEF Judgements
<1>2. PICK calls \in {d \in Replies : Made(d)}, a \in Answers \cup {Garbled}, hollow \in BOOLEAN :
           r = [rubric |-> Rubric(calls, a, hollow), consent |-> Consents(calls, a),
                answered |-> Answered(calls) /\ a # Garbled]
  OBVIOUS
<1> HIDE DEF reviews
<1>3. j.passes = (Validated(evident, c, f, r.rubric) = "pass")
  BY <1>1
<1>4. j.earned = Earned(evident, c, f, r.consent, r.answered)
  BY <1>1
<1>5. /\ r.rubric = Rubric(calls, a, hollow)
      /\ r.consent = Consents(calls, a)
      /\ r.answered = (Answered(calls) /\ a # Garbled)
  BY <1>2
<1>6. Validated(evident, c, f, Rubric(calls, a, hollow)) = "pass"
  BY <1>3, <1>5
<1>7. Earned(evident, c, f, Consents(calls, a), Answered(calls) /\ a # Garbled)
  BY <1>6, ValidatedIsEarned
<1> QED
  BY <1>4, <1>5, <1>7

\* A run completes after the only kind of check there is was found and passed
\* (_finalize_verified_run).
LEMMA CompletedIsChecked ==
    ASSUME NEW pending \in BOOLEAN, NEW conflict \in BOOLEAN, NEW demand \in Demands,
           NEW outcome \in Outcomes, RunResult(pending, conflict, demand, outcome) = "completed"
    PROVE  demand = {"usable"} /\ outcome = "passed"
  BY DEF RunResult, Planned

-----------------------------------------------------------------------------
(* Nothing unearned passes.                                                *)

\* SuccessIsEarned is about what succeeded; what is inductive is that nothing
\* was passed unearned in the first place.
NothingUnearned == unearned = {}

\* The only two steps that decide.
LEMMA JudgeIsEarned ==
    ASSUME unearned = {}, NEW t \in Tasks, Judge(t)
    PROVE  unearned' = {}
<1>1. PICK j \in Judgements[Considered(t) # {}] :
           unearned' = IF j.passes /\ ~j.earned THEN unearned \cup {t} ELSE unearned \ {t}
  BY DEF Judge
<1>2. (Considered(t) # {}) \in BOOLEAN
  OBVIOUS
<1>3. ~(j.passes /\ ~j.earned)
  BY <1>1, <1>2, JudgementsAreEarned
<1> QED
  BY <1>1, <1>3

LEMMA FinalizeIsEarned ==
    ASSUME unearned = {}, Finalize
    PROVE  unearned' = {}
<1>1. PICK pending \in BOOLEAN, demand \in Demands, outcome \in Outcomes :
          /\ run' = RunResult(pending, conflicted # {}, demand, outcome)
          /\ unearned' = IF run' = "completed" /\ (demand # {"usable"} \/ outcome # "passed")
                         THEN unearned \cup {NoTask} ELSE unearned
  BY DEF Finalize
<1>2. (conflicted # {}) \in BOOLEAN
  OBVIOUS
<1>3. run' = "completed" => demand = {"usable"} /\ outcome = "passed"
  BY <1>1, <1>2, CompletedIsChecked
<1> QED
  BY <1>1, <1>3

\* The worker thread decides nothing.
LEMMA WorkersDoNotJudge ==
    ASSUME NEW t \in Tasks, Worker(t)
    PROVE  unearned' = unearned
<1>1. ASSUME NEW c \in Contents, Edit(t, c) PROVE unearned' = unearned
  BY <1>1 DEF Edit, Calm
<1>2. CASE Scan(t)
  BY <1>2 DEF Scan, Calm
<1>3. CASE Halts(t)
  BY <1>3 DEF Halts, Calm
<1>4. CASE Create(t)
  BY <1>4 DEF Create, Calm
<1>5. CASE CreateRaises(t)
  BY <1>5 DEF CreateRaises, TroubleOnly
<1>6. CASE CheckPublished(t)
  BY <1>6 DEF CheckPublished, Calm
<1>7. CASE PublishRaises(t)
  BY <1>7 DEF PublishRaises, TroubleOnly
<1> QED
  BY <1>1, <1>2, <1>3, <1>4, <1>5, <1>6, <1>7 DEF Worker

LEMMA ConflictsDoNotJudge ==
    ASSUME NEW t \in Tasks, NEW arts, Conflict(t, arts)
    PROVE  unearned' = unearned
  BY DEF Conflict, Calm

\* The coroutine decides in Judge alone.
LEMMA CoroutinesDoNotJudge ==
    ASSUME NEW t \in Tasks, Coroutine(t), ~Judge(t)
    PROVE  unearned' = unearned
<1>1. ASSUME NEW g \in Agents, Begin(t, g) PROVE unearned' = unearned
  BY <1>1 DEF Begin, Calm
<1>2. CASE Acquire(t)
  BY <1>2 DEF Acquire, Calm
<1>3. CASE AcquireRaises(t)
  BY <1>3 DEF AcquireRaises, Calm
<1>4. CASE TimesOut(t)
  BY <1>4 DEF TimesOut
<1>5. CASE Drop(t)
  BY <1>5 DEF Drop, Calm
<1>6. CASE ExecutionFails(t)
  BY <1>6 DEF ExecutionFails, Calm
<1>7. CASE Commit(t)
  BY <1>7, ConflictsDoNotJudge DEF Commit, Calm
<1>8. CASE CommitRaises(t)
  BY <1>8 DEF CommitRaises, TroubleOnly
<1>9. CASE StartVerifying(t)
  BY <1>9, ConflictsDoNotJudge DEF StartVerifying, Calm
<1>10. CASE Rehash(t)
  BY <1>10 DEF Rehash, Calm
<1>11. CASE JudgeRaises(t)
  BY <1>11 DEF JudgeRaises, TroubleOnly
<1>12. CASE SaveVerdict(t)
  BY <1>12 DEF SaveVerdict, Calm
<1>13. CASE Refuse(t)
  BY <1>13, ConflictsDoNotJudge DEF Refuse, Calm
<1>14. CASE Integrate(t)
  BY <1>14 DEF Integrate, Calm, TroubleOnly
<1>15. CASE IntegrateRaises(t)
  BY <1>15 DEF IntegrateRaises, TroubleOnly
<1>16. CASE VerifyEvidence(t)
  BY <1>16 DEF VerifyEvidence, Calm, TroubleOnly
<1>17. CASE Succeed(t)
  BY <1>17, ConflictsDoNotJudge DEF Succeed
<1>18. CASE SucceedRaises(t)
  BY <1>18 DEF SucceedRaises
<1> QED
  BY <1>1, <1>2, <1>3, <1>4, <1>5, <1>6, <1>7, <1>8, <1>9, <1>10, <1>11, <1>12, <1>13,
     <1>14, <1>15, <1>16, <1>17, <1>18 DEF Coroutine

\* Around it, Finalize alone does.
LEMMA TheRestDoesNotJudge ==
    ASSUME Around, ~Finalize
    PROVE  unearned' = unearned
<1>1. ASSUME NEW g \in ghosts, GhostEnds(g) PROVE unearned' = unearned
  BY <1>1 DEF GhostEnds
<1>2. ASSUME NEW t \in Tasks, NEW r \in Tasks, Repair(t, r) PROVE unearned' = unearned
  BY <1>2 DEF Repair
<1>3. ASSUME NEW r \in Tasks, Revise(r) PROVE unearned' = unearned
  BY <1>3 DEF Revise
<1>4. CASE RejectRepaired
  BY <1>4 DEF RejectRepaired
<1>5. CASE RejectAll
  BY <1>5 DEF RejectAll
<1>6. CASE CancelRun
  BY <1>6 DEF CancelRun
<1>7. CASE Crash
  BY <1>7 DEF Crash
<1>8. ASSUME NEW t \in Tasks, Stop(t) PROVE unearned' = unearned
  BY <1>8 DEF Stop
<1>9. ASSUME NEW t \in Tasks, CancelTask(t) PROVE unearned' = unearned
  BY <1>9 DEF CancelTask, Calm
<1>10. ASSUME NEW t \in Tasks, RequestReplan(t) PROVE unearned' = unearned
  BY <1>10 DEF RequestReplan
<1> QED
  BY <1>1, <1>2, <1>3, <1>4, <1>5, <1>6, <1>7, <1>8, <1>9, <1>10 DEF Around

\* Nothing passes unearned, neither a task nor a run, for any number of tasks,
\* agents, artifacts, attempts, faults and calls of the model (validate,
\* _finalize_verified_run).
THEOREM NothingPassesUnearned == Spec => []NothingUnearned
<1>1. Init => NothingUnearned
  BY DEF Init, NothingUnearned
<1>2. NothingUnearned /\ [Next]_vars => NothingUnearned'
  <2> SUFFICES ASSUME unearned = {}, [Next]_vars PROVE unearned' = {}
    BY DEF NothingUnearned
  <2>1. CASE UNCHANGED vars
    BY <2>1 DEF vars, other
  <2>2. ASSUME NEW t \in Tasks, Worker(t) PROVE unearned' = {}
    BY <2>2, WorkersDoNotJudge
  <2>3. ASSUME NEW t \in Tasks, Coroutine(t) PROVE unearned' = {}
    BY <2>3, CoroutinesDoNotJudge, JudgeIsEarned
  <2>4. CASE Around
    BY <2>4, TheRestDoesNotJudge, FinalizeIsEarned
  <2> QED
    BY <2>1, <2>2, <2>3, <2>4 DEF Next
<1> QED
  BY <1>1, <1>2, PTL DEF Spec

\* No task succeeds and no run completes on a verdict that does not rest on
\* evidence, passed checks and a model's consent or a command that ran
\* (validate, _run_one, _finalize_verified_run).
THEOREM SuccessesAreEarned == Spec => []SuccessIsEarned
<1>1. NothingUnearned => SuccessIsEarned
  BY DEF SuccessIsEarned, NothingUnearned
<1> QED
  BY <1>1, NothingPassesUnearned, PTL

-----------------------------------------------------------------------------
(* What SUCCEEDED rests on.                                                *)

\* The attempt's thread, before its evidence is committed, and the completion.
Attempting == {"assigned", "executing", "checked", "created", "returned", "errored"}
Completing == {"produced", "hashing", "judging", "saving", "refused", "passed", "merged",
               "evidenced"}

\* What may become of a task behind the back of its coroutine.
Fenced == {"cancelled", "replan_required"}

\* A task and its coroutine: whoever has taken the task is its owner, and the
\* board is where the coroutine left it or has fenced the task off.
Placed(t) ==
    /\ pc[t] = "idle" <=> worker[t] = NoAgent
    /\ pc[t] # "idle" => owner[t] = worker[t] /\ t \notin superseded \cup won
    /\ pc[t] = "idle" => status[t] \notin {"running", "produced", "verifying"}
    /\ pc[t] \in Attempting => status[t] \in Fenced \cup {"running"}
    /\ pc[t] = "produced" => status[t] \in Fenced \cup {"produced"}
    /\ pc[t] \in Completing \ {"produced"} => status[t] \in Fenced \cup {"verifying"}
    /\ pc[t] = "saving" => seen[t] \in Fenced \cup {"verifying"}
    /\ status[t] = "succeeded" => t \in won
    /\ t \in won => status[t] \in Fenced \cup {"succeeded"}
    /\ t \in superseded => status[t] \notin {"absent", "pending"}

\* Two coroutines never run for one agent.
OneEach == \A t, u \in Tasks : t # u /\ worker[t] = worker[u] => worker[t] = NoAgent

\* Whose artifact is whose: the attempt's, the last completed attempt's, a source's
\* of a repair, and a ghost's.
Attributed ==
    /\ mem = row
    /\ \A a \in 1..made : from[a] \in Tasks
    /\ \A t \in Tasks :
         /\ out[t] \cup produced[t] \subseteq {a \in 1..made : from[a] = t}
         /\ sources[t] \subseteq {a \in 1..made : from[a] \in superseded}
    /\ \A g \in ghosts : g.art # 0 =>
         g.art <= made /\ from[g.art] = g.task /\ g.art \notin produced[g.task] \cup out[g.task]

\* The evidence of an attempt on its way from the worktree to the board.
Carried(t) ==
    /\ pc[t] \in {"idle", "assigned", "executing", "checked"} => out[t] = {}
    /\ pc[t] \in Attempting => out[t] \cap produced[t] = {}
    /\ pc[t] \in {"created", "returned"} => \A a \in out[t] : hash[a] = work[worker[t]]
    /\ pc[t] \in Completing =>
         out[t] = produced[t] /\ \A a \in out[t] : hash[a] = head[worker[t]]
    /\ pc[t] \in {"merged", "evidenced"} => \A a \in out[t] : hash[a] \in landed
    /\ pc[t] = "evidenced" => \A a \in out[t] : row[a] = "verified"

\* What an agent has merged has been in the integration branch.
Landed == trunk \in landed /\ \A g \in Agents : merged[g] \in landed

\* While evidence is being replaced or rejected nobody works, and a plan that is
\* rejected leaves none behind.
Suspended ==
    /\ mending # NoTask => mending \in superseded /\ \A t \in Tasks : pc[t] = "idle"
    /\ replanning =>
         /\ \A t \in Tasks : pc[t] = "idle" /\ status[t] # "pending"
         /\ \A a \in Artifacts : row[a] # "verified"

EvidenceInv ==
    /\ \A t \in Tasks : Placed(t) /\ Carried(t)
    /\ OneEach /\ Attributed /\ Landed /\ Suspended
    /\ VerifiedHasItsTask /\ SucceededIsBacked

-----------------------------------------------------------------------------
(* Types, group by group.                                                  *)

BoardTypes ==
    /\ status \in [Tasks -> Status] /\ owner \in [Tasks -> Agents \cup {NoAgent}]
    /\ attempts \in [Tasks -> 0..MaxAttempts]
    /\ produced \in [Tasks -> SUBSET Artifacts] /\ sources \in [Tasks -> SUBSET Artifacts]
    /\ superseded \subseteq Tasks /\ conflicted \subseteq Tasks

FlowTypes ==
    /\ pc \in [Tasks -> Places] /\ worker \in [Tasks -> Agents \cup {NoAgent}]
    /\ stopped \subseteq Tasks /\ out \in [Tasks -> SUBSET Artifacts]
    /\ verdict \in [Tasks -> BOOLEAN] /\ seen \in [Tasks -> Status]

StoreTypes ==
    /\ made \in 0..MaxArtifacts
    /\ from \in [Artifacts -> Tasks \cup {NoTask}] /\ hash \in [Artifacts -> Files]
    /\ row \in [Artifacts -> ArtifactStatus] /\ mem \in [Artifacts -> ArtifactStatus]
    /\ \A a \in Artifacts : row[a] = "absent" <=> a > made
    /\ disk \in [Tasks -> Files]

GitTypes ==
    /\ work \in [Agents -> Files] /\ head \in [Agents -> Files]
    /\ merged \in [Agents -> Files] /\ lease \in [Agents -> {"none", "active", "expired"}]
    /\ trunk \in Files /\ landed \subseteq Files

OtherTypes ==
    /\ won \subseteq Tasks /\ unearned \subseteq Tasks \cup {NoTask}
    /\ ghosts \subseteq [task : Tasks, agent : Agents, art : 0..MaxArtifacts]
    /\ mending \in Tasks \cup {NoTask}
    /\ cancelled \in BOOLEAN /\ torn \in BOOLEAN
    /\ replanning \in BOOLEAN /\ voided \in BOOLEAN
    /\ run \in {"working", "completed", "failed", "waiting_human"}
    /\ troubles \in 0..MaxTroubles

LEMMA TypesByGroup ==
    TypeOK <=> BoardTypes /\ FlowTypes /\ StoreTypes /\ GitTypes /\ OtherTypes
  BY DEF TypeOK, BoardTypes, FlowTypes, StoreTypes, GitTypes, OtherTypes

\* What every step keeps: every variable has its type, and every coroutine, every
\* artifact and every merge is where the code's order of commits puts it.
Inductive == TypeOK /\ EvidenceInv

-----------------------------------------------------------------------------
(* What a step of task t's coroutine, or of its thread, may do to each      *)
(* part of the state; the lemmas after it say so of the helpers that the    *)
(* actions are made of.                                                     *)

BoardStep(t) ==
    /\ BoardTypes'
    /\ \A u \in Tasks \ {t} :
         status'[u] = status[u] /\ owner'[u] = owner[u] /\ produced'[u] = produced[u]
    /\ sources' = sources /\ superseded' = superseded
    /\ produced'[t] \subseteq produced[t] \cup out[t]

FlowStep(t) ==
    /\ FlowTypes'
    /\ \A u \in Tasks \ {t} :
         pc'[u] = pc[u] /\ worker'[u] = worker[u] /\ seen'[u] = seen[u] /\ out'[u] = out[u]
    /\ out'[t] \subseteq out[t] \cup (made + 1)..made'

\* No artifact changes but those of t and what repairs have replaced.
StoreStep(t) ==
    /\ StoreTypes' /\ made <= made' /\ mem' = row'
    /\ \A a \in 1..made :
         /\ from'[a] = from[a] /\ hash'[a] = hash[a]
         /\ from[a] \notin superseded \cup {t} => row'[a] = row[a]
    /\ \A a \in (made + 1)..made' : from'[a] = t

GitStep(t) ==
    /\ GitTypes' /\ Landed' /\ landed \subseteq landed'
    /\ \A g \in Agents \ {worker[t]} : work'[g] = work[g] /\ head'[g] = head[g]

OtherStep(t) ==
    /\ OtherTypes' /\ UNCHANGED <<mending, replanning, voided>> /\ (torn => torn')
    /\ won \subseteq won' /\ won' \subseteq won \cup {t}

\* A verified artifact was so before, or is on its way to its success, or the
\* commits were torn.
Justified(t) ==
    \A a \in Artifacts : row'[a] = "verified" =>
        \/ row[a] = "verified" /\ ~(pc[t] = "evidenced" /\ a \in out[t])
        \/ /\ a \in 1..made /\ from[a] = t
           /\ \/ pc'[t] = "evidenced" /\ a \in out'[t]
              \/ t \in won' /\ a \in produced'[t]
        \/ torn'

\* A ghost of a coroutine that this step ends has what the attempt published.
GhostStep(t) ==
    \A g \in ghosts' : g \in ghosts
        \/ /\ g.task = t /\ (g.art # 0 => g.art \in out[t] \ produced'[t]) /\ out'[t] = {}

-----------------------------------------------------------------------------
(* A step of a coroutine that leaves its own task in order leaves           *)
(* everything in order.                                                     *)

LEMMA OthersStayPlaced ==
    ASSUME Inductive, NEW t \in Tasks, BoardStep(t), FlowStep(t), OtherStep(t)
    PROVE  \A u \in Tasks \ {t} : Placed(u)'
  BY DEF Inductive, EvidenceInv, Placed, BoardStep, FlowStep, OtherStep

LEMMA OthersStayCarried ==
    ASSUME Inductive, NEW t \in Tasks, BoardStep(t), FlowStep(t), StoreStep(t), GitStep(t)
    PROVE  \A u \in Tasks \ {t} : Carried(u)'
<1> SUFFICES ASSUME NEW u \in Tasks \ {t} PROVE Carried(u)'
  OBVIOUS
<1>1. Carried(u) /\ Placed(u)
  BY DEF Inductive, EvidenceInv
<1>2. pc'[u] = pc[u] /\ worker'[u] = worker[u] /\ out'[u] = out[u] /\ produced'[u] = produced[u]
  BY DEF BoardStep, FlowStep
<1>3. ASSUME NEW a \in out[u]
      PROVE  /\ hash'[a] = hash[a]
             /\ pc[u] # "idle" => row'[a] = row[a]
  <2>1. a \in 1..made /\ from[a] = u
    BY DEF Inductive, EvidenceInv, Attributed
  <2>2. pc[u] # "idle" => u \notin superseded
    BY <1>1 DEF Placed
  <2> QED
    BY <2>1, <2>2 DEF StoreStep
<1>4. CASE pc[u] = "idle"
  BY <1>1, <1>2, <1>4 DEF Carried, Attempting, Completing
<1>5. CASE pc[u] # "idle"
  <2>1. worker[u] \in Agents \ {worker[t]}
    <3>1. worker[u] # NoAgent
      BY <1>1, <1>5 DEF Placed
    <3>2. worker[u] \in Agents
      BY <3>1, TypesByGroup DEF Inductive, FlowTypes
    <3> QED
      BY <3>1, <3>2 DEF Inductive, EvidenceInv, OneEach
  <2>2. work'[worker[u]] = work[worker[u]] /\ head'[worker[u]] = head[worker[u]]
    BY <2>1 DEF GitStep
  <2>3. landed \subseteq landed'
    BY DEF GitStep
  <2>4. \A a \in out[u] : hash'[a] = hash[a] /\ row'[a] = row[a]
    BY <1>3, <1>5
  <2> HIDE DEF Attempting, Completing
  <2> QED
    BY <1>1, <1>2, <2>2, <2>3, <2>4 DEF Carried
<1> QED
  BY <1>4, <1>5

LEMMA StepStaysAttributed ==
    ASSUME Inductive, NEW t \in Tasks, BoardStep(t), FlowStep(t), StoreStep(t), GhostStep(t)
    PROVE  Attributed'
<1>1. Attributed /\ FlowTypes /\ BoardTypes /\ StoreTypes
  BY TypesByGroup DEF Inductive, EvidenceInv
<1>2. mem' = row'
  BY DEF StoreStep
<1>3. made \in Nat /\ made' \in Nat /\ made <= made'
  BY <1>1 DEF StoreStep, StoreTypes
<1>4. ASSUME NEW u \in Tasks
      PROVE  out'[u] \cup produced'[u] \subseteq {a \in 1..made' : from'[a] = u}
  <2>1. out[u] \cup produced[u] \subseteq {a \in 1..made : from[a] = u}
    BY <1>1 DEF Attributed
  <2>2. {a \in 1..made : from[a] = u} \subseteq {a \in 1..made' : from'[a] = u}
    BY <1>3 DEF StoreStep
  <2>3. CASE u # t
    BY <2>1, <2>2, <2>3 DEF BoardStep, FlowStep
  <2>4. CASE u = t
    <3>1. (made + 1)..made' \subseteq {a \in 1..made' : from'[a] = t}
      BY <1>3 DEF StoreStep
    <3> QED
      BY <2>1, <2>2, <2>4, <3>1 DEF BoardStep, FlowStep
  <2> QED
    BY <2>3, <2>4
<1>5. ASSUME NEW u \in Tasks
      PROVE  sources'[u] \subseteq {a \in 1..made' : from'[a] \in superseded'}
  <2>1. sources[u] \subseteq {a \in 1..made : from[a] \in superseded}
    BY <1>1 DEF Attributed
  <2> QED
    BY <2>1, <1>3 DEF BoardStep, StoreStep
<1>6. ASSUME NEW g \in ghosts', g.art # 0
      PROVE  g.art <= made' /\ from'[g.art] = g.task /\ g.art \notin produced'[g.task] \cup out'[g.task]
  <2>1. CASE g \in ghosts
    <3>1. /\ g.art \in 1..made /\ g.task \in Tasks /\ from[g.art] = g.task
          /\ g.art \notin produced[g.task] \cup out[g.task]
      BY <1>1, <1>3, <1>6, <2>1, TypesByGroup DEF Attributed, Inductive, OtherTypes
    <3>2. g.art \in 1..made' /\ from'[g.art] = g.task
      BY <3>1, <1>3 DEF StoreStep
    <3>3. g.art \notin produced'[g.task] \cup out'[g.task]
      BY <3>1, <1>3 DEF BoardStep, FlowStep
    <3> QED
      BY <3>2, <3>3, <1>3
  <2>2. CASE g.task = t /\ g.art \in out[t] \ produced'[t] /\ out'[t] = {}
    <3>1. g.art \in 1..made /\ from[g.art] = t
      BY <1>1, <2>2 DEF Attributed
    <3> QED
      BY <3>1, <2>2, <1>3 DEF StoreStep
  <2> QED
    BY <2>1, <2>2, <1>6 DEF GhostStep
<1>7. ASSUME NEW a \in 1..made' PROVE from'[a] \in Tasks
  BY <1>1, <1>3 DEF Attributed, StoreStep
<1> QED
  BY <1>2, <1>4, <1>5, <1>6, <1>7 DEF Attributed

LEMMA StepStaysVerified ==
    ASSUME Inductive, NEW t \in Tasks, BoardStep(t), FlowStep(t), StoreStep(t), OtherStep(t),
           Justified(t), t \notin won, t \notin superseded, mending = NoTask
    PROVE  VerifiedHasItsTask'
<1> SUFFICES ASSUME NEW a \in Artifacts, row'[a] = "verified", ~torn'
             PROVE  \/ from'[a] \in won' /\ a \in produced'[from'[a]]
                        /\ (from'[a] \in superseded' => mending' = from'[a])
                    \/ pc'[from'[a]] = "evidenced" /\ a \in out'[from'[a]]
  BY DEF VerifiedHasItsTask
<1>1. superseded' = superseded /\ mending' = mending /\ won \subseteq won' /\ ~torn
  BY DEF OtherStep, BoardStep
<1>2. CASE row[a] = "verified" /\ ~(pc[t] = "evidenced" /\ a \in out[t])
  <2>1. \/ from[a] \in won /\ a \in produced[from[a]] /\ (from[a] \in superseded => mending = from[a])
        \/ pc[from[a]] = "evidenced" /\ a \in out[from[a]]
    BY <1>1, <1>2 DEF Inductive, EvidenceInv, VerifiedHasItsTask
  <2>2. a \in 1..made /\ a \in Nat
    BY <1>2, TypesByGroup DEF Inductive, StoreTypes, Artifacts
  <2>3. from'[a] = from[a]
    BY <2>2 DEF StoreStep
  <2>4. from[a] # t
    BY <1>2, <2>1
  <2>5. from[a] \in Tasks
    BY <2>2 DEF Inductive, EvidenceInv, Attributed
  <2> QED
    BY <1>1, <2>1, <2>3, <2>4, <2>5 DEF BoardStep, FlowStep
<1>3. CASE /\ a \in 1..made /\ from[a] = t
           /\ \/ pc'[t] = "evidenced" /\ a \in out'[t]
              \/ t \in won' /\ a \in produced'[t]
  BY <1>1, <1>3 DEF StoreStep
<1> QED
  BY <1>2, <1>3 DEF Justified

LEMMA StepStaysBacked ==
    ASSUME Inductive, NEW t \in Tasks, BoardStep(t), FlowStep(t), StoreStep(t), GitStep(t), OtherStep(t),
           Placed(t)', t \notin won,
           t \in won' => \A a \in produced'[t] : row'[a] = "verified" /\ hash'[a] \in landed'
    PROVE  SucceededIsBacked'
<1> SUFFICES ASSUME ~voided', NEW u \in Tasks, status'[u] = "succeeded", u \notin superseded',
                    NEW a \in produced'[u]
             PROVE  row'[a] = "verified" /\ mem'[a] = "verified" /\ hash'[a] \in landed'
  BY DEF SucceededIsBacked, Current
<1>1. mem' = row'
  BY DEF StoreStep
<1>2. CASE u = t
  BY <1>1, <1>2 DEF Placed
<1>3. CASE u # t
  <2>1. status[u] = "succeeded" /\ a \in produced[u] /\ u \notin superseded /\ ~voided
    BY <1>3 DEF BoardStep, OtherStep
  <2>2. row[a] = "verified" /\ hash[a] \in landed
    BY <2>1 DEF Inductive, EvidenceInv, SucceededIsBacked, Current
  <2>3. a \in 1..made /\ from[a] = u
    BY <2>1 DEF Inductive, EvidenceInv, Attributed
  <2> QED
    BY <1>1, <1>3, <2>1, <2>2, <2>3 DEF StoreStep, GitStep
<1> QED
  BY <1>2, <1>3

\* The argument of all the actions of a thread or a coroutine.
LEMMA StepKeepsOrder ==
    ASSUME Inductive, NEW t \in Tasks,
           BoardStep(t), FlowStep(t), StoreStep(t), GitStep(t), OtherStep(t), GhostStep(t),
           t \notin won, t \notin superseded, mending = NoTask, ~replanning,
           worker'[t] # worker[t] => \A u \in Tasks \ {t} : worker'[t] = worker[u] => worker'[t] = NoAgent,
           Placed(t)', Carried(t)', Justified(t),
           t \in won' => \A a \in produced'[t] : row'[a] = "verified" /\ hash'[a] \in landed'
    PROVE  Inductive'
<1>1. TypeOK'
  BY TypesByGroup DEF BoardStep, FlowStep, StoreStep, GitStep, OtherStep,
     TypeOK, BoardTypes, FlowTypes, StoreTypes, GitTypes, OtherTypes
<1>2. \A u \in Tasks : Placed(u)' /\ Carried(u)'
  BY OthersStayPlaced, OthersStayCarried
<1>3. OneEach'
  BY DEF OneEach, FlowStep, Inductive, EvidenceInv
<1>4. Attributed'
  BY StepStaysAttributed
<1>5. Landed' /\ Suspended'
  BY DEF GitStep, OtherStep, Suspended
<1>6. VerifiedHasItsTask'
  BY StepStaysVerified
<1>7. SucceededIsBacked'
  BY StepStaysBacked
<1> QED
  BY <1>1, <1>2, <1>3, <1>4, <1>5, <1>6, <1>7 DEF Inductive, EvidenceInv
-----------------------------------------------------------------------------
(* The helpers that actions are made of.                                    *)

\* Whoever has a coroutine has an agent, and is neither replaced nor done.
LEMMA RunningTask ==
    ASSUME Inductive, NEW t \in Tasks, pc[t] # "idle"
    PROVE  /\ worker[t] \in Agents /\ owner[t] = worker[t]
           /\ t \notin won /\ t \notin superseded /\ mending = NoTask /\ ~replanning
           /\ out[t] \subseteq {a \in 1..made : from[a] = t} /\ out[t] \subseteq Artifacts
<1>1. Placed(t) /\ Suspended /\ Attributed
  BY DEF Inductive, EvidenceInv
<1>2. FlowTypes
  BY TypesByGroup DEF Inductive
<1> QED
  BY <1>1, <1>2 DEF Placed, Suspended, Attributed, FlowTypes

LEMMA BoardStays ==
    ASSUME Inductive, NEW t \in Tasks, UNCHANGED board
    PROVE  /\ BoardStep(t)
           /\ status' = status /\ owner' = owner /\ produced' = produced
           /\ sources' = sources /\ superseded' = superseded
<1>1. BoardTypes
  BY TypesByGroup DEF Inductive
<1> QED
  BY <1>1 DEF board, BoardTypes, BoardStep

LEMMA BoardIsSet ==
    ASSUME Inductive, NEW t \in Tasks, NEW s \in Status, SetStatus(t, s)
    PROVE  /\ BoardStep(t) /\ status'[t] = s
           /\ owner' = owner /\ produced' = produced /\ superseded' = superseded
<1>1. BoardTypes
  BY TypesByGroup DEF Inductive
<1> QED
  BY <1>1 DEF SetStatus, BoardTypes, BoardStep

LEMMA BoardIsSetFor ==
    ASSUME Inductive, NEW t \in Tasks, NEW s \in Status, NEW g \in Agents \cup {NoAgent},
           SetStatusFor(t, s, g)
    PROVE  /\ BoardStep(t) /\ status'[t] = s /\ owner'[t] = g
           /\ produced' = produced /\ superseded' = superseded
<1>1. BoardTypes
  BY TypesByGroup DEF Inductive
<1> QED
  BY <1>1 DEF SetStatusFor, BoardTypes, BoardStep

LEMMA BoardFails ==
    ASSUME Inductive, NEW t \in Tasks, pc[t] # "idle", attempts[t] < MaxAttempts, Fail(t)
    PROVE  /\ BoardStep(t) /\ status'[t] \in {"pending", "failed"}
           /\ produced' = produced /\ superseded' = superseded
<1>1. BoardTypes
  BY TypesByGroup DEF Inductive
<1>2. owner[t] = worker[t]
  BY RunningTask
<1>3. attempts[t] + 1 \in 0..MaxAttempts
  BY <1>1, EvidenceAssumption DEF BoardTypes
<1>4. attempts' = [attempts EXCEPT ![t] = attempts[t] + 1]
  BY <1>2 DEF Fail
<1>5. attempts' \in [Tasks -> 0..MaxAttempts]
  BY <1>1, <1>3, <1>4 DEF BoardTypes
<1>6. /\ status' \in [Tasks -> Status] /\ owner' \in [Tasks -> Agents \cup {NoAgent}]
      /\ status'[t] \in {"pending", "failed"}
      /\ \A u \in Tasks \ {t} : status'[u] = status[u] /\ owner'[u] = owner[u]
  BY <1>1, <1>2 DEF Fail, BoardTypes, Status
<1>7. UNCHANGED <<produced, sources, superseded, conflicted>>
  BY <1>2 DEF Fail
<1> QED
  BY <1>1, <1>5, <1>6, <1>7 DEF BoardTypes, BoardStep

LEMMA FlowStays ==
    ASSUME Inductive, NEW t \in Tasks, UNCHANGED flow
    PROVE  /\ FlowStep(t)
           /\ pc' = pc /\ worker' = worker /\ out' = out /\ seen' = seen
<1>1. FlowTypes
  BY TypesByGroup DEF Inductive
<1> QED
  BY <1>1 DEF flow, FlowTypes, FlowStep

LEMMA FlowGoes ==
    ASSUME Inductive, NEW t \in Tasks, NEW p \in Places, GoTo(t, p),
           UNCHANGED <<worker, stopped, out>>, verdict' \in [Tasks -> BOOLEAN],
           seen' \in [Tasks -> Status], \A u \in Tasks \ {t} : seen'[u] = seen[u]
    PROVE  /\ FlowStep(t) /\ pc'[t] = p
           /\ worker' = worker /\ out' = out
<1>1. FlowTypes
  BY TypesByGroup DEF Inductive
<1> QED
  BY <1>1 DEF GoTo, FlowTypes, FlowStep

LEMMA FlowEnds ==
    ASSUME Inductive, NEW t \in Tasks, Leave(t)
    PROVE  /\ FlowStep(t) /\ pc'[t] = "idle" /\ worker'[t] = NoAgent /\ out'[t] = {}
<1>1. FlowTypes
  BY TypesByGroup DEF Inductive
<1>2. "idle" \in Places /\ "absent" \in Status
  BY DEF Places, Status
<1> QED
  BY <1>1, <1>2 DEF Leave, FlowTypes, FlowStep

LEMMA StoreStays ==
    ASSUME Inductive, NEW t \in Tasks, UNCHANGED <<made, from, hash, row, mem>>,
           disk' \in [Tasks -> Files]
    PROVE  StoreStep(t)
<1>1. StoreTypes /\ Attributed
  BY TypesByGroup DEF Inductive, EvidenceInv
<1> QED
  BY <1>1 DEF StoreTypes, StoreStep, Attributed

\* An artifact of t, or one that was replaced, is marked.
LEMMA StoreIsMarked ==
    ASSUME Inductive, NEW t \in Tasks, NEW as, as \subseteq {a \in 1..made : from[a] = t},
           NEW s \in ArtifactStatus \ {"absent"}, Mark(as, s)
    PROVE  /\ StoreStep(t) /\ made' = made /\ hash' = hash /\ from' = from
           /\ \A a \in Artifacts : row'[a] = IF a \in as THEN s ELSE row[a]
<1>1. StoreTypes /\ Attributed
  BY TypesByGroup DEF Inductive, EvidenceInv
<1>2. UNCHANGED <<made, from, hash, disk>>
  BY DEF Mark
<1>3. \A a \in Artifacts : /\ row'[a] = IF a \in as THEN s ELSE row[a]
                           /\ mem'[a] = IF a \in as THEN s ELSE mem[a]
  BY DEF Mark
<1>4. row' \in [Artifacts -> ArtifactStatus] /\ mem' = row'
  BY <1>1 DEF Mark, StoreTypes, Attributed
<1>5. made \in Nat /\ 1..made \subseteq Artifacts
  BY <1>1, EvidenceAssumption DEF StoreTypes, Artifacts
<1>6. \A a \in Artifacts : row'[a] = "absent" <=> a > made
  <2> TAKE a \in Artifacts
  <2>1. a \in as => ~(a > made)
    <3>1. a \in as => a \in 1..made
      OBVIOUS
    <3> QED
      BY <1>5, <3>1
  <2>2. row[a] = "absent" <=> a > made
    BY <1>1 DEF StoreTypes
  <2> QED
    BY <1>3, <2>1, <2>2
<1>7. StoreTypes'
  BY <1>1, <1>2, <1>4, <1>6 DEF StoreTypes
<1>8. \A a \in 1..made : from[a] # t => row'[a] = row[a]
  BY <1>3, <1>5
<1>9. made' <= made /\ made <= made' /\ (made + 1)..made' = {}
  BY <1>2, <1>5
<1> QED
  BY <1>2, <1>3, <1>4, <1>7, <1>8, <1>9 DEF StoreStep

\* A new artifact of t, whose parent had been replaced.
LEMMA StoreGrows ==
    ASSUME Inductive, NEW t \in Tasks, NEW content \in Files, NEW parent \in Parents(t),
           NEW s \in ArtifactStatus \ {"absent"}, Publish(t, content, parent, s)
    PROVE  /\ StoreStep(t) /\ made' = made + 1 /\ made + 1 \in Artifacts
           /\ hash'[made + 1] = content /\ row'[made + 1] = s
           /\ \A a \in 1..made : hash'[a] = hash[a]
           /\ \A a \in Artifacts : row'[a] = "verified" => row[a] = "verified" \/ s = "verified"
<1>1. StoreTypes /\ Attributed
  BY TypesByGroup DEF Inductive, EvidenceInv
<1>2. made < MaxArtifacts /\ made' = made + 1
  BY DEF Publish
<1>3. /\ made \in Nat /\ made + 1 \in Artifacts /\ 1..made \subseteq Artifacts
      /\ made' \in 0..MaxArtifacts
  BY <1>1, <1>2, EvidenceAssumption DEF StoreTypes, Artifacts
<1>4. parent \subseteq {a \in 1..made : from[a] \in superseded}
  BY <1>1 DEF Attributed, Parents
<1>5. \A a \in Artifacts :
          row'[a] = IF a = made + 1 THEN s ELSE IF a \in parent THEN "superseded" ELSE row[a]
  BY DEF Publish, Inserted
<1>6. row' \in [Artifacts -> ArtifactStatus] /\ mem' = row'
  BY <1>1 DEF Publish, Inserted, StoreTypes, Attributed, ArtifactStatus
<1>7. \A a \in Artifacts : row'[a] = "absent" <=> a > made + 1
  <2> TAKE a \in Artifacts
  <2>1. a \in Nat /\ (a > made + 1 <=> a > made /\ a # made + 1) /\ (a \in parent => a <= made)
    BY <1>3, <1>4 DEF Artifacts
  <2>2. row[a] = "absent" <=> a > made
    BY <1>1 DEF StoreTypes
  <2> QED
    BY <1>3, <1>5, <2>1, <2>2
<1>8. /\ from' = [from EXCEPT ![made + 1] = t] /\ hash' = [hash EXCEPT ![made + 1] = content]
      /\ disk' = [disk EXCEPT ![t] = content]
  BY DEF Publish
<1>9. StoreTypes'
  BY <1>1, <1>2, <1>3, <1>6, <1>7, <1>8 DEF StoreTypes
<1>10. \A a \in 1..made : a # made + 1
  BY <1>3
<1>11. \A a \in 1..made : from'[a] = from[a] /\ hash'[a] = hash[a]
  BY <1>1, <1>3, <1>8, <1>10 DEF StoreTypes
<1>12. \A a \in 1..made : from[a] \notin superseded => row'[a] = row[a]
  BY <1>3, <1>4, <1>5, <1>10
<1>13. from'[made + 1] = t /\ hash'[made + 1] = content
  BY <1>1, <1>3, <1>8 DEF StoreTypes
<1>14. \A a \in (made + 1)..made' : a = made + 1
  BY <1>2, <1>3
<1> QED
  BY <1>2, <1>3, <1>5, <1>6, <1>9, <1>11, <1>12, <1>13, <1>14 DEF StoreStep

LEMMA GitStays ==
    ASSUME Inductive, NEW t \in Tasks, UNCHANGED <<work, head, merged, trunk, landed>>,
           lease' \in [Agents -> {"none", "active", "expired"}]
    PROVE  GitStep(t)
<1>1. GitTypes /\ Landed
  BY TypesByGroup DEF Inductive, EvidenceInv
<1> QED
  BY <1>1 DEF GitTypes, GitStep, Landed

LEMMA OthersStay ==
    ASSUME Inductive, NEW t \in Tasks, UNCHANGED <<ghosts, mending, replanning, voided>>,
           cancelled' \in BOOLEAN, run' \in {"working", "completed", "failed", "waiting_human"},
           won' = won, unearned' \subseteq Tasks \cup {NoTask},
           torn' = torn \/ torn' = TRUE, troubles' = troubles \/ Trouble
    PROVE  OtherStep(t) /\ GhostStep(t)
<1>1. OtherTypes
  BY TypesByGroup DEF Inductive
<1>2. troubles' \in 0..MaxTroubles
  BY <1>1, EvidenceAssumption DEF OtherTypes, Trouble
<1> QED
  BY <1>1, <1>2 DEF OtherTypes, OtherStep, GhostStep

LEMMA CalmIsCalm ==
    ASSUME Inductive, NEW t \in Tasks, Calm \/ TroubleOnly
    PROVE  OtherStep(t) /\ GhostStep(t) /\ won' = won
<1>1. OtherTypes
  BY TypesByGroup DEF Inductive
<1>2. UNCHANGED <<ghosts, mending, replanning, voided, cancelled, run, won, unearned, torn>>
  BY DEF Calm, TroubleOnly, graph
<1>3. troubles' = troubles \/ Trouble
  BY DEF Calm, TroubleOnly
<1> QED
  BY <1>1, <1>2, <1>3, OthersStay DEF OtherTypes

\* The evidence of a completion that does not pass its end is not verified.
LEMMA NothingNewIsVerified ==
    ASSUME NEW t \in Tasks, pc[t] # "evidenced",
           \A a \in Artifacts : row'[a] = "verified" => row[a] = "verified"
    PROVE  Justified(t)
  BY DEF Justified
-----------------------------------------------------------------------------
(* The shapes of the actions: the coroutine moves on, or it is over.        *)

LEMMA MovesKeepOrder ==
    ASSUME Inductive, NEW t \in Tasks, pc[t] \notin {"idle", "evidenced"},
           NEW p \in Places, GoTo(t, p), UNCHANGED <<worker, stopped, out>>,
           verdict' \in [Tasks -> BOOLEAN],
           seen' \in [Tasks -> Status], \A u \in Tasks \ {t} : seen'[u] = seen[u],
           UNCHANGED board, UNCHANGED store, UNCHANGED <<work, head, merged, trunk, landed>>,
           lease' \in [Agents -> {"none", "active", "expired"}],
           OtherStep(t), GhostStep(t), won' = won,
           Placed(t)', Carried(t)'
    PROVE  Inductive'
<1>1. BoardStep(t)
  BY BoardStays
<1>2. FlowStep(t) /\ worker' = worker
  BY FlowGoes
<1>3. disk' \in [Tasks -> Files] /\ UNCHANGED <<made, from, hash, row, mem>>
  BY TypesByGroup DEF store, Inductive, StoreTypes
<1>4. StoreStep(t) /\ Justified(t)
  BY <1>3, StoreStays, NothingNewIsVerified
<1>5. GitStep(t)
  BY GitStays
<1>6. t \notin won /\ t \notin superseded /\ mending = NoTask /\ ~replanning
  BY RunningTask
<1> QED
  BY <1>1, <1>2, <1>4, <1>5, <1>6, StepKeepsOrder

\* Where a task is left by its coroutine.
Left == {"pending", "failed", "cancelled", "replan_required", "repair_required"}

LEMMA EndsKeepOrder ==
    ASSUME Inductive, NEW t \in Tasks, pc[t] # "idle", Leave(t), status'[t] \in Left,
           BoardStep(t), StoreStep(t), GitStep(t), OtherStep(t), GhostStep(t), won' = won,
           Justified(t)
    PROVE  Inductive'
<1>1. FlowStep(t) /\ pc'[t] = "idle" /\ worker'[t] = NoAgent /\ out'[t] = {}
  BY FlowEnds
<1>2. t \notin won /\ t \notin superseded /\ mending = NoTask /\ ~replanning
  BY RunningTask
<1>3. superseded' = superseded
  BY DEF BoardStep
<1>4. Placed(t)'
  BY <1>1, <1>2, <1>3 DEF Placed, Left, Attempting, Completing
<1>5. Carried(t)'
  BY <1>1 DEF Carried, Attempting, Completing
<1> QED
  BY <1>1, <1>2, <1>4, <1>5, StepKeepsOrder

LEMMA FailsKeepOrder ==
    ASSUME Inductive, NEW t \in Tasks, pc[t] # "idle", Fails(t),
           StoreStep(t), GitStep(t), OtherStep(t), GhostStep(t), won' = won, Justified(t)
    PROVE  Inductive'
<1>1. BoardStep(t) /\ status'[t] \in Left
  BY BoardFails DEF Fails, Left
<1> QED
  BY <1>1, EndsKeepOrder DEF Fails

\* A completion that finds itself fenced off takes its evidence back.
LEMMA ConflictsKeepOrder ==
    ASSUME Inductive, NEW t \in Tasks, pc[t] # "idle", status[t] \in Fenced, GitStep(t),
           NEW arts, arts \in {out[t], Unprotected(t)}, Conflict(t, arts)
    PROVE  Inductive'
<1>1. BoardStep(t) /\ status'[t] \in Left /\ Leave(t)
  BY BoardStays DEF Conflict, Fenced, Left
<1>2. arts = out[t]
  BY DEF Unprotected, Fenced
<1>3. out[t] \subseteq {a \in 1..made : from[a] = t}
  BY RunningTask
<1>4. CASE Mark(arts, "rejected") /\ Calm
  <2>1. /\ StoreStep(t)
        /\ \A a \in Artifacts : row'[a] = IF a \in out[t] THEN "rejected" ELSE row[a]
    BY <1>2, <1>3, <1>4, StoreIsMarked DEF ArtifactStatus
  <2>2. Justified(t)
    BY <2>1 DEF Justified
  <2> QED
    BY <1>1, <1>4, <2>1, <2>2, CalmIsCalm, EndsKeepOrder
<1>5. CASE /\ UNCHANGED store /\ Trouble /\ torn' = TRUE
           /\ UNCHANGED <<ghosts, graph, won, unearned>>
  <2>1. disk' \in [Tasks -> Files] /\ UNCHANGED <<made, from, hash, row, mem>>
    BY <1>5, TypesByGroup DEF store, Inductive, StoreTypes
  <2>2. StoreStep(t)
    BY <2>1, StoreStays
  <2>3. Justified(t)
    BY <1>5 DEF Justified
  <2>4. OtherStep(t) /\ GhostStep(t)
    BY <1>5, OthersStay, TypesByGroup DEF Inductive, OtherTypes, graph
  <2> QED
    BY <1>1, <1>5, <2>2, <2>3, <2>4, EndsKeepOrder
<1> QED
  BY <1>4, <1>5 DEF Conflict

\* The store is left alone while nobody's success is being committed.
LEMMA StoreIsLeft ==
    ASSUME Inductive, NEW t \in Tasks, pc[t] # "evidenced", UNCHANGED store
    PROVE  StoreStep(t) /\ Justified(t)
<1>1. disk' \in [Tasks -> Files] /\ UNCHANGED <<made, from, hash, row, mem>>
  BY TypesByGroup DEF store, Inductive, StoreTypes
<1> QED
  BY <1>1, StoreStays, NothingNewIsVerified

LEMMA GitIsLeft ==
    ASSUME Inductive, NEW t \in Tasks, UNCHANGED git
    PROVE  GitStep(t) /\ work' = work /\ head' = head /\ landed' = landed
<1>1. /\ UNCHANGED <<work, head, merged, trunk, landed>>
      /\ lease' \in [Agents -> {"none", "active", "expired"}]
  BY TypesByGroup DEF git, Inductive, GitTypes
<1> QED
  BY <1>1, GitStays

LEMMA GitIsCommitted ==
    ASSUME Inductive, NEW t \in Tasks, pc[t] # "idle", CommitWork(worker[t])
    PROVE  GitStep(t) /\ head'[worker[t]] = work[worker[t]]
<1>1. GitTypes /\ Landed
  BY TypesByGroup DEF Inductive, EvidenceInv
<1>2. worker[t] \in Agents
  BY RunningTask
<1> QED
  BY <1>1, <1>2 DEF CommitWork, GitTypes, GitStep, Landed

-----------------------------------------------------------------------------
(* The worker thread.                                                      *)

LEMMA EditKeepsOrder ==
    ASSUME Inductive, NEW t \in Tasks, NEW c \in Contents, Edit(t, c)
    PROVE  Inductive'
<1>1. pc[t] = "executing" /\ work' = [work EXCEPT ![worker[t]] = c]
  BY DEF Edit
<1>2. /\ worker[t] \in Agents
      /\ t \notin won /\ t \notin superseded /\ mending = NoTask /\ ~replanning
  BY <1>1, RunningTask
<1>3. BoardStep(t) /\ status' = status /\ owner' = owner /\ produced' = produced
      /\ superseded' = superseded
  BY BoardStays DEF Edit
<1>4. FlowStep(t) /\ pc' = pc /\ worker' = worker /\ out' = out /\ seen' = seen
  BY FlowStays DEF Edit
<1>5. StoreStep(t) /\ Justified(t)
  BY <1>1, StoreIsLeft DEF Edit
<1>6. GitStep(t)
  <2>1. GitTypes /\ Landed
    BY TypesByGroup DEF Inductive, EvidenceInv
  <2> QED
    BY <1>1, <1>2, <2>1 DEF Edit, GitTypes, GitStep, Landed, Files
<1>7. OtherStep(t) /\ GhostStep(t) /\ won' = won
  BY CalmIsCalm DEF Edit
<1>8. Placed(t)'
  BY <1>3, <1>4, <1>7 DEF Placed, Inductive, EvidenceInv
<1>9. Carried(t)'
  BY <1>1, <1>3, <1>4 DEF Carried, Inductive, EvidenceInv, Attempting, Completing
<1> QED
  BY <1>2, <1>3, <1>4, <1>5, <1>6, <1>7, <1>8, <1>9, StepKeepsOrder

\* A step of the thread within its attempt, with nothing published.
LEMMA AttemptsMoveOn ==
    ASSUME Inductive, NEW t \in Tasks, NEW p \in Attempting, GoTo(t, p), pc[t] \in Attempting,
           p # "created", p = "returned" => out[t] = {} \/ pc[t] = "created",
           p \in {"assigned", "executing", "checked"} => out[t] = {},
           UNCHANGED <<board, worker, stopped, out, verdict, seen, store>>,
           UNCHANGED <<work, head, merged, trunk, landed>>,
           lease' \in [Agents -> {"none", "active", "expired"}], Calm \/ TroubleOnly
    PROVE  Inductive'
<1>1. Placed(t) /\ Carried(t) /\ FlowTypes
  BY TypesByGroup DEF Inductive, EvidenceInv
<1>2. OtherStep(t) /\ GhostStep(t) /\ won' = won
  BY CalmIsCalm
<1>3. p \in Places /\ p # "idle" /\ pc[t] \notin {"idle", "evidenced"}
  BY DEF Attempting, Places
<1>4. pc'[t] = p
  BY <1>1 DEF GoTo, FlowTypes
<1>5. UNCHANGED <<status, owner, produced, superseded, row, hash>>
  BY DEF board, store
<1>6. Placed(t)'
  BY <1>1, <1>2, <1>3, <1>4, <1>5 DEF Placed, Attempting, Completing
<1>7. Carried(t)'
  BY <1>1, <1>3, <1>4, <1>5 DEF Carried, Attempting, Completing
<1> QED
  BY <1>1, <1>2, <1>3, <1>6, <1>7, MovesKeepOrder DEF FlowTypes

LEMMA LeaseIsTyped ==
    ASSUME Inductive, UNCHANGED git
    PROVE  /\ lease' \in [Agents -> {"none", "active", "expired"}]
           /\ UNCHANGED <<work, head, merged, trunk, landed>>
  BY TypesByGroup DEF git, Inductive, GitTypes

LEMMA ScanKeepsOrder ==
    ASSUME Inductive, NEW t \in Tasks, Scan(t)
    PROVE  Inductive'
<1>1. pc[t] = "executing" /\ out[t] = {}
  BY DEF Scan, Inductive, EvidenceInv, Carried
<1>2. PICK p \in {"returned", "checked"} : GoTo(t, p)
  BY DEF Scan
<1> QED
  BY <1>1, <1>2, LeaseIsTyped, AttemptsMoveOn DEF Scan, Attempting

LEMMA HaltsKeepsOrder ==
    ASSUME Inductive, NEW t \in Tasks, Halts(t)
    PROVE  Inductive'
  BY LeaseIsTyped, AttemptsMoveOn DEF Halts, Attempting

LEMMA PublishRaisesKeepsOrder ==
    ASSUME Inductive, NEW t \in Tasks, PublishRaises(t)
    PROVE  Inductive'
  BY LeaseIsTyped, AttemptsMoveOn DEF PublishRaises, Attempting
LEMMA CreateKeepsOrder ==
    ASSUME Inductive, NEW t \in Tasks, Create(t)
    PROVE  Inductive'
<1>1. pc[t] = "checked" /\ out[t] = {} /\ Placed(t)
  BY DEF Create, Inductive, EvidenceInv, Carried
<1>2. /\ worker[t] \in Agents /\ work[worker[t]] \in Files
      /\ t \notin won /\ t \notin superseded /\ mending = NoTask /\ ~replanning
  BY <1>1, RunningTask, TypesByGroup DEF Inductive, GitTypes
<1>3. PICK parent \in Parents(t) : Publish(t, work[worker[t]], parent, "published")
  BY DEF Create
<1>4. /\ StoreStep(t) /\ made' = made + 1 /\ made + 1 \in Artifacts
      /\ hash'[made + 1] = work[worker[t]]
      /\ \A a \in Artifacts : row'[a] = "verified" => row[a] = "verified"
  BY <1>2, <1>3, StoreGrows DEF ArtifactStatus
<1>5. BoardStep(t) /\ status' = status /\ owner' = owner /\ produced' = produced
      /\ superseded' = superseded
  BY BoardStays DEF Create
<1>6. /\ out' = [out EXCEPT ![t] = out[t] \cup {made + 1}]
      /\ pc' = [pc EXCEPT ![t] = "created"]
      /\ UNCHANGED <<worker, stopped, verdict, seen>>
  BY DEF Create, GoTo
<1>7. FlowTypes /\ made \in Nat
  BY TypesByGroup DEF Inductive, StoreTypes
<1>8. FlowStep(t) /\ pc'[t] = "created" /\ out'[t] = {made + 1}
  BY <1>1, <1>4, <1>6, <1>7 DEF FlowStep, FlowTypes, Places
<1>9. GitStep(t) /\ work' = work
  BY GitIsLeft DEF Create
<1>10. OtherStep(t) /\ GhostStep(t) /\ won' = won
  BY CalmIsCalm DEF Create
<1>11. Placed(t)'
  BY <1>1, <1>5, <1>6, <1>8, <1>10 DEF Placed, Attempting, Completing
<1>12. Carried(t)'
  <2>1. produced[t] \subseteq 1..made
    BY DEF Inductive, EvidenceInv, Attributed
  <2>2. out'[t] \cap produced'[t] = {}
    BY <2>1, <1>5, <1>7, <1>8
  <2> QED
    BY <2>2, <1>4, <1>6, <1>8, <1>9 DEF Carried, Attempting, Completing
<1>13. Justified(t)
  BY <1>1, <1>4, NothingNewIsVerified
<1> QED
  BY <1>2, <1>4, <1>5, <1>6, <1>8, <1>9, <1>10, <1>11, <1>12, <1>13, StepKeepsOrder

LEMMA CreateRaisesKeepsOrder ==
    ASSUME Inductive, NEW t \in Tasks, CreateRaises(t)
    PROVE  Inductive'
<1>1. pc[t] = "checked" /\ Placed(t) /\ Carried(t)
  BY DEF CreateRaises, Inductive, EvidenceInv
<1>2. /\ worker[t] \in Agents /\ work[worker[t]] \in Files
      /\ t \notin won /\ t \notin superseded /\ mending = NoTask /\ ~replanning
  BY <1>1, RunningTask, TypesByGroup DEF Inductive, GitTypes
<1>3. StoreStep(t) /\ Justified(t)
  <2>1. disk' \in [Tasks -> Files]
    BY <1>2, TypesByGroup DEF CreateRaises, Inductive, StoreTypes
  <2> QED
    BY <1>1, <2>1, StoreStays, NothingNewIsVerified DEF CreateRaises
<1>4. BoardStep(t) /\ status' = status /\ owner' = owner /\ produced' = produced
      /\ superseded' = superseded
  BY BoardStays DEF CreateRaises
<1>5. FlowStep(t) /\ pc'[t] = "errored" /\ worker' = worker /\ out' = out
  BY FlowGoes, TypesByGroup DEF CreateRaises, Inductive, FlowTypes, Places
<1>6. GitStep(t)
  BY GitIsLeft DEF CreateRaises
<1>7. OtherStep(t) /\ GhostStep(t) /\ won' = won
  BY CalmIsCalm DEF CreateRaises
<1>8. Placed(t)' /\ Carried(t)'
  BY <1>1, <1>4, <1>5, <1>7 DEF Placed, Carried, Attempting, Completing
<1> QED
  BY <1>2, <1>3, <1>4, <1>5, <1>6, <1>7, <1>8, StepKeepsOrder

LEMMA CheckPublishedKeepsOrder ==
    ASSUME Inductive, NEW t \in Tasks, CheckPublished(t)
    PROVE  Inductive'
<1>1. pc[t] = "created" /\ Placed(t) /\ Carried(t)
  BY DEF CheckPublished, Inductive, EvidenceInv
<1>2. CASE ~Told(t)
  BY <1>1, <1>2, LeaseIsTyped, AttemptsMoveOn DEF CheckPublished, Attempting
<1>3. CASE Told(t)
  <2>1. /\ t \notin won /\ t \notin superseded /\ mending = NoTask /\ ~replanning
        /\ out[t] \subseteq {a \in 1..made : from[a] = t}
    BY <1>1, RunningTask
  <2>2. /\ StoreStep(t)
        /\ \A a \in Artifacts : row'[a] = IF a \in out[t] THEN "rejected" ELSE row[a]
    BY <1>3, <2>1, StoreIsMarked DEF CheckPublished, ArtifactStatus
  <2>3. Justified(t)
    BY <1>1, <2>2, NothingNewIsVerified
  <2>4. BoardStep(t) /\ status' = status /\ owner' = owner /\ produced' = produced
        /\ superseded' = superseded
    BY BoardStays DEF CheckPublished
  <2>5. FlowStep(t) /\ pc'[t] = "errored" /\ worker' = worker /\ out' = out
    BY <1>3, FlowGoes, TypesByGroup DEF CheckPublished, Inductive, FlowTypes, Places
  <2>6. GitStep(t)
    BY GitIsLeft DEF CheckPublished
  <2>7. OtherStep(t) /\ GhostStep(t) /\ won' = won
    BY CalmIsCalm DEF CheckPublished
  <2>8. Placed(t)' /\ Carried(t)'
    BY <1>1, <2>4, <2>5, <2>7 DEF Placed, Carried, Attempting, Completing
  <2> QED
    BY <2>1, <2>2, <2>3, <2>4, <2>5, <2>6, <2>7, <2>8, StepKeepsOrder
<1> QED
  BY <1>2, <1>3

LEMMA WorkersKeepOrder ==
    ASSUME Inductive, NEW t \in Tasks, Worker(t)
    PROVE  Inductive'
  BY EditKeepsOrder, ScanKeepsOrder, HaltsKeepsOrder, CreateKeepsOrder, CreateRaisesKeepsOrder,
     CheckPublishedKeepsOrder, PublishRaisesKeepsOrder DEF Worker

-----------------------------------------------------------------------------
(* The coroutine's first half: the attempt.                                *)

LEMMA BeginKeepsOrder ==
    ASSUME Inductive, NEW t \in Tasks, NEW g \in Agents, Begin(t, g)
    PROVE  Inductive'
<1>1. /\ pc[t] = "idle" /\ status[t] = "pending" /\ mending = NoTask /\ ~replanning
      /\ \A s \in Tasks : worker[s] # g
      /\ Placed(t) /\ Carried(t)
  BY DEF Begin, Inductive, EvidenceInv
<1>2. t \notin won /\ t \notin superseded
  BY <1>1 DEF Placed, Fenced
<1>3. /\ BoardStep(t) /\ status'[t] = "running" /\ owner'[t] = g
      /\ produced' = produced /\ superseded' = superseded
  BY BoardIsSetFor DEF Begin, Status
<1>4. FlowStep(t) /\ pc'[t] = "assigned" /\ worker'[t] = g /\ out' = out
  <2>1. FlowTypes
    BY TypesByGroup DEF Inductive
  <2> QED
    BY <2>1 DEF Begin, GoTo, FlowStep, FlowTypes, Places
<1>5. StoreStep(t) /\ Justified(t)
  BY <1>1, StoreIsLeft DEF Begin
<1>6. GitStep(t)
  BY GitIsLeft DEF Begin
<1>7. OtherStep(t) /\ GhostStep(t) /\ won' = won
  BY CalmIsCalm DEF Begin
<1>8. g # NoAgent
  BY EvidenceAssumption
<1>9. Placed(t)'
  BY <1>2, <1>3, <1>4, <1>7, <1>8 DEF Placed, Attempting, Completing
<1>10. Carried(t)'
  BY <1>1, <1>4 DEF Carried, Attempting, Completing
<1> QED
  BY <1>1, <1>2, <1>3, <1>4, <1>5, <1>6, <1>7, <1>9, <1>10, StepKeepsOrder

LEMMA AcquireKeepsOrder ==
    ASSUME Inductive, NEW t \in Tasks, Acquire(t)
    PROVE  Inductive'
<1>1. pc[t] = "assigned" /\ out[t] = {}
  BY DEF Acquire, Inductive, EvidenceInv, Carried
<1>2. lease' \in [Agents -> {"none", "active", "expired"}]
  BY TypesByGroup DEF Acquire, Inductive, GitTypes
<1> QED
  BY <1>1, <1>2, AttemptsMoveOn DEF Acquire, Attempting

LEMMA AcquireRaisesKeepsOrder ==
    ASSUME Inductive, NEW t \in Tasks, AcquireRaises(t)
    PROVE  Inductive'
<1>1. pc[t] = "assigned"
  BY DEF AcquireRaises
<1>2. lease' \in [Agents -> {"none", "active", "expired"}]
  BY TypesByGroup DEF AcquireRaises, Inductive, GitTypes
<1>3. GitStep(t)
  BY <1>2, GitStays DEF AcquireRaises
<1>4. StoreStep(t) /\ Justified(t)
  BY <1>1, StoreIsLeft DEF AcquireRaises
<1>5. OtherStep(t) /\ GhostStep(t) /\ won' = won
  BY CalmIsCalm DEF AcquireRaises
<1> QED
  BY <1>1, <1>3, <1>4, <1>5, FailsKeepOrder DEF AcquireRaises

LEMMA TimesOutKeepsOrder ==
    ASSUME Inductive, NEW t \in Tasks, TimesOut(t)
    PROVE  Inductive'
<1>1. pc[t] \in {"executing", "checked", "created"} /\ Carried(t)
  BY DEF TimesOut, Inductive, EvidenceInv
<1>2. /\ worker[t] \in Agents
      /\ out[t] \subseteq {a \in 1..made : from[a] = t} /\ out[t] \subseteq Artifacts
  BY <1>1, RunningTask
<1>3. GitStep(t)
  BY GitIsLeft DEF TimesOut
<1>4. StoreStep(t) /\ Justified(t)
  BY <1>1, StoreIsLeft DEF TimesOut
<1>5. BoardStep(t) /\ produced' = produced
  BY <1>1, BoardFails DEF TimesOut, Fails
<1>6. out'[t] = {}
  BY FlowEnds DEF TimesOut, Fails
<1>7. PICK as \in {{0}, out[t], {}} :
          ghosts' = ghosts \cup {[task |-> t, agent |-> worker[t], art |-> a] : a \in as}
  BY DEF TimesOut
<1>8. as \subseteq 0..MaxArtifacts
  <2>1. MaxArtifacts \in Nat
    BY EvidenceAssumption
  <2>2. Artifacts \subseteq 0..MaxArtifacts /\ 0 \in 0..MaxArtifacts
    BY <2>1 DEF Artifacts
  <2> QED
    BY <1>2, <2>2
<1>9. OtherTypes
  BY TypesByGroup DEF Inductive
<1>10. OtherStep(t)
  <2>1. ghosts' \subseteq [task : Tasks, agent : Agents, art : 0..MaxArtifacts]
    <3> SUFFICES ASSUME NEW g \in ghosts'
                 PROVE  g \in [task : Tasks, agent : Agents, art : 0..MaxArtifacts]
      OBVIOUS
    <3>1. CASE g \in ghosts
      BY <1>9, <3>1 DEF OtherTypes
    <3>2. CASE g \notin ghosts
      <4>1. PICK a \in as : g = [task |-> t, agent |-> worker[t], art |-> a]
        BY <1>7, <3>2
      <4>2. a \in 0..MaxArtifacts
        BY <1>8
      <4> QED
        BY <1>2, <4>1, <4>2
    <3> QED
      BY <3>1, <3>2
  <2> QED
    BY <1>9, <2>1 DEF TimesOut, graph, OtherTypes, OtherStep
<1>11. GhostStep(t)
  <2> SUFFICES ASSUME NEW g \in ghosts', g \notin ghosts
               PROVE  g.task = t /\ (g.art # 0 => g.art \in out[t] \ produced'[t])
    BY <1>6 DEF GhostStep
  <2>1. PICK a \in as : g = [task |-> t, agent |-> worker[t], art |-> a]
    BY <1>7
  <2>2. a # 0 => a \in out[t]
    BY <1>7
  <2>3. out[t] \cap produced[t] = {}
    BY <1>1 DEF Carried, Attempting
  <2> QED
    BY <2>1, <2>2, <2>3, <1>5
<1>12. won' = won
  BY DEF TimesOut
<1> QED
  BY <1>1, <1>3, <1>4, <1>10, <1>11, <1>12, FailsKeepOrder DEF TimesOut

LEMMA DropKeepsOrder ==
    ASSUME Inductive, NEW t \in Tasks, Drop(t)
    PROVE  Inductive'
<1>1. pc[t] \in {"returned", "errored"} /\ Placed(t)
  BY DEF Drop, Inductive, EvidenceInv
<1>2. status[t] \in Fenced \cup {"running"} /\ owner[t] = worker[t]
  BY <1>1 DEF Placed, Attempting
<1>3. BoardStep(t) /\ status'[t] \in Left
  <2>1. CASE UNCHANGED board /\ status[t] \in Fenced
    BY <2>1, BoardStays DEF Fenced, Left
  <2>2. CASE SetStatus(t, "cancelled")
    BY <2>2, BoardIsSet DEF Status, Left
  <2>3. CASE SetStatusFor(t, "pending", NoAgent)
    BY <2>3, BoardIsSetFor DEF Status, Left
  <2> QED
    BY <1>2, <2>1, <2>2, <2>3 DEF Drop, Fenced
<1>4. StoreStep(t) /\ Justified(t) /\ GitStep(t)
  BY <1>1, StoreIsLeft, GitIsLeft DEF Drop
<1>5. OtherStep(t) /\ GhostStep(t) /\ won' = won
  BY CalmIsCalm DEF Drop
<1> QED
  BY <1>1, <1>3, <1>4, <1>5, EndsKeepOrder DEF Drop

LEMMA ExecutionFailsKeepsOrder ==
    ASSUME Inductive, NEW t \in Tasks, ExecutionFails(t)
    PROVE  Inductive'
<1>1. pc[t] = "errored"
  BY DEF ExecutionFails
<1>2. StoreStep(t) /\ Justified(t) /\ GitStep(t)
  BY <1>1, StoreIsLeft, GitIsLeft DEF ExecutionFails
<1>3. OtherStep(t) /\ GhostStep(t) /\ won' = won
  BY CalmIsCalm DEF ExecutionFails
<1> QED
  BY <1>1, <1>2, <1>3, FailsKeepOrder DEF ExecutionFails
-----------------------------------------------------------------------------
(* The coroutine's second half: commit, verdict, merge, evidence, success.  *)

LEMMA CommitKeepsOrder ==
    ASSUME Inductive, NEW t \in Tasks, Commit(t)
    PROVE  Inductive'
<1>1. pc[t] = "returned" /\ Placed(t) /\ Carried(t) /\ CommitWork(worker[t])
  BY DEF Commit, Inductive, EvidenceInv
<1>2. /\ owner[t] = worker[t] /\ t \notin won /\ t \notin superseded
      /\ mending = NoTask /\ ~replanning /\ out[t] \subseteq Artifacts
  BY <1>1, RunningTask
<1>3. GitStep(t) /\ head'[worker[t]] = work[worker[t]]
  BY <1>1, GitIsCommitted
<1>4. CASE status[t] # "running"
  <2>1. status[t] \in Fenced
    BY <1>1, <1>4 DEF Placed, Attempting
  <2> QED
    BY <1>1, <1>3, <1>4, <2>1, ConflictsKeepOrder DEF Commit
<1>5. CASE status[t] = "running"
  <2>1. /\ status' = [status EXCEPT ![t] = "produced"]
        /\ produced' = [produced EXCEPT ![t] = out[t]]
        /\ GoTo(t, "produced")
        /\ UNCHANGED <<owner, attempts, sources, superseded, conflicted>>
        /\ UNCHANGED <<worker, stopped, out, verdict, seen, store>> /\ Calm
    BY <1>2, <1>5 DEF Commit
  <2>2. BoardTypes
    BY TypesByGroup DEF Inductive
  <2>3. BoardStep(t) /\ status'[t] = "produced" /\ produced'[t] = out[t]
    BY <1>2, <2>1, <2>2 DEF BoardTypes, BoardStep, Status
  <2>4. FlowStep(t) /\ pc'[t] = "produced"
    BY <2>1, FlowGoes, TypesByGroup DEF Inductive, FlowTypes, Places
  <2>5. StoreStep(t) /\ Justified(t)
    BY <1>1, <2>1, StoreIsLeft
  <2>6. OtherStep(t) /\ GhostStep(t) /\ won' = won
    BY <2>1, CalmIsCalm
  <2>7. Placed(t)'
    BY <1>1, <1>2, <2>1, <2>3, <2>4, <2>6 DEF Placed, Attempting, Completing
  <2>8. hash' = hash
    BY <2>1 DEF store
  <2>9. Carried(t)'
    BY <1>1, <1>3, <2>1, <2>3, <2>4, <2>8 DEF Carried, Attempting, Completing
  <2> QED
    BY <1>2, <1>3, <2>1, <2>3, <2>4, <2>5, <2>6, <2>7, <2>9, StepKeepsOrder
<1> QED
  BY <1>4, <1>5

LEMMA CommitRaisesKeepsOrder ==
    ASSUME Inductive, NEW t \in Tasks, CommitRaises(t)
    PROVE  Inductive'
<1>1. pc[t] = "returned"
  BY DEF CommitRaises
<1>2. GitStep(t)
  BY <1>1, GitIsCommitted DEF CommitRaises
<1>3. StoreStep(t) /\ Justified(t)
  BY <1>1, StoreIsLeft DEF CommitRaises
<1>4. OtherStep(t) /\ GhostStep(t) /\ won' = won
  BY CalmIsCalm DEF CommitRaises
<1> QED
  BY <1>1, <1>2, <1>3, <1>4, FailsKeepOrder DEF CommitRaises

\* A completion that moves on, its evidence as it is.
LEMMA CompletionsMoveOn ==
    ASSUME Inductive, NEW t \in Tasks, NEW p \in Completing, GoTo(t, p),
           pc[t] \in Completing \ {"evidenced"}, p \notin {"merged", "evidenced"},
           BoardStep(t), owner' = owner, produced' = produced,
           status'[t] \in Fenced \cup {IF p = "produced" THEN "produced" ELSE "verifying"},
           UNCHANGED <<worker, stopped, out, store, git>>,
           verdict' \in [Tasks -> BOOLEAN],
           seen' \in [Tasks -> Status], \A u \in Tasks \ {t} : seen'[u] = seen[u],
           p = "saving" => seen'[t] \in Fenced \cup {"verifying"},
           OtherStep(t), GhostStep(t), won' = won
    PROVE  Inductive'
<1>1. Placed(t) /\ Carried(t)
  BY DEF Inductive, EvidenceInv
<1>2. p \in Places /\ pc[t] \notin {"idle", "evidenced"}
  BY DEF Completing, Places
<1>3. t \notin won /\ t \notin superseded /\ mending = NoTask /\ ~replanning
  BY <1>2, RunningTask
<1>4. FlowStep(t) /\ pc'[t] = p
  BY <1>2, FlowGoes
<1>5. StoreStep(t) /\ Justified(t) /\ GitStep(t) /\ head' = head
  BY <1>2, StoreIsLeft, GitIsLeft
<1>6. superseded' = superseded /\ hash' = hash
  BY DEF BoardStep, store
<1>7. pc[t] # "idle" /\ pc[t] \in Completing
  BY <1>2
<1>8. p # "idle" /\ p \notin Attempting /\ p \notin {"created", "returned", "merged", "evidenced"}
      /\ p \notin {"idle", "assigned", "executing", "checked"}
  BY DEF Attempting, Completing
<1>9. Placed(t)'
  BY <1>1, <1>3, <1>4, <1>6, <1>7, <1>8 DEF Placed, Fenced
<1>10. Carried(t)'
  BY <1>1, <1>4, <1>5, <1>6, <1>7, <1>8 DEF Carried
<1> QED
  BY <1>3, <1>4, <1>5, <1>9, <1>10, StepKeepsOrder

LEMMA StartVerifyingKeepsOrder ==
    ASSUME Inductive, NEW t \in Tasks, StartVerifying(t)
    PROVE  Inductive'
<1>1. pc[t] = "produced" /\ Placed(t) /\ GitStep(t)
  BY GitIsLeft DEF StartVerifying, Inductive, EvidenceInv
<1>2. CASE status[t] # "produced"
  <2>1. status[t] \in Fenced
    BY <1>1, <1>2 DEF Placed
  <2> QED
    BY <1>1, <1>2, <2>1, ConflictsKeepOrder DEF StartVerifying
<1>3. CASE status[t] = "produced"
  <2>1. SetStatus(t, "verifying") /\ GoTo(t, "hashing")
        /\ UNCHANGED <<worker, stopped, out, verdict, seen, store>> /\ Calm /\ UNCHANGED git
    BY <1>3 DEF StartVerifying
  <2>2. BoardStep(t) /\ status'[t] = "verifying" /\ owner' = owner /\ produced' = produced
    BY <2>1, BoardIsSet DEF Status
  <2>3. OtherStep(t) /\ GhostStep(t) /\ won' = won
    BY <2>1, CalmIsCalm
  <2> QED
    BY <1>1, <2>1, <2>2, <2>3, CompletionsMoveOn, TypesByGroup DEF Inductive, FlowTypes, Completing
<1> QED
  BY <1>2, <1>3

\* The verifier's places: the board is left alone.
LEMMA VerifiersMoveOn ==
    ASSUME Inductive, NEW t \in Tasks, NEW p \in {"judging", "saving", "refused"}, GoTo(t, p),
           pc[t] \in {"hashing", "judging"},
           UNCHANGED <<board, worker, stopped, out, store, git>>,
           verdict' \in [Tasks -> BOOLEAN],
           (seen' = seen /\ p # "saving") \/ seen' = [seen EXCEPT ![t] = status[t]],
           OtherStep(t), GhostStep(t), won' = won
    PROVE  Inductive'
<1>1. Placed(t) /\ FlowTypes /\ BoardTypes
  BY TypesByGroup DEF Inductive, EvidenceInv
<1>2. status[t] \in Fenced \cup {"verifying"} /\ status[t] \in Status
  BY <1>1 DEF Placed, Completing, BoardTypes
<1>3. /\ BoardStep(t) /\ status' = status /\ owner' = owner /\ produced' = produced
  BY BoardStays
<1>4. /\ seen' \in [Tasks -> Status] /\ \A u \in Tasks \ {t} : seen'[u] = seen[u]
      /\ p = "saving" => seen'[t] \in Fenced \cup {"verifying"}
  BY <1>1, <1>2 DEF FlowTypes
<1> QED
  BY <1>2, <1>3, <1>4, CompletionsMoveOn DEF Completing

LEMMA RehashKeepsOrder ==
    ASSUME Inductive, NEW t \in Tasks, Rehash(t)
    PROVE  Inductive'
<1>1. pc[t] = "hashing" /\ Calm
      /\ UNCHANGED <<board, worker, stopped, out, verdict, store, git>>
  BY DEF Rehash
<1>2. PICK p \in {"judging", "saving", "refused"} :
          GoTo(t, p) /\ ((seen' = seen /\ p # "saving") \/ seen' = [seen EXCEPT ![t] = status[t]])
  BY DEF Rehash
<1>3. OtherStep(t) /\ GhostStep(t) /\ won' = won
  BY <1>1, CalmIsCalm
<1>4. verdict' \in [Tasks -> BOOLEAN]
  BY <1>1, TypesByGroup DEF Inductive, FlowTypes
<1> QED
  BY <1>1, <1>2, <1>3, <1>4, VerifiersMoveOn

LEMMA JudgementsAreTyped ==
    ASSUME NEW evident \in BOOLEAN, NEW j \in Judgements[evident]
    PROVE  j.passes \in BOOLEAN
<1> DEFINE reviews ==
        {[rubric |-> Rubric(calls, a, hollow), consent |-> Consents(calls, a),
          answered |-> Answered(calls) /\ a # Garbled] :
             calls \in {c \in Replies : Made(c)}, a \in Answers \cup {Garbled}, hollow \in BOOLEAN}
<1>1. PICK c \in Contracts, f \in Findings, r \in reviews :
           j = [passes |-> Validated(evident, c, f, r.rubric) = "pass",
                earned |-> Earned(evident, c, f, r.consent, r.answered)]
  BY DEF Judgements
<1> HIDE DEF reviews
<1>2. j.passes = (Validated(evident, c, f, r.rubric) = "pass")
  BY <1>1
<1> QED
  BY <1>2

LEMMA JudgeKeepsOrder ==
    ASSUME Inductive, NEW t \in Tasks, Judge(t)
    PROVE  Inductive'
<1>1. /\ pc[t] = "judging" /\ seen' = [seen EXCEPT ![t] = status[t]] /\ GoTo(t, "saving")
      /\ UNCHANGED <<board, worker, stopped, out, store, git, ghosts, graph, won, torn, troubles>>
  BY DEF Judge
<1>2. PICK j \in Judgements[Considered(t) # {}] :
        /\ verdict' = [verdict EXCEPT ![t] = j.passes]
        /\ unearned' = IF j.passes /\ ~j.earned THEN unearned \cup {t} ELSE unearned \ {t}
  BY DEF Judge
<1>3. j.passes \in BOOLEAN
  <2>1. (Considered(t) # {}) \in BOOLEAN
    OBVIOUS
  <2> QED
    BY <2>1, JudgementsAreTyped
<1>4. verdict' \in [Tasks -> BOOLEAN] /\ unearned' \subseteq Tasks \cup {NoTask}
  BY <1>2, <1>3, TypesByGroup DEF Inductive, FlowTypes, OtherTypes
<1>5. OtherStep(t) /\ GhostStep(t)
  BY <1>1, <1>4, OthersStay, TypesByGroup DEF Inductive, OtherTypes, graph
<1> QED
  BY <1>1, <1>4, <1>5, VerifiersMoveOn

LEMMA JudgeRaisesKeepsOrder ==
    ASSUME Inductive, NEW t \in Tasks, JudgeRaises(t)
    PROVE  Inductive'
<1>1. OtherStep(t) /\ GhostStep(t) /\ won' = won
  BY CalmIsCalm DEF JudgeRaises
<1>2. verdict' \in [Tasks -> BOOLEAN]
  BY TypesByGroup DEF JudgeRaises, Inductive, FlowTypes
<1> QED
  BY <1>1, <1>2, VerifiersMoveOn DEF JudgeRaises

LEMMA SaveVerdictKeepsOrder ==
    ASSUME Inductive, NEW t \in Tasks, SaveVerdict(t)
    PROVE  Inductive'
<1>1. /\ pc[t] = "saving" /\ SetStatus(t, seen[t])
      /\ UNCHANGED <<worker, stopped, out, verdict, seen, store, git>> /\ Calm
      /\ Placed(t) /\ FlowTypes
  BY TypesByGroup DEF SaveVerdict, Inductive, EvidenceInv
<1>2. PICK p \in {"passed", "refused"} : GoTo(t, p)
  BY DEF SaveVerdict
<1>3. seen[t] \in Fenced \cup {"verifying"} /\ seen[t] \in Status
  BY <1>1 DEF Placed, FlowTypes
<1>4. BoardStep(t) /\ status'[t] = seen[t] /\ owner' = owner /\ produced' = produced
  BY <1>1, <1>3, BoardIsSet
<1>5. OtherStep(t) /\ GhostStep(t) /\ won' = won
  BY <1>1, CalmIsCalm
<1> QED
  BY <1>1, <1>2, <1>3, <1>4, <1>5, CompletionsMoveOn DEF FlowTypes, Completing

LEMMA RefuseKeepsOrder ==
    ASSUME Inductive, NEW t \in Tasks, Refuse(t)
    PROVE  Inductive'
<1>1. pc[t] \in {"refused", "passed"} /\ Placed(t) /\ GitStep(t)
  BY GitIsLeft DEF Refuse, Inductive, EvidenceInv
<1>2. CASE status[t] \notin {"produced", "verifying"}
  <2>1. status[t] \in Fenced
    BY <1>1, <1>2 DEF Placed, Completing
  <2> QED
    BY <1>1, <1>2, <2>1, ConflictsKeepOrder DEF Refuse
<1>3. CASE status[t] \in {"produced", "verifying"}
  <2>1. SetStatus(t, "repair_required") /\ Leave(t) /\ UNCHANGED store /\ Calm
    BY <1>3 DEF Refuse
  <2>2. BoardStep(t) /\ status'[t] \in Left
    BY <2>1, BoardIsSet DEF Status, Left
  <2>3. StoreStep(t) /\ Justified(t)
    BY <1>1, <2>1, StoreIsLeft
  <2>4. OtherStep(t) /\ GhostStep(t) /\ won' = won
    BY <2>1, CalmIsCalm
  <2> QED
    BY <1>1, <2>1, <2>2, <2>3, <2>4, EndsKeepOrder
<1> QED
  BY <1>2, <1>3

\* What a merge results in has been in the branch, and so has what it merged.
LEMMA MergesLand ==
    ASSUME Inductive, NEW g \in Agents,
           NEW new \in MergeResult(trunk, head[g], merged[g])
    PROVE  new \in Files /\ head[g] \in landed \cup {new}
<1>1. GitTypes /\ trunk \in landed /\ merged[g] \in landed
  BY TypesByGroup DEF Inductive, EvidenceInv, Landed
<1> QED
  BY <1>1 DEF MergeResult, GitTypes

LEMMA IntegrateKeepsOrder ==
    ASSUME Inductive, NEW t \in Tasks, Integrate(t)
    PROVE  Inductive'
<1> DEFINE g == worker[t]
           result == MergeResult(trunk, head[g], merged[g])
<1>1. pc[t] = "passed" /\ Placed(t) /\ Carried(t) /\ UNCHANGED store /\ (Calm \/ TroubleOnly)
  BY DEF Integrate, Inductive, EvidenceInv
<1>2. /\ g \in Agents /\ t \notin won /\ t \notin superseded /\ mending = NoTask /\ ~replanning
  BY <1>1, RunningTask
<1>3. StoreStep(t) /\ Justified(t) /\ hash' = hash
  BY <1>1, StoreIsLeft DEF store
<1>4. OtherStep(t) /\ GhostStep(t) /\ won' = won
  BY <1>1, CalmIsCalm
<1> DEFINE Refused ==
        /\ status' = [status EXCEPT ![t] = "repair_required"]
        /\ conflicted' \in {conflicted, conflicted \cup {t}}
        /\ UNCHANGED <<owner, attempts, produced, sources, superseded, git>>
        /\ Leave(t)
           Joined ==
        /\ \E new \in result : trunk' = new /\ landed' = landed \cup {new}
        /\ merged' = [merged EXCEPT ![g] = head[g]] /\ GoTo(t, "merged")
        /\ UNCHANGED <<board, worker, stopped, out, verdict, seen, work, head, lease>>
<1>5. CASE Refused
  <2>1. /\ status' = [status EXCEPT ![t] = "repair_required"]
        /\ conflicted' \in {conflicted, conflicted \cup {t}}
        /\ UNCHANGED <<owner, attempts, produced, sources, superseded, git>>
        /\ Leave(t)
    BY <1>5
  <2>2. BoardTypes
    BY TypesByGroup DEF Inductive
  <2>3. BoardStep(t) /\ status'[t] \in Left
    BY <2>1, <2>2 DEF BoardTypes, BoardStep, Status, Left
  <2>4. GitStep(t)
    BY <2>1, GitIsLeft
  <2> QED
    BY <1>1, <1>3, <1>4, <2>1, <2>3, <2>4, EndsKeepOrder
<1>6. CASE Joined
  <2>1. /\ merged' = [merged EXCEPT ![g] = head[g]] /\ GoTo(t, "merged")
        /\ UNCHANGED <<board, worker, stopped, out, verdict, seen, work, head, lease>>
    BY <1>6
  <2>2. PICK new \in result : trunk' = new /\ landed' = landed \cup {new}
    BY <1>6
  <2>3. new \in Files /\ head[g] \in landed'
    BY <1>2, <2>2, MergesLand
  <2>4. GitTypes /\ Landed
    BY TypesByGroup DEF Inductive, EvidenceInv
  <2>5. GitTypes'
    BY <1>2, <2>1, <2>2, <2>3, <2>4 DEF GitTypes
  <2>6. Landed'
    BY <1>2, <2>1, <2>2, <2>3, <2>4 DEF GitTypes, Landed
  <2>7. GitStep(t)
    BY <2>1, <2>2, <2>5, <2>6 DEF GitStep
  <2>8. BoardStep(t) /\ status' = status /\ owner' = owner /\ produced' = produced
        /\ superseded' = superseded
    BY <2>1, BoardStays
  <2>9. FlowStep(t) /\ pc'[t] = "merged"
    BY <2>1, FlowGoes, TypesByGroup DEF Inductive, FlowTypes, Places
  <2>10. Placed(t)'
    BY <1>1, <1>4, <2>1, <2>8, <2>9 DEF Placed, Attempting, Completing
  <2>11. Carried(t)'
    BY <1>1, <1>3, <2>1, <2>3, <2>8, <2>9 DEF Carried, Attempting, Completing
  <2> QED
    BY <1>2, <1>3, <1>4, <2>1, <2>7, <2>8, <2>9, <2>10, <2>11, StepKeepsOrder
<1>7. Refused \/ Joined
  BY DEF Integrate
<1> QED
  BY <1>5, <1>6, <1>7

LEMMA IntegrateRaisesKeepsOrder ==
    ASSUME Inductive, NEW t \in Tasks, IntegrateRaises(t)
    PROVE  Inductive'
<1>1. pc[t] = "passed" /\ UNCHANGED store /\ UNCHANGED git
  BY DEF IntegrateRaises
<1>2. StoreStep(t) /\ Justified(t) /\ GitStep(t)
  BY <1>1, StoreIsLeft, GitIsLeft
<1>3. OtherStep(t) /\ GhostStep(t) /\ won' = won
  BY CalmIsCalm DEF IntegrateRaises
<1> QED
  BY <1>1, <1>2, <1>3, FailsKeepOrder DEF IntegrateRaises

LEMMA VerifyEvidenceKeepsOrder ==
    ASSUME Inductive, NEW t \in Tasks, VerifyEvidence(t)
    PROVE  Inductive'
<1>1. pc[t] = "merged" /\ Placed(t) /\ Carried(t)
  BY DEF VerifyEvidence, Inductive, EvidenceInv
<1>2. /\ t \notin won /\ t \notin superseded /\ mending = NoTask /\ ~replanning
      /\ out[t] \subseteq {a \in 1..made : from[a] = t} /\ out[t] \subseteq Artifacts
  BY <1>1, RunningTask
<1>3. GitStep(t) /\ head' = head /\ landed' = landed
  BY GitIsLeft DEF VerifyEvidence
<1>4. CASE /\ Mark(out[t], "verified") /\ GoTo(t, "evidenced") /\ Calm
           /\ UNCHANGED <<board, worker, stopped, out, verdict, seen>>
  <2>1. /\ StoreStep(t) /\ hash' = hash
        /\ \A a \in Artifacts : row'[a] = IF a \in out[t] THEN "verified" ELSE row[a]
    BY <1>2, <1>4, StoreIsMarked DEF ArtifactStatus
  <2>2. BoardStep(t) /\ status' = status /\ owner' = owner /\ produced' = produced
        /\ superseded' = superseded
    BY <1>4, BoardStays
  <2>3. FlowStep(t) /\ pc'[t] = "evidenced"
    BY <1>4, FlowGoes, TypesByGroup DEF Inductive, FlowTypes, Places
  <2>4. OtherStep(t) /\ GhostStep(t) /\ won' = won
    BY <1>4, CalmIsCalm
  <2>5. Justified(t)
    BY <1>1, <1>2, <1>4, <2>1, <2>3 DEF Justified
  <2>6. Placed(t)'
    BY <1>1, <1>4, <2>2, <2>3, <2>4 DEF Placed, Attempting, Completing
  <2>7. Carried(t)'
    BY <1>1, <1>2, <1>3, <1>4, <2>1, <2>2, <2>3 DEF Carried, Attempting, Completing
  <2> QED
    BY <1>2, <1>3, <1>4, <2>1, <2>2, <2>3, <2>4, <2>5, <2>6, <2>7, StepKeepsOrder
<1>5. CASE /\ Mark(out[t], "rejected") /\ Leave(t) /\ TroubleOnly
           /\ IF status[t] \in {"produced", "verifying"}
              THEN SetStatus(t, "repair_required") ELSE UNCHANGED board
  <2>1. /\ StoreStep(t)
        /\ \A a \in Artifacts : row'[a] = IF a \in out[t] THEN "rejected" ELSE row[a]
    BY <1>2, <1>5, StoreIsMarked DEF ArtifactStatus
  <2>2. Justified(t)
    BY <1>1, <2>1, NothingNewIsVerified
  <2>3. BoardStep(t) /\ status'[t] \in Left
    <3>1. CASE SetStatus(t, "repair_required")
      BY <3>1, BoardIsSet DEF Status, Left
    <3>2. CASE status[t] \in Fenced /\ UNCHANGED board
      BY <3>2, BoardStays DEF Fenced, Left
    <3> QED
      BY <1>1, <1>5, <3>1, <3>2 DEF Placed, Completing
  <2>4. OtherStep(t) /\ GhostStep(t) /\ won' = won
    BY <1>5, CalmIsCalm
  <2> QED
    BY <1>1, <1>3, <1>5, <2>1, <2>2, <2>3, <2>4, EndsKeepOrder
<1> QED
  BY <1>4, <1>5 DEF VerifyEvidence

LEMMA SucceedKeepsOrder ==
    ASSUME Inductive, NEW t \in Tasks, Succeed(t)
    PROVE  Inductive'
<1>1. pc[t] = "evidenced" /\ Placed(t) /\ Carried(t)
  BY DEF Succeed, Inductive, EvidenceInv
<1>2. /\ t \notin won /\ t \notin superseded /\ mending = NoTask /\ ~replanning
      /\ out[t] \subseteq {a \in 1..made : from[a] = t}
  BY <1>1, RunningTask
<1>3. GitStep(t) /\ landed' = landed
  BY GitIsLeft DEF Succeed
<1>4. CASE status[t] \notin {"produced", "verifying"}
  <2>1. status[t] \in Fenced
    BY <1>1, <1>4 DEF Placed, Completing
  <2> QED
    BY <1>1, <1>3, <1>4, <2>1, ConflictsKeepOrder DEF Succeed
<1>5. CASE status[t] \in {"produced", "verifying"}
  <2>1. /\ SetStatus(t, "succeeded") /\ won' = won \cup {t} /\ Leave(t)
        /\ UNCHANGED <<store, ghosts, graph, unearned, torn, troubles>>
    BY <1>5 DEF Succeed
  <2>2. BoardStep(t) /\ status'[t] = "succeeded" /\ produced' = produced /\ superseded' = superseded
    BY <2>1, BoardIsSet DEF Status
  <2>3. FlowStep(t) /\ pc'[t] = "idle" /\ worker'[t] = NoAgent /\ out'[t] = {}
    BY <2>1, FlowEnds
  <2>4. StoreStep(t) /\ row' = row /\ hash' = hash
    <3>1. disk' \in [Tasks -> Files] /\ UNCHANGED <<made, from, hash, row, mem>>
      BY <2>1, TypesByGroup DEF store, Inductive, StoreTypes
    <3> QED
      BY <3>1, StoreStays
  <2>5. OtherStep(t) /\ GhostStep(t)
    BY <2>1, TypesByGroup DEF Inductive, OtherTypes, OtherStep, GhostStep, graph
  <2>6. produced[t] = out[t] /\ \A a \in out[t] : row[a] = "verified" /\ hash[a] \in landed
    BY <1>1 DEF Carried, Completing
  <2>7. Justified(t)
    BY <1>2, <2>1, <2>2, <2>4, <2>6 DEF Justified
  <2>8. Placed(t)'
    BY <1>2, <2>1, <2>2, <2>3 DEF Placed, Attempting, Completing
  <2>9. Carried(t)'
    BY <2>3 DEF Carried, Attempting, Completing
  <2>10. \A a \in produced'[t] : row'[a] = "verified" /\ hash'[a] \in landed'
    BY <1>3, <2>2, <2>4, <2>6
  <2> QED
    BY <1>2, <1>3, <2>2, <2>3, <2>4, <2>5, <2>7, <2>8, <2>9, <2>10, StepKeepsOrder
<1> QED
  BY <1>4, <1>5

LEMMA SucceedRaisesKeepsOrder ==
    ASSUME Inductive, NEW t \in Tasks, SucceedRaises(t)
    PROVE  Inductive'
<1>1. pc[t] = "evidenced" /\ torn' = TRUE
  BY DEF SucceedRaises
<1>2. GitStep(t)
  BY GitIsLeft DEF SucceedRaises
<1>3. disk' \in [Tasks -> Files] /\ UNCHANGED <<made, from, hash, row, mem>>
  BY TypesByGroup DEF SucceedRaises, store, Inductive, StoreTypes
<1>4. StoreStep(t)
  BY <1>3, StoreStays
<1>5. Justified(t)
  BY <1>1 DEF Justified
<1>6. OtherStep(t) /\ GhostStep(t) /\ won' = won
  BY OthersStay, TypesByGroup DEF SucceedRaises, Inductive, OtherTypes, graph
<1> QED
  BY <1>1, <1>2, <1>4, <1>5, <1>6, FailsKeepOrder DEF SucceedRaises

LEMMA CoroutinesKeepOrder ==
    ASSUME Inductive, NEW t \in Tasks, Coroutine(t)
    PROVE  Inductive'
  BY BeginKeepsOrder, AcquireKeepsOrder, AcquireRaisesKeepsOrder, TimesOutKeepsOrder,
     DropKeepsOrder, ExecutionFailsKeepsOrder, CommitKeepsOrder, CommitRaisesKeepsOrder,
     StartVerifyingKeepsOrder, RehashKeepsOrder, JudgeKeepsOrder, JudgeRaisesKeepsOrder,
     SaveVerdictKeepsOrder, RefuseKeepsOrder, IntegrateKeepsOrder, IntegrateRaisesKeepsOrder,
     VerifyEvidenceKeepsOrder, SucceedKeepsOrder, SucceedRaisesKeepsOrder DEF Coroutine
-----------------------------------------------------------------------------
(* Around the coroutines: ghosts, control plane, root graph, process.       *)

\* What changes neither the board nor the flow nor any commit.
LEMMA BystandersKeepOrder ==
    ASSUME Inductive,
           UNCHANGED <<board, pc, worker, out, verdict, seen, store, git, ghosts, mending,
                       replanning, voided, won, torn>>,
           stopped' \subseteq Tasks, cancelled' \in BOOLEAN, unearned' \subseteq Tasks \cup {NoTask},
           run' \in {"working", "completed", "failed", "waiting_human"},
           troubles' \in 0..MaxTroubles
    PROVE  Inductive'
<1>1. TypeOK'
  BY DEF Inductive, TypeOK, board, store, git
<1>2. \A t \in Tasks : Placed(t)' /\ Carried(t)'
  BY DEF Inductive, EvidenceInv, Placed, Carried, board, store, git
<1>3. OneEach' /\ Attributed' /\ Landed' /\ Suspended'
  BY DEF Inductive, EvidenceInv, OneEach, Attributed, Landed, Suspended, board, store, git
<1>4. VerifiedHasItsTask' /\ SucceededIsBacked'
  BY DEF Inductive, EvidenceInv, VerifiedHasItsTask, SucceededIsBacked, Current, board, store, git
<1> QED
  BY <1>1, <1>2, <1>3, <1>4 DEF Inductive, EvidenceInv

LEMMA TroublesAreCounted ==
    ASSUME Inductive, Trouble
    PROVE  troubles' \in 0..MaxTroubles
  BY TypesByGroup, EvidenceAssumption DEF Inductive, OtherTypes, Trouble

LEMMA StopKeepsOrder ==
    ASSUME Inductive, NEW t \in Tasks, Stop(t)
    PROVE  Inductive'
  BY BystandersKeepOrder, TroublesAreCounted, TypesByGroup
     DEF Stop, Inductive, FlowTypes, OtherTypes, graph

LEMMA CancelRunKeepsOrder ==
    ASSUME Inductive, CancelRun
    PROVE  Inductive'
  BY BystandersKeepOrder, TroublesAreCounted, TypesByGroup
     DEF CancelRun, Inductive, FlowTypes, OtherTypes, flow

LEMMA FinalizeKeepsOrder ==
    ASSUME Inductive, Finalize
    PROVE  Inductive'
<1>1. PICK pending \in BOOLEAN, demand \in Demands, outcome \in Outcomes :
          /\ run' = RunResult(pending, conflicted # {}, demand, outcome)
          /\ unearned' = IF run' = "completed" /\ (demand # {"usable"} \/ outcome # "passed")
                         THEN unearned \cup {NoTask} ELSE unearned
  BY DEF Finalize
<1>2. run' \in {"working", "completed", "failed", "waiting_human"}
  BY <1>1 DEF RunResult
<1>3. unearned' \subseteq Tasks \cup {NoTask}
  BY <1>1, TypesByGroup DEF Inductive, OtherTypes
<1> QED
  BY <1>2, <1>3, BystandersKeepOrder, TypesByGroup DEF Finalize, Inductive, FlowTypes, OtherTypes, flow

\* A task is fenced off behind the back of its coroutine, or when it has none.
LEMMA FencesKeepOrder ==
    ASSUME Inductive, NEW t \in Tasks, NEW s \in Fenced, SetStatus(t, s), status[t] # "absent",
           UNCHANGED <<flow, store, git, ghosts, mending, replanning, voided, cancelled, run,
                       won, unearned, torn>>,
           troubles' \in 0..MaxTroubles
    PROVE  Inductive'
<1>1. s \in Status
  BY DEF Fenced, Status
<1>2. /\ BoardStep(t) /\ status'[t] = s
      /\ owner' = owner /\ produced' = produced /\ superseded' = superseded
  BY <1>1, BoardIsSet
<1>3. sources' = sources /\ \A u \in Tasks \ {t} : status'[u] = status[u]
  BY <1>2 DEF BoardStep
<1>4. TypeOK'
  <2>1. FlowTypes' /\ StoreTypes' /\ GitTypes'
    BY TypesByGroup DEF Inductive, FlowTypes, StoreTypes, GitTypes, flow, store, git
  <2>2. OtherTypes' /\ BoardTypes'
    BY <1>2, TypesByGroup DEF Inductive, OtherTypes, BoardStep
  <2> QED
    BY <2>1, <2>2 DEF TypeOK, BoardTypes, FlowTypes, StoreTypes, GitTypes, OtherTypes
<1>5. UNCHANGED <<pc, worker, seen, out, made, from, hash, row, mem, work, head, merged, trunk, landed>>
  BY DEF flow, store, git
<1>6. \A u \in Tasks : Carried(u)'
  BY <1>2, <1>5 DEF Inductive, EvidenceInv, Carried
<1>7. \A u \in Tasks \ {t} : Placed(u)'
  BY <1>2, <1>3, <1>5 DEF Inductive, EvidenceInv, Placed
<1>8. Placed(t)'
  <2>1. Placed(t)
    BY DEF Inductive, EvidenceInv
  <2> QED
    BY <1>2, <1>5, <2>1 DEF Placed, Fenced
<1>9. OneEach' /\ Attributed' /\ Landed'
  BY <1>2, <1>3, <1>5 DEF Inductive, EvidenceInv, OneEach, Attributed, Landed
<1>10. Suspended'
  BY <1>2, <1>3, <1>5 DEF Inductive, EvidenceInv, Suspended, Fenced
<1>11. VerifiedHasItsTask'
  BY <1>2, <1>5 DEF Inductive, EvidenceInv, VerifiedHasItsTask
<1>12. SucceededIsBacked'
  <2>1. \A u \in Current' : status'[u] = "succeeded" => u \in Current /\ status[u] = "succeeded"
    BY <1>2, <1>3 DEF Current, Fenced
  <2> QED
    BY <1>2, <1>5, <2>1 DEF Inductive, EvidenceInv, SucceededIsBacked
<1> QED
  BY <1>4, <1>6, <1>7, <1>8, <1>9, <1>10, <1>11, <1>12 DEF Inductive, EvidenceInv

LEMMA CancelTaskKeepsOrder ==
    ASSUME Inductive, NEW t \in Tasks, CancelTask(t)
    PROVE  Inductive'
  BY FencesKeepOrder, TypesByGroup DEF CancelTask, Calm, graph, Fenced, Inductive, OtherTypes

LEMMA RequestReplanKeepsOrder ==
    ASSUME Inductive, NEW t \in Tasks, RequestReplan(t)
    PROVE  Inductive'
  BY FencesKeepOrder, TroublesAreCounted DEF RequestReplan, graph, Fenced

\* The board and the flow are as they were, and artifacts of g's task at most were
\* added or rejected, none that the task or its attempt has.
LEMMA GhostEndsKeepsOrder ==
    ASSUME Inductive, NEW g \in ghosts, GhostEnds(g)
    PROVE  Inductive'
<1> DEFINE t == g.task
<1>1. /\ t \in Tasks /\ g.agent \in Agents /\ g.art \in 0..MaxArtifacts
      /\ work[g.agent] \in Files
  BY TypesByGroup DEF Inductive, OtherTypes, GitTypes
<1>2. /\ UNCHANGED <<board, flow, git, mending, replanning, voided, cancelled, run,
                     won, unearned, torn, troubles>>
      /\ ghosts' = ghosts \ {g}
  BY DEF GhostEnds, graph
<1>3. Attributed /\ StoreTypes /\ MaxArtifacts \in Nat
  BY TypesByGroup, EvidenceAssumption DEF Inductive, EvidenceInv
<1>4. /\ StoreStep(t)
      /\ \A a \in 1..made : /\ from'[a] = from[a] /\ hash'[a] = hash[a]
                            /\ from[a] \notin superseded /\ a # g.art => row'[a] = row[a]
      /\ \A a \in Artifacts : row'[a] = "verified" => row[a] = "verified"
  <2>1. CASE g.art = 0
    <3>1. PICK parent \in Parents(t) : Publish(t, work[g.agent], parent, "rejected")
      BY <2>1 DEF GhostEnds
    <3>2. /\ StoreStep(t) /\ \A a \in Artifacts : row'[a] = "verified" => row[a] = "verified"
      BY <1>1, <3>1, StoreGrows DEF ArtifactStatus
    <3>3. parent \subseteq {a \in 1..made : from[a] \in superseded}
      BY <1>1, <1>3, <3>1 DEF Attributed, Parents
    <3>4. \A a \in 1..made : from[a] \notin superseded => row'[a] = row[a]
      <4> TAKE a \in 1..made
      <4>1. a \in Artifacts /\ a # made + 1
        BY <1>3 DEF StoreTypes, Artifacts
      <4> QED
        BY <3>1, <3>3, <4>1 DEF Publish, Inserted
    <3> QED
      BY <3>2, <3>4 DEF StoreStep
  <2>2. CASE g.art # 0
    <3>1. {g.art} \subseteq {a \in 1..made : from[a] = t}
      BY <1>1, <1>3, <2>2 DEF Attributed, StoreTypes
    <3>2. Mark({g.art}, "rejected")
      BY <2>2 DEF GhostEnds
    <3>3. /\ StoreStep(t) /\ hash' = hash /\ from' = from
          /\ \A a \in Artifacts : row'[a] = IF a \in {g.art} THEN "rejected" ELSE row[a]
      BY <1>1, <3>1, <3>2, StoreIsMarked DEF ArtifactStatus
    <3>4. 1..made \subseteq Artifacts
      BY <1>3 DEF StoreTypes, Artifacts
    <3> QED
      BY <3>3, <3>4
  <2> QED
    BY <2>1, <2>2
<1>5. BoardStep(t) /\ FlowStep(t) /\ GitStep(t)
  BY <1>1, <1>2, BoardStays, FlowStays, GitIsLeft
<1>6. OtherTypes'
  BY <1>2, TypesByGroup DEF Inductive, OtherTypes
<1>7. TypeOK'
  BY <1>4, <1>5, <1>6 DEF BoardStep, FlowStep, StoreStep, GitStep,
     TypeOK, BoardTypes, FlowTypes, StoreTypes, GitTypes, OtherTypes
<1>8. /\ UNCHANGED <<status, owner, produced, sources, superseded, pc, worker, seen, out>>
      /\ UNCHANGED <<work, head, merged, trunk, landed>>
  BY <1>2 DEF board, flow, git
<1>9. \A u \in Tasks : out[u] \cup produced[u] \subseteq {a \in 1..made : from[a] = u /\ a # g.art}
  <2> SUFFICES ASSUME NEW u \in Tasks, NEW a \in out[u] \cup produced[u]
               PROVE  a \in 1..made /\ from[a] = u /\ a # g.art
    OBVIOUS
  <2>1. a \in 1..made /\ from[a] = u
    BY <1>3 DEF Attributed
  <2>2. ASSUME a = g.art PROVE FALSE
    <3>1. g.art # 0
      BY <2>1, <2>2, <1>3 DEF StoreTypes
    <3>2. from[g.art] = g.task /\ g.art \notin produced[g.task] \cup out[g.task]
      BY <1>3, <3>1 DEF Attributed
    <3> QED
      BY <2>1, <2>2, <3>2
  <2> QED
    BY <2>1, <2>2
<1>10. ASSUME NEW u \in Tasks PROVE Placed(u)' /\ Carried(u)'
  <2>1. Placed(u) /\ Carried(u)
    BY DEF Inductive, EvidenceInv
  <2>2. Placed(u)'
    BY <1>2, <1>8, <2>1 DEF Placed
  <2>3. \A a \in out[u] : hash'[a] = hash[a] /\ (pc[u] # "idle" => row'[a] = row[a])
    BY <1>4, <1>9, <2>1 DEF Placed
  <2>4. Carried(u)'
    BY <1>8, <2>1, <2>3 DEF Carried, Completing
  <2> QED
    BY <2>2, <2>4
<1>11. Attributed'
  <2>1. GhostStep(t)
    BY <1>2 DEF GhostStep
  <2> QED
    BY <1>1, <1>4, <1>5, <2>1, StepStaysAttributed
<1>12. OneEach' /\ Landed'
  BY <1>8 DEF Inductive, EvidenceInv, OneEach, Landed
<1>13. Suspended'
  BY <1>2, <1>4, <1>8 DEF Inductive, EvidenceInv, Suspended
<1>14. VerifiedHasItsTask'
  <2> SUFFICES ASSUME NEW a \in Artifacts, row'[a] = "verified", ~torn
               PROVE  \/ from'[a] \in won' /\ a \in produced'[from'[a]]
                         /\ (from'[a] \in superseded' => mending' = from'[a])
                      \/ pc'[from'[a]] = "evidenced" /\ a \in out'[from'[a]]
    BY <1>2 DEF VerifiedHasItsTask
  <2>1. row[a] = "verified"
    BY <1>4
  <2>2. a \in 1..made
    BY <1>3, <2>1 DEF StoreTypes, Artifacts
  <2>3. from'[a] = from[a]
    BY <1>4, <2>2
  <2> QED
    BY <1>2, <1>8, <2>1, <2>3 DEF Inductive, EvidenceInv, VerifiedHasItsTask
<1>15. SucceededIsBacked'
  <2> SUFFICES ASSUME ~voided, NEW u \in Tasks, status[u] = "succeeded", u \notin superseded,
                      NEW a \in produced[u]
               PROVE  row'[a] = "verified" /\ mem'[a] = "verified" /\ hash'[a] \in landed
    BY <1>2, <1>8 DEF SucceededIsBacked, Current
  <2>1. row[a] = "verified" /\ hash[a] \in landed
    BY DEF Inductive, EvidenceInv, SucceededIsBacked, Current
  <2>2. a \in 1..made /\ from[a] = u /\ a # g.art
    BY <1>9
  <2>3. row'[a] = row[a] /\ hash'[a] = hash[a] /\ mem' = row'
    BY <1>4, <2>2 DEF StoreStep
  <2> QED
    BY <2>1, <2>3
<1> QED
  BY <1>7, <1>10, <1>11, <1>12, <1>13, <1>14, <1>15 DEF Inductive, EvidenceInv
\* A repair takes the place of a task, whose evidence is rejected next.
LEMMA RepairKeepsOrder ==
    ASSUME Inductive, NEW t \in Tasks, NEW r \in Tasks, Repair(t, r)
    PROVE  Inductive'
<1>1. /\ mending = NoTask /\ ~replanning /\ \A s \in Tasks : pc[s] = "idle"
      /\ \A s \in Tasks : status[s] \notin {"pending", "running"}
      /\ t \in Current /\ status[r] = "absent"
  BY DEF Repair, Quiet, Candidates
<1>2. /\ status' = [status EXCEPT ![r] = "pending"]
      /\ sources' = [sources EXCEPT ![r] = produced[t]]
      /\ superseded' = superseded \cup {t} /\ mending' = t
      /\ UNCHANGED <<owner, attempts, produced, conflicted, flow, store, git>>
      /\ UNCHANGED <<ghosts, replanning, voided, cancelled, run, won, unearned, torn, troubles>>
  BY DEF Repair
<1>3. BoardTypes /\ OtherTypes /\ Attributed
  BY TypesByGroup DEF Inductive, EvidenceInv
<1>4. TypeOK'
  <2>1. FlowTypes' /\ StoreTypes' /\ GitTypes'
    BY <1>2, TypesByGroup DEF Inductive, FlowTypes, StoreTypes, GitTypes, flow, store, git
  <2>2. BoardTypes' /\ OtherTypes'
    BY <1>2, <1>3 DEF BoardTypes, OtherTypes, Status
  <2> QED
    BY <2>1, <2>2 DEF TypeOK, BoardTypes, FlowTypes, StoreTypes, GitTypes, OtherTypes
<1>5. UNCHANGED <<pc, worker, seen, out, made, from, hash, row, mem, work, head, merged, trunk, landed>>
  BY <1>2 DEF flow, store, git
<1>6. /\ status'[r] = "pending" /\ sources'[r] = produced[t] /\ r # t
      /\ \A u \in Tasks \ {r} : status'[u] = status[u] /\ sources'[u] = sources[u]
  BY <1>1, <1>2, <1>3 DEF BoardTypes, Current
<1>7. ASSUME NEW u \in Tasks PROVE Placed(u)' /\ Carried(u)'
  <2>1. Placed(u) /\ Carried(u) /\ pc[u] = "idle"
    BY <1>1 DEF Inductive, EvidenceInv
  <2>2. status[t] \notin {"absent", "pending"}
    BY <1>1 DEF Current
  <2>3. Placed(u)'
    BY <1>1, <1>2, <1>5, <1>6, <2>1, <2>2 DEF Placed, Attempting, Completing, Fenced
  <2>4. Carried(u)'
    BY <1>5, <2>1 DEF Carried, Attempting, Completing
  <2> QED
    BY <2>3, <2>4
<1>8. OneEach' /\ Landed'
  BY <1>5 DEF Inductive, EvidenceInv, OneEach, Landed
<1>9. Attributed'
  <2>1. \A u \in Tasks : sources'[u] \subseteq {a \in 1..made : from[a] \in superseded'}
    BY <1>2, <1>3, <1>6 DEF Attributed
  <2> QED
    BY <1>2, <1>3, <1>5, <2>1 DEF Attributed
<1>10. Suspended'
  BY <1>1, <1>2, <1>5 DEF Suspended
<1>11. VerifiedHasItsTask'
  <2> SUFFICES ASSUME NEW a \in Artifacts, row[a] = "verified", ~torn
               PROVE  \/ from[a] \in won /\ a \in produced[from[a]]
                         /\ (from[a] \in superseded \cup {t} => t = from[a])
                      \/ pc[from[a]] = "evidenced" /\ a \in out[from[a]]
    BY <1>2, <1>5 DEF VerifiedHasItsTask
  <2>1. from[a] \in Tasks /\ from[a] # NoTask
    <3>1. a \in 1..made
      BY TypesByGroup DEF Inductive, StoreTypes, Artifacts
    <3> QED
      BY <1>3, <3>1, EvidenceAssumption DEF Attributed
  <2> QED
    BY <1>1, <2>1 DEF Inductive, EvidenceInv, VerifiedHasItsTask
<1>12. SucceededIsBacked'
  <2>1. \A u \in Current' : status'[u] = "succeeded" => u \in Current /\ status[u] = "succeeded"
    BY <1>2, <1>6 DEF Current
  <2> QED
    BY <1>2, <1>5, <2>1 DEF Inductive, EvidenceInv, SucceededIsBacked
<1> QED
  BY <1>4, <1>7, <1>8, <1>9, <1>10, <1>11, <1>12 DEF Inductive, EvidenceInv

\* What marking artifacts as rejected leaves as it is, when nobody works.
LEMMA RejectionsKeepOrder ==
    ASSUME Inductive, NEW as, as \subseteq 1..made, Mark(as, "rejected"),
           \A t \in Tasks : pc[t] = "idle",
           UNCHANGED <<board, flow, git, ghosts, cancelled, run, won, unearned, torn, troubles>>,
           mending' \in {mending, NoTask}, replanning' \in BOOLEAN, voided' \in BOOLEAN,
           replanning' => /\ \A t \in Tasks : status[t] # "pending"
                          /\ \A a \in Artifacts : row'[a] # "verified",
           \A a \in Artifacts : row'[a] = "verified" /\ ~torn =>
               (from[a] \in superseded => mending' = from[a]),
           ~voided' => ~voided /\ \A t \in Current : as \cap produced[t] = {}
    PROVE  Inductive'
<1>1. BoardTypes /\ FlowTypes /\ StoreTypes /\ GitTypes /\ OtherTypes /\ Attributed
  BY TypesByGroup DEF Inductive, EvidenceInv
<1>2. UNCHANGED <<made, from, hash, disk>>
  BY DEF Mark
<1>3. \A a \in Artifacts : row'[a] = IF a \in as THEN "rejected" ELSE row[a]
  BY DEF Mark
<1>4. row' \in [Artifacts -> ArtifactStatus] /\ mem' = row'
  BY <1>1 DEF Mark, StoreTypes, Attributed, ArtifactStatus
<1>5. \A a \in Artifacts : row'[a] = "absent" <=> a > made
  <2> TAKE a \in Artifacts
  <2>1. made \in Nat
    BY <1>1, EvidenceAssumption DEF StoreTypes
  <2>2. row[a] = "absent" <=> a > made
    BY <1>1 DEF StoreTypes
  <2>3. a \in as => a \in 1..made
    OBVIOUS
  <2>4. a \in as => ~(a > made)
    BY <2>1, <2>3
  <2> QED
    BY <1>3, <2>2, <2>4
<1>6. TypeOK'
  <2>1. BoardTypes' /\ FlowTypes' /\ GitTypes'
    BY <1>1 DEF BoardTypes, FlowTypes, GitTypes, board, flow, git
  <2>2. StoreTypes' /\ OtherTypes'
    BY <1>1, <1>2, <1>4, <1>5 DEF StoreTypes, OtherTypes
  <2> QED
    BY <2>1, <2>2 DEF TypeOK, BoardTypes, FlowTypes, StoreTypes, GitTypes, OtherTypes
<1>7. /\ UNCHANGED <<status, owner, produced, sources, superseded, pc, worker, seen, out>>
      /\ UNCHANGED <<work, head, merged, trunk, landed>>
  BY DEF board, flow, git
<1>8. ASSUME NEW u \in Tasks PROVE Placed(u)' /\ Carried(u)'
  <2>1. Placed(u) /\ Carried(u) /\ pc[u] = "idle"
    BY DEF Inductive, EvidenceInv
  <2> QED
    BY <1>7, <2>1 DEF Placed, Carried, Attempting, Completing
<1>9. OneEach' /\ Landed'
  BY <1>7 DEF Inductive, EvidenceInv, OneEach, Landed
<1>10. Attributed'
  BY <1>1, <1>2, <1>4, <1>7 DEF Attributed
<1>11. Suspended'
  <2>1. mending' # NoTask => mending \in superseded
    BY DEF Inductive, EvidenceInv, Suspended
  <2> QED
    BY <1>7, <2>1 DEF Suspended
<1>12. VerifiedHasItsTask'
  <2> SUFFICES ASSUME NEW a \in Artifacts, row'[a] = "verified", ~torn
               PROVE  from[a] \in won /\ a \in produced[from[a]]
    BY <1>2, <1>7 DEF VerifiedHasItsTask
  <2>1. row[a] = "verified" /\ a \in 1..made
    <3>1. row[a] = "verified"
      BY <1>3
    <3>2. ~(a > made) /\ a \in 1..MaxArtifacts /\ made \in 0..MaxArtifacts
      BY <1>1, <3>1 DEF StoreTypes, Artifacts
    <3> QED
      BY <3>1, <3>2, EvidenceAssumption
  <2>2. from[a] \in Tasks
    BY <1>1, <2>1 DEF Attributed
  <2> QED
    BY <2>1, <2>2 DEF Inductive, EvidenceInv, VerifiedHasItsTask
<1>13. SucceededIsBacked'
  <2> SUFFICES ASSUME ~voided', NEW u \in Current, status[u] = "succeeded", NEW a \in produced[u]
               PROVE  row'[a] = "verified" /\ hash[a] \in landed
    BY <1>2, <1>4, <1>7 DEF SucceededIsBacked, Current
  <2>1. a \in Artifacts /\ a \notin as
    BY <1>1 DEF BoardTypes, Current
  <2> QED
    BY <1>3, <2>1 DEF Inductive, EvidenceInv, SucceededIsBacked
<1> QED
  BY <1>6, <1>8, <1>9, <1>10, <1>11, <1>12, <1>13 DEF Inductive, EvidenceInv

LEMMA RejectRepairedKeepsOrder ==
    ASSUME Inductive, RejectRepaired
    PROVE  Inductive'
<1> DEFINE as == produced[mending]
<1>1. /\ mending # NoTask /\ mending' = NoTask /\ Mark(as, "rejected")
      /\ UNCHANGED <<board, flow, git, ghosts, replanning, voided, cancelled, run>>
      /\ UNCHANGED <<won, unearned, torn, troubles>>
  BY DEF RejectRepaired
<1>2. /\ mending \in Tasks /\ mending \in superseded /\ \A t \in Tasks : pc[t] = "idle"
  BY <1>1, TypesByGroup DEF Inductive, OtherTypes, EvidenceInv, Suspended
<1>3. as \subseteq {a \in 1..made : from[a] = mending}
  BY <1>2 DEF Inductive, EvidenceInv, Attributed
<1>4. \A a \in Artifacts : row'[a] = IF a \in as THEN "rejected" ELSE row[a]
  BY <1>1 DEF Mark
<1>5. \A a \in Artifacts : row'[a] = "verified" => row[a] = "verified" /\ a \notin as
  BY <1>4
<1>6. ASSUME NEW a \in Artifacts, row'[a] = "verified", ~torn, from[a] \in superseded
      PROVE  FALSE
  <2>1. from[a] \in Tasks
    BY <1>6, TypesByGroup DEF Inductive, OtherTypes, BoardTypes
  <2>2. a \in produced[from[a]] /\ mending = from[a]
    BY <1>2, <1>5, <1>6, <2>1 DEF Inductive, EvidenceInv, VerifiedHasItsTask
  <2> QED
    BY <1>5, <1>6, <2>2
<1>7. replanning' => /\ \A t \in Tasks : status[t] # "pending"
                     /\ \A a \in Artifacts : row'[a] # "verified"
  BY <1>1, <1>5 DEF Inductive, EvidenceInv, Suspended
<1>8. \A t \in Current : as \cap produced[t] = {}
  BY <1>2, <1>3 DEF Current, Inductive, EvidenceInv, Attributed
<1>9. replanning' \in BOOLEAN /\ voided' \in BOOLEAN
  BY <1>1, TypesByGroup DEF Inductive, OtherTypes
<1>10. as \subseteq 1..made
  BY <1>3
<1> HIDE DEF as
<1> QED
  BY <1>1, <1>2, <1>6, <1>7, <1>8, <1>9, <1>10, RejectionsKeepOrder

LEMMA RejectAllKeepsOrder ==
    ASSUME Inductive, RejectAll
    PROVE  Inductive'
<1>1. /\ Mark(Evident, "rejected") /\ replanning' = TRUE /\ voided' = TRUE
      /\ UNCHANGED <<board, flow, git, ghosts, mending, cancelled, run, won, unearned, torn, troubles>>
      /\ \A t \in Tasks : pc[t] = "idle" /\ status[t] # "pending"
  BY DEF RejectAll, Quiet
<1>2. StoreTypes /\ mem = row
  BY TypesByGroup DEF Inductive, EvidenceInv, Attributed
<1>3. Evident \subseteq 1..made
  BY <1>2 DEF Evident, StoreTypes, Artifacts
<1>4. \A a \in Artifacts : row'[a] # "verified"
  BY <1>1, <1>2 DEF Mark, Evident
<1> QED
  BY <1>1, <1>3, <1>4, RejectionsKeepOrder

LEMMA ReviseKeepsOrder ==
    ASSUME Inductive, NEW r \in Tasks, Revise(r)
    PROVE  Inductive'
<1>1. /\ replanning /\ status[r] = "absent"
      /\ status' = [status EXCEPT ![r] = "pending"]
      /\ superseded' = superseded \cup Current
      /\ replanning' = FALSE /\ voided' = FALSE
      /\ UNCHANGED <<owner, attempts, produced, sources, conflicted, flow, store, git>>
      /\ UNCHANGED <<ghosts, mending, cancelled, run, won, unearned, torn, troubles>>
  BY DEF Revise
<1>2. /\ \A t \in Tasks : pc[t] = "idle" /\ status[t] # "pending"
      /\ \A a \in Artifacts : row[a] # "verified"
      /\ mending # NoTask => mending \in superseded
  BY <1>1 DEF Inductive, EvidenceInv, Suspended
<1>3. BoardTypes /\ OtherTypes /\ Attributed
  BY TypesByGroup DEF Inductive, EvidenceInv
<1>4. TypeOK'
  <2>1. FlowTypes' /\ StoreTypes' /\ GitTypes'
    BY <1>1, TypesByGroup DEF Inductive, FlowTypes, StoreTypes, GitTypes, flow, store, git
  <2>2. BoardTypes' /\ OtherTypes'
    BY <1>1, <1>3 DEF BoardTypes, OtherTypes, Status, Current
  <2> QED
    BY <2>1, <2>2 DEF TypeOK, BoardTypes, FlowTypes, StoreTypes, GitTypes, OtherTypes
<1>5. UNCHANGED <<pc, worker, seen, out, made, from, hash, row, mem, work, head, merged, trunk, landed>>
  BY <1>1 DEF flow, store, git
<1>6. /\ status'[r] = "pending" /\ r \notin Current
      /\ \A u \in Tasks \ {r} : status'[u] = status[u]
  BY <1>1, <1>3 DEF BoardTypes, Current
<1>7. ASSUME NEW u \in Tasks PROVE Placed(u)' /\ Carried(u)'
  <2>1. Placed(u) /\ Carried(u) /\ pc[u] = "idle"
    BY <1>2 DEF Inductive, EvidenceInv
  <2>2. u \in Current => status[u] \notin {"absent", "pending"}
    BY <1>2 DEF Current
  <2>3. Placed(u)'
    BY <1>1, <1>5, <1>6, <2>1, <2>2 DEF Placed, Attempting, Completing, Fenced
  <2>4. Carried(u)'
    BY <1>5, <2>1 DEF Carried, Attempting, Completing
  <2> QED
    BY <2>3, <2>4
<1>8. OneEach' /\ Landed'
  BY <1>5 DEF Inductive, EvidenceInv, OneEach, Landed
<1>9. Attributed'
  BY <1>1, <1>3, <1>5 DEF Attributed
<1>10. Suspended'
  BY <1>1, <1>2, <1>5 DEF Suspended
<1>11. VerifiedHasItsTask'
  BY <1>2, <1>5 DEF VerifiedHasItsTask
<1>12. SucceededIsBacked'
  <2>1. \A u \in Current' : u = r
    BY <1>1, <1>6 DEF Current
  <2> QED
    BY <1>6, <2>1 DEF SucceededIsBacked
<1> QED
  BY <1>4, <1>7, <1>8, <1>9, <1>10, <1>11, <1>12 DEF Inductive, EvidenceInv

LEMMA CrashKeepsOrder ==
    ASSUME Inductive, Crash
    PROVE  Inductive'
<1> DEFINE dead == {t \in Tasks : status[t] \in {"running", "produced", "verifying"}}
<1>1. /\ torn' = (torn \/ mending # NoTask \/ \E t \in Tasks : pc[t] = "evidenced")
      /\ mem' = row
      /\ status' = [t \in Tasks |-> IF t \in dead THEN "pending" ELSE status[t]]
      /\ owner' = [t \in Tasks |-> IF t \in dead THEN NoAgent ELSE owner[t]]
      /\ pc' = [t \in Tasks |-> "idle"] /\ worker' = [t \in Tasks |-> NoAgent]
      /\ stopped' = {} /\ out' = [t \in Tasks |-> {}] /\ ghosts' = {}
      /\ mending' = NoTask /\ replanning' = FALSE
      /\ verdict' = [t \in Tasks |-> FALSE] /\ seen' = [t \in Tasks |-> "absent"]
      /\ UNCHANGED <<attempts, produced, sources, superseded, conflicted>>
      /\ UNCHANGED <<made, from, hash, row, git, voided, cancelled, run, won, unearned>>
  BY DEF Crash, Loaded
<1>2. PICK placed \in SUBSET {t \in Tasks : pc[t] = "checked"} :
          disk' = [t \in Tasks |-> IF t \in placed THEN work[worker[t]] ELSE disk[t]]
  BY DEF Crash
<1>3. BoardTypes /\ FlowTypes /\ StoreTypes /\ GitTypes /\ OtherTypes /\ Attributed
  BY TypesByGroup DEF Inductive, EvidenceInv
<1>4. TypeOK'
  <2>1. BoardTypes' /\ FlowTypes'
    BY <1>1, <1>3 DEF BoardTypes, FlowTypes, Status, Places
  <2>2. GitTypes'
    BY <1>1, <1>3 DEF GitTypes, git
  <2>3. \A t \in placed : work[worker[t]] \in Files
    BY <1>3, RunningTask DEF GitTypes
  <2>4. disk' \in [Tasks -> Files]
    BY <1>2, <1>3, <2>3 DEF StoreTypes
  <2>5. StoreTypes'
    BY <1>1, <1>3, <2>4 DEF StoreTypes
  <2>6. troubles' \in 0..MaxTroubles
    BY TroublesAreCounted DEF Crash
  <2>7. OtherTypes'
    BY <1>1, <1>3, <2>6 DEF OtherTypes
  <2> QED
    BY <2>1, <2>2, <2>5, <2>7 DEF TypeOK, BoardTypes, FlowTypes, StoreTypes, GitTypes, OtherTypes
<1>5. UNCHANGED <<merged, trunk, landed>>
  BY <1>1 DEF git
<1>6. ASSUME NEW u \in Tasks PROVE Placed(u)' /\ Carried(u)'
  <2>1. Placed(u) /\ pc'[u] = "idle" /\ worker'[u] = NoAgent /\ out'[u] = {}
    BY <1>1 DEF Inductive, EvidenceInv
  <2>2. u \in dead => u \notin superseded \cup won /\ status'[u] = "pending"
    BY <1>1, <2>1 DEF Placed
  <2>3. u \notin dead => status'[u] = status[u] /\ status[u] \notin {"running", "produced", "verifying"}
    BY <1>1
  <2>4. Placed(u)'
    BY <1>1, <2>1, <2>2, <2>3 DEF Placed, Attempting, Completing, Fenced
  <2>5. Carried(u)'
    BY <2>1 DEF Carried, Attempting, Completing
  <2> QED
    BY <2>4, <2>5
<1>7. OneEach' /\ Landed' /\ Suspended'
  BY <1>1, <1>5 DEF Inductive, EvidenceInv, OneEach, Landed, Suspended
<1>8. Attributed'
  BY <1>1, <1>3 DEF Attributed
<1>9. VerifiedHasItsTask'
  <2> SUFFICES ASSUME NEW a \in Artifacts, row[a] = "verified", ~torn'
               PROVE  from[a] \in won /\ a \in produced[from[a]] /\ from[a] \notin superseded
    BY <1>1 DEF VerifiedHasItsTask
  <2>1. from[a] \in Tasks /\ from[a] # NoTask
    <3>1. a \in 1..made
      BY <1>3 DEF StoreTypes, Artifacts
    <3> QED
      BY <1>3, <3>1, EvidenceAssumption DEF Attributed
  <2>2. ~torn /\ mending = NoTask /\ pc[from[a]] # "evidenced"
    BY <1>1, <2>1
  <2> QED
    BY <2>1, <2>2 DEF Inductive, EvidenceInv, VerifiedHasItsTask
<1>10. SucceededIsBacked'
  <2>1. \A u \in Current' : status'[u] = "succeeded" => u \in Current /\ status[u] = "succeeded"
    BY <1>1 DEF Current
  <2> QED
    BY <1>1, <1>3, <1>5, <2>1 DEF Inductive, EvidenceInv, SucceededIsBacked, Attributed
<1> QED
  BY <1>4, <1>6, <1>7, <1>8, <1>9, <1>10 DEF Inductive, EvidenceInv

LEMMA SurroundingsKeepOrder ==
    ASSUME Inductive, Around
    PROVE  Inductive'
  BY GhostEndsKeepsOrder, RepairKeepsOrder, ReviseKeepsOrder, RejectRepairedKeepsOrder,
     RejectAllKeepsOrder, FinalizeKeepsOrder, CancelRunKeepsOrder, CrashKeepsOrder,
     StopKeepsOrder, CancelTaskKeepsOrder, RequestReplanKeepsOrder DEF Around

LEMMA OrderFromTheStart == Init => Inductive
<1> SUFFICES ASSUME Init PROVE Inductive
  OBVIOUS
<1>1. Plan \subseteq Tasks /\ MaxArtifacts \in Nat /\ MaxAttempts \in Nat /\ MaxTroubles \in Nat
  BY EvidenceAssumption
<1>2. TypeOK
  <2>1. BoardTypes /\ FlowTypes
    BY <1>1 DEF Init, BoardTypes, FlowTypes, Status, Places
  <2>2. \A a \in Artifacts : a > 0
    BY <1>1 DEF Artifacts
  <2>3. StoreTypes
    BY <1>1, <2>2 DEF Init, StoreTypes, ArtifactStatus, Files
  <2>4. GitTypes
    BY DEF Init, GitTypes, Files
  <2>5. 0 \in 0..MaxTroubles
    BY <1>1
  <2>6. OtherTypes
    BY <2>5 DEF Init, OtherTypes
  <2> QED
    BY <2>1, <2>3, <2>4, <2>6, TypesByGroup
<1>3. \A t \in Tasks : Placed(t) /\ Carried(t)
  BY DEF Init, Placed, Carried, Attempting, Completing, Fenced
<1>4. OneEach /\ Attributed /\ Landed /\ Suspended
  BY DEF Init, OneEach, Attributed, Landed, Suspended
<1>5. VerifiedHasItsTask /\ SucceededIsBacked
  BY DEF Init, VerifiedHasItsTask, SucceededIsBacked, Current
<1> QED
  BY <1>2, <1>3, <1>4, <1>5 DEF Inductive, EvidenceInv

\* Whatever happens, the types, the attribution of artifacts and the order of the
\* commits stay as EvidenceInv has them (artifact.py, git_workspace.py, _run_one).
THEOREM EvidenceStaysInOrder == Spec => []Inductive
<1>1. Inductive /\ [Next]_vars => Inductive'
  <2> SUFFICES ASSUME Inductive, [Next]_vars PROVE Inductive'
    OBVIOUS
  <2>1. CASE UNCHANGED vars
    <3>1. UNCHANGED <<board, pc, worker, out, verdict, seen, store, git, ghosts, mending,
                      replanning, voided, won, torn>>
      BY <2>1 DEF vars, flow, other
    <3>2. /\ stopped' \subseteq Tasks /\ cancelled' \in BOOLEAN
          /\ unearned' \subseteq Tasks \cup {NoTask}
          /\ run' \in {"working", "completed", "failed", "waiting_human"}
          /\ troubles' \in 0..MaxTroubles
      BY <2>1, TypesByGroup DEF vars, flow, other, Inductive, FlowTypes, OtherTypes
    <3> QED
      BY <3>1, <3>2, BystandersKeepOrder
  <2>2. CASE Next
    BY <2>2, WorkersKeepOrder, CoroutinesKeepOrder, SurroundingsKeepOrder DEF Next
  <2> QED
    BY <2>1, <2>2
<1> QED
  BY <1>1, OrderFromTheStart, PTL DEF Spec

\* Every variable has its type, and no artifact is verified without its task's
\* success unless a crash or a failed write split the commits, for any number of
\* tasks, agents, contents, artifacts, attempts and troubles (artifact.py, _run_one,
\* _repair).
THEOREM NothingVerifiedIsOutOfPlace == Spec => []Safety
<1>1. Inductive => Safety
  BY DEF Inductive, EvidenceInv, Safety
<1> QED
  BY <1>1, EvidenceStaysInOrder, PTL

\* A task that counts as succeeded has every artifact it names verified, in the
\* table and the registry, and its content merged (the completion half of _run_one).
THEOREM SuccessIsBacked == Spec => []SucceededIsBacked
<1>1. Inductive => SucceededIsBacked
  BY DEF Inductive, EvidenceInv
<1> QED
  BY <1>1, EvidenceStaysInOrder, PTL
=============================================================================
