------------------------------- MODULE Verdict -------------------------------
(***************************************************************************)
(* What the verifier says, as functions of what it was given: the judgement *)
(* of a task's artifacts by its output contract and by a model              *)
(* (src/app/multiagent/verifier.py) and the run-level checks of the         *)
(* integrated repository (_finalize_verified_run and                        *)
(* _integration_verification_plan of parallel_scheduler.py,                 *)
(* discover_verification_plan and verify_check of git_workspace.py).        *)
(* Module Evidence says when each is asked.                                 *)
(*                                                                         *)
(* A contract, an answer and a repository are abstracted to what the rules  *)
(* look at; scores, summaries, proposed tasks and the prompt are left out.  *)
(***************************************************************************)
EXTENDS Naturals, FiniteSets, Sequences

CONSTANT MaxTries   \* calls of the model for one judgement, 4 in the code

ASSUME VerdictAssumption == MaxTries \in Nat \ {0}

Verdicts == {"pass", "repair", "replan", "human_required", "fail"}

\* verdict_rank: the strictest verdict wins.
Rank(v) == CASE v = "pass" -> 0 [] v = "repair" -> 1 [] v = "replan" -> 2
             [] v = "human_required" -> 3 [] OTHER -> 4

-----------------------------------------------------------------------------
(* The contract.                                                           *)

\* OutputContract: the artifacts it requires, a path or a role, and its
\* acceptance criteria: "test: <command>", the same without a command, a sentence.
Contracts == [required : SUBSET {"path", "role"}, criteria : SUBSET {"command", "blank", "sentence"}]

\* from_output_contract: a blank criterion is neither run nor reviewed.
Runs(c) == "command" \in c.criteria
Reviews(c) == "role" \in c.required \/ "sentence" \in c.criteria

\* What the programmatic checks find: a required file may be missing, and the
\* command may exit as expected or not, or be refused by the shell policy.
Findings == [missing : BOOLEAN, exit : {"expected", "other", "refused"}]

\* A result of one check: its verdict, the score it carries, the criteria it
\* says have failed.
Result(v, score, failed) == [verdict |-> v, score |-> score, failed |-> failed]

\* verify_files_exist is always asked, of no file if the contract names none.
FilesResult(c, f) ==
    IF "path" \in c.required /\ f.missing
    THEN Result("repair", "files", {"file_exists"}) ELSE Result("pass", "files", {})

\* verify_command: an exception is a repair too.
CommandResult(f) ==
    IF f.exit = "expected" THEN Result("pass", "command", {})
    ELSE Result("repair", "command", {"command"})

Checked(c, f) == {FilesResult(c, f)} \cup (IF Runs(c) THEN {CommandResult(f)} ELSE {})

-----------------------------------------------------------------------------
(* The model's review.                                                     *)

\* The calls: an answer ends them, and so does an error that is not transient.
Replies == UNION {[1..n -> {"answer", "transient", "error"}] : n \in 1..MaxTries}

\* The calls that can be made: only a transient error is retried.
Made(calls) ==
    /\ \A i \in 1..(Len(calls) - 1) : calls[i] = "transient"
    /\ calls[Len(calls)] = "transient" => Len(calls) = MaxTries

Answered(calls) == calls[Len(calls)] = "answer"

\* An answer: its verdict, one of the five or something else, and the criteria
\* it says have failed: semantic ones, names of the programmatic checks, malformed ones.
Answers == [verdict : Verdicts \cup {"other"}, failed : SUBSET {"semantic", "reserved", "malformed"}]

\* _parse_rubric_json gives up.
Garbled == [verdict |-> "other", failed |-> {"garbled"}]

\* (Mutant: when every reported criterion is dropped, any verdict becomes a pass.)
ReviewedLeniently(a) ==
    LET failed == a.failed \cap {"semantic"}
        v == IF a.verdict \in Verdicts THEN a.verdict ELSE "repair"
    IN Result(IF failed = {} THEN "pass" ELSE v, "rubric", failed)

\* Only semantic criteria count, and a refusal without any of them is a pass.
Reviewed(a) ==
    LET failed == a.failed \cap {"semantic"}
        v == IF a.verdict \in Verdicts THEN a.verdict ELSE "repair"
    IN Result(IF failed = {} /\ v \in {"repair", "replan", "fail"} THEN "pass" ELSE v, "rubric", failed)

\* _fallback_verify, which fails closed: some artifact may be empty.
Unreviewed(hollow) ==
    Result("repair", "rules", {"semantic_verifier_unavailable"}
                              \cup (IF hollow THEN {"artifacts_empty"} ELSE {}))

Rubric(calls, a, hollow) ==
    IF Answered(calls) /\ a # Garbled THEN Reviewed(a) ELSE Unreviewed(hollow)

-----------------------------------------------------------------------------
(* The judgement of a task.                                                *)

\* A passing command stands in for a model that is unavailable, if nothing is
\* to be reviewed.
StandsIn(c, checked, rubric) ==
    /\ rubric.verdict = "repair" /\ rubric.failed \subseteq {"semantic_verifier_unavailable"}
    /\ ~Reviews(c)
    /\ \E r \in checked : r.verdict = "pass" /\ r.score = "command"

Settled(c, checked, rubric) ==
    IF StandsIn(c, checked, rubric) THEN Result("pass", "programmatic", {}) ELSE rubric

\* _merge_results: the strictest verdict of all.
Merged(results) ==
    (CHOOSE r \in results : \A s \in results : Rank(s.verdict) <= Rank(r.verdict)).verdict

\* validate(): no evidence fails whatever the rest says.
Validated(evident, c, f, rubric) ==
    IF ~evident THEN "fail"
    ELSE LET checked == Checked(c, f)
         IN Merged(checked \cup {Settled(c, checked, rubric)})

-----------------------------------------------------------------------------
(* What a pass has to rest on.                                             *)

\* The model read the artifacts, and passed them or found nothing to object to
\* and did not ask for a human.
Consents(calls, a) ==
    /\ Answered(calls) /\ a # Garbled
    /\ a.verdict = "pass" \/ ("semantic" \notin a.failed /\ a.verdict # "human_required")

\* Evidence, no check that failed, and a model that consents, or a command that
\* ran for a contract that leaves nothing to review.
Earned(evident, c, f, consent, answered) ==
    /\ evident
    /\ "path" \in c.required => ~f.missing
    /\ "command" \in c.criteria => f.exit = "expected"
    /\ \/ consent
       \/ ~answered /\ "command" \in c.criteria /\ c.criteria \subseteq {"command", "blank"}
                    /\ "role" \notin c.required

\* What may come of the judgement of a task with evidence, and without.
Judgements ==
    LET reviews == {[rubric |-> Rubric(calls, a, hollow), consent |-> Consents(calls, a),
                     answered |-> Answered(calls) /\ a # Garbled] :
                        calls \in {c \in Replies : Made(c)}, a \in Answers \cup {Garbled},
                        hollow \in BOOLEAN}
    IN [evident \in BOOLEAN |->
            {[passes |-> Validated(evident, c, f, r.rubric) = "pass",
              earned |-> Earned(evident, c, f, r.consent, r.answered)] :
                 c \in Contracts, f \in Findings, r \in reviews}]

-----------------------------------------------------------------------------
(* The run-level checks.                                                   *)

\* A command that is known to be a check, or one that is not run.
Check == {"usable", "unusable"}

\* The checks the repository calls for, each with its tools and packages or without.
Discovered == SUBSET Check

\* The checks somebody configured; "invalid" is no list of them.
Configured == SUBSET Check \cup {{"invalid"}}

Demands == Discovered \cup Configured

\* verify_check: a check passes, fails, or cannot be run here.
Outcomes == {"passed", "failed", "unavailable"}

Planned(demand) == [checks |-> "usable" \in demand, missing |-> demand # {"usable"}]

\* The checks run one after the other; the first that fails or cannot be run
\* decides, and a requirement that is missing asks a human even if all pass.
RunResult(pending, conflict, demand, outcome) ==
    LET plan == Planned(demand)
    IN IF pending THEN "waiting_human"
       ELSE IF conflict THEN "failed"
       ELSE IF plan.checks /\ outcome # "passed"
            THEN (IF outcome = "failed" THEN "failed" ELSE "waiting_human")
       ELSE IF plan.missing THEN "waiting_human" ELSE "completed"

=============================================================================
