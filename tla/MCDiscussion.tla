--------------------------- MODULE MCDiscussion ---------------------------
(* A small team of the four roles the rules name, with their subscriptions   *)
(* of default_teams.py, and the answers that tell the rules apart.           *)
EXTENDS Discussion

CONSTANTS r1

MCTeam == <<"Planner", "Coder", "ReviewerAgent", "Finalizer">>

MCWatched ==
    [a \in {"Planner", "Coder", "ReviewerAgent", "Finalizer"} |->
        CASE a = "Planner" -> {"user_request", "question", "critique", "review_result"}
          [] a = "Coder" -> {"plan", "delegation", "revision_plan", "critique", "test_result", "decision"}
          [] a = "ReviewerAgent" -> {"review_request", "revision_done", "artifact_created"}
          [] OTHER -> {"review_result", "decision", "handoff"}]

MCHears ==
    [a \in {"Planner", "Coder", "ReviewerAgent", "Finalizer"} |->
        IF a = "Coder" THEN {"Planner", "ReviewerAgent", "Tester", "Finalizer"} ELSE {}]

MCAlias == [n \in {"Reviewer"} |-> "ReviewerAgent"]

MCSynonym == [n \in {"done"} |-> "final"]

Say(as, to, asks, arg) == [type |-> "send_message", as |-> as, to |-> to, asks |-> asks, arg |-> arg]
Do(type, to, arg) == [type |-> type, as |-> "", to |-> to, asks |-> FALSE, arg |-> arg]

\* What a model may answer; the role's filter turns what it may not do into no_op.
MCTurns ==
    { <<>>,
      << Say("plan", {}, FALSE, "") >>,
      << Say("observation", {"Nobody", "Coder"}, FALSE, "") >>,
      << Say("question", {"Reviewer"}, TRUE, "") >>,
      << Say("final", {}, FALSE, "") >>,
      << Say("done", {}, FALSE, "") >>,
      << Say("error", {"Nobody"}, FALSE, "") >>,
      << Say("review_result", {}, FALSE, "pass") >>,
      << Say("review_result", {"Coder"}, FALSE, "severe") >>,
      << Say("review_result", {"Coder"}, FALSE, "malformed") >>,
      << Do("create_artifact", {}, ""), Do("request_review", {"ReviewerAgent"}, "") >>,
      << Do("update_state", {}, "completed") >>,
      << Do("update_state", {}, "incomplete") >>,
      << Do("handoff", {"Coder"}, "") >>,
      << Do("mark_done", {}, "") >> }

MCRequests == {r1}
MCKinds == {"cancel", "inject", "resolve"}

=============================================================================
