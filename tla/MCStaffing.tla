---------------------------- MODULE MCStaffing ----------------------------
EXTENDS Staffing

CONSTANTS r1, r2

MCRuns == {r1, r2}
MCTeamOf == [r \in MCRuns |-> IF r = r1 THEN "software_dev_team" ELSE "research_team"]

Task(caps, text, after) == [caps |-> caps, text |-> text, after |-> after]

\* Two tasks side by side of one role, one with another role and with tools its role
\* lacks; one task for each of two roles; an unknown label; no role at all.
MCAnswers == {
    [execute |-> Task(<<"coding", "research", "web_research">>, "impl", {}),
     verify |-> Task(<<>>, "impl", {})],
    [plan |-> Task(<<>>, "design", {}), execute |-> Task(<<"coding">>, "impl", {})],
    [execute |-> Task(<<"coding", "config">>, "impl", {})],
    [plan |-> Task(<<"mcp_access">>, "plain", {})]}

\* Two roles for the only task.
MCProposals == {<<"frontend", "planning", "mcp_access">>}
MCRequests == {{"coding"}, {"mcp_access"}}

\* Two events or restarts, or one spawn that is vetoed and two restarts.
TwoThings == events + restarts <= 2 \/ (events = 1 /\ vetoed # <<>>)
==============================================================================
