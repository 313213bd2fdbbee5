------------------------------ MODULE Staffing ------------------------------
(***************************************************************************)
(* Who works on what: from a goal to a plan, from the plan to a team, and  *)
(* from the team to the profile an assignment runs under.                  *)
(*                                                                         *)
(*   - supervisor/agent.py and planner.py turn what a model answered into  *)
(*     the capabilities each task requires;                                *)
(*   - team_builder.py creates agents for the profiles of                  *)
(*     agent_profile.py that match;                                        *)
(*   - parallel_scheduler.py, agent_registry.py and executor.py each match *)
(*     a task against an agent again, in their own way;                    *)
(*   - dynamic_team.py lets a working agent create teammates, from the     *)
(*     thread of its tool call, step by step.                              *)
(*                                                                         *)
(* The registries of agents and of profiles belong to the process: runs    *)
(* share them; a restart forgets the profiles, and restores the agents     *)
(* from their rows.  Attempts, retries and the reaping of silent workers   *)
(* are Scheduler's and TaskBoard's; here an assignment is taken, begun and *)
(* returned.                                                               *)
(***************************************************************************)
EXTENDS Integers, SequencesExt

CONSTANTS
    Runs,
    TeamOf,          \* run -> the name of its team
    Answers,         \* the valid plans a model may answer with
    Proposals,       \* the capability lists the supervisor's model may answer with
    Requests,        \* the capability sets agents ask teammates for
    MaxTeamSize,     \* min(max_team_size, max_agents_per_run) of TeamBudget
    MaxSpawnDepth,   \* TeamBudget.max_spawn_depth
    MaxParallel,     \* _MAX_PARALLEL_AGENTS_PER_PROFILE
    MaxEvents,       \* bound on spawns, stops, pauses and repairs together
    MaxRestarts      \* bound on restarts

Primary == {"planning", "research", "coding", "testing", "reviewing", "summarization"}
Tooling == {"file_read", "file_write", "shell_execute", "web_research", "mcp_access",
            "default"}

\* The default profiles: what each says it can do, and the tools it is given.
Caps ==
    [planner    |-> {"planning", "file_read", "file_write"},
     coder      |-> {"coding", "file_read", "file_write", "shell_execute"},
     tester     |-> {"testing", "file_read", "file_write", "shell_execute"},
     reviewer   |-> {"reviewing", "file_read"},
     researcher |-> {"research", "file_read", "file_write", "web_research"},
     finalizer  |-> {"summarization", "file_read", "file_write"}]

Tools ==
    [planner    |-> {"create_file", "edit_file", "read_file", "list_dir"},
     coder      |-> {"create_file", "edit_file", "execute", "read_file", "list_dir"},
     tester     |-> {"execute", "read_file", "create_file", "list_dir"},
     reviewer   |-> {"read_file", "list_dir"},
     researcher |-> {"search", "fetch_url", "read_file", "list_dir", "create_file",
                     "edit_file"},
     finalizer  |-> {"create_file", "read_file", "list_dir"}]

Roles == DOMAIN Caps

\* The roles of a team; a profile of another role is never built into it.
Teams == [software_dev_team |-> Roles,
          research_team     |-> {"planner", "researcher", "finalizer"}]

\* Some of the names models invent, and what the supervisor takes them for.
Synonym == [frontend |-> "coding", debug |-> "testing", documentation |-> "summarization"]

\* The role a task's text suggests when its capabilities do not name one.
Hint == [design |-> "planning", test |-> "testing", impl |-> "coding", plain |-> "planning"]

Acyclic(p) == \E rank \in [DOMAIN p -> 0..Cardinality(DOMAIN p)] :
    \A t \in DOMAIN p : \A u \in p[t].after : u \in DOMAIN p /\ rank[u] < rank[t]

ASSUME StaffingAssumption ==
    /\ TeamOf \in [Runs -> DOMAIN Teams]
    /\ \A p \in Answers : DOMAIN p # {} /\ IsFiniteSet(DOMAIN p) /\ Acyclic(p)
    /\ \A p \in Answers : "none" \notin DOMAIN p
    /\ \A p \in Answers : \A t \in DOMAIN p : p[t].text \in DOMAIN Hint
    /\ {MaxTeamSize, MaxParallel} \subseteq Nat \ {0} /\ MaxSpawnDepth \in Nat
    /\ {MaxEvents, MaxRestarts} \subseteq Nat

VARIABLES
    registered,      \* CapabilityRegistry: profile -> its allowed tools
    agents,          \* AgentRegistry and its rows, in the order of creation
    links,           \* parent_child_agent_links: agent -> its depth
    call,            \* agent -> where its call of spawn stands
    plan,            \* run -> task -> what it needs and comes after
    done,            \* run -> the tasks that have ended
    phase,           \* run -> "new", "planned", "staffed", "unstaffed", "ended", "stuck"
    vetoed,          \* agent a TeammateSpawned hook objected to -> restarts before that
    disturbed,       \* the runs an agent was stopped or paused in
    unsaved,         \* the agents whose row says idle, although they stop or pause
    restarts,        \* how often the process was restarted
    events           \* spawns, stops, pauses and repairs so far

registry == <<registered, agents, links, call, vetoed>>
process == <<unsaved, restarts, events>>
staffVars == <<registry, plan, done, phase, disturbed, process>>

\* A row stored in a table, or replaced.
Put(table, key, value) ==
    [k \in DOMAIN table \cup {key} |-> IF k = key THEN value ELSE table[k]]

\* One of the events that are bounded.
Event == events < MaxEvents /\ events' = events + 1

\* A profile is a role, and the agents whose tools it was cut down to in turn.
Profile(role, parents) == [role |-> role, under |-> parents]
Defaults == {Profile(role, <<>>) : role \in Roles}
CapsOf(p) == Caps[p.role]

\* as: the profile its assignment runs under, if one runs; parent: 0 if built.
NewAgent(r, p, parent) ==
    [run |-> r, profile |-> p, status |-> "idle", task |-> "none", as |-> {}, parent |-> parent]

\* No call of spawn is under way.
NoCall == [at |-> "none", needs |-> {}, depth |-> 0, child |-> 0]

Ids == DOMAIN agents
Idle == {a \in Ids : agents[a].status = "idle"}
Busy == {a \in Ids : agents[a].status \in {"claiming", "running", "stopping"}}
Live(r) == {a \in Ids : agents[a].run = r /\ agents[a].status \notin {"stopped", "gone"}}

\* list_by_run: what this process knows; stopped agents are not restored.  A failed
\* agent is one that stopped: nobody asks which of the two.
Members(r) == {a \in Ids : agents[a].run = r /\ agents[a].status # "gone"}

Needs(r, t) == plan[r][t].needs

-----------------------------------------------------------------------------
\* The planner.  Of several roles the first is kept, with the tool
\* capabilities; other lists stay as they are, with whatever label they hold.
OneRole(caps) ==
    LET roles == SelectSeq(caps, LAMBDA c : c \in Primary)
    IN  IF Len(roles) <= 1 THEN caps
        ELSE <<roles[1]>> \o SelectSeq(caps, LAMBDA c : c \in Tooling)

\* A list without a role of its own, or with planning alone, follows the text.
Unsure(caps) ==
    /\ caps[1] \in {"planning", "default"}
    /\ \A i \in 2..Len(caps) : caps[i] \notin Primary

Guessed(caps, text) ==
    IF text \in {"test", "impl"} \/ caps[1] = "default"
    THEN <<Hint[text]>> \o SelectSeq(Tail(caps), LAMBDA c : c \in Tooling)
    ELSE caps

Required(answer) ==
    LET caps == OneRole(IF answer.caps = <<>> THEN <<"default">> ELSE answer.caps)
    IN  ToSet(IF Unsure(caps) THEN Guessed(caps, answer.text) ELSE caps)

\* _sanitize_capabilities of the supervisor.
Sanitized(caps) ==
    LET known == {c \in ToSet(caps) : c \in Primary \cup Tooling}
                 \cup {Synonym[c] : c \in ToSet(caps) \cap DOMAIN Synonym}
    IN  IF known \cap Primary = {} THEN known \cup {"coding"} ELSE known

Step(needs, after) == [needs |-> needs, after |-> after]

\* build_fallback_plan.
Fallback ==
    [plan    |-> Step({"planning"}, {}),
     execute |-> Step({"coding"}, {"plan"}),
     verify  |-> Step({"testing"}, {"execute"})]

Planned(r, p) ==
    /\ phase[r] = "new"
    /\ plan' = [plan EXCEPT ![r] = p]
    /\ phase' = [phase EXCEPT ![r] = "planned"]
    /\ UNCHANGED <<registry, done, disturbed, process>>

\* plan_with_llm, of a valid answer.
ModelPlan(answer) ==
    [t \in DOMAIN answer |-> Step(Required(answer[t]), answer[t].after)]

TeamSupervisor(r) ==
    \/ \E answer \in Answers : Planned(r, ModelPlan(answer))
    \/ Planned(r, Fallback)   \* every answer was invalid

\* SupervisorAgent.decide: with an explicit mode, or no answer, the need of a single
\* task follows from the goal.
Decisions ==
    {Sanitized(c) : c \in Proposals} \cup {{"coding"}, {"research"}, {"summarization"}}

SinglePlan(r) == \E needs \in Decisions : Planned(r, [execute |-> Step(needs, {})])

-----------------------------------------------------------------------------
\* TeamBuilder.  find_workers asks for everything a task needs.
FindWorkers(needs) == {p \in DOMAIN registered : needs \subseteq CapsOf(p)}

\* find_best_worker: load, success and recent work decide, so any may be the best.
FindBest(needs) == FindWorkers(needs)

FindAllowed(r, needs) == {p \in FindWorkers(needs) : p.role \in Teams[TeamOf[r]]}

\* Mutant: a task needs a profile that has all it lists.
MatchesWhole(r, needs) == FindAllowed(r, needs)

\* The profiles a task may be given: by all it needs, else by its roles alone,
\* else without tools.  Scores depend on load and success, and decide among them.
Matches(r, needs) ==
    LET roles == needs \cap Primary
        rest  == needs \ Tooling
    IN  IF FindAllowed(r, needs) # {} THEN FindAllowed(r, needs)
        ELSE IF roles \notin {{}, needs} THEN FindAllowed(r, roles)
        ELSE IF roles = {} /\ rest \notin {{}, needs} THEN FindAllowed(r, rest)
        ELSE {}

\* _compute_task_depths: the longest way from a task that waits for none.
Depth(p) ==
    LET depth[t \in DOMAIN p] ==
          IF p[t].after = {} THEN 0 ELSE 1 + Max({depth[u] : u \in p[t].after})
    IN  depth

\* A profile gets as many agents as it has tasks at one depth, up to a limit.
Demand(r, match, p) ==
    LET depth == Depth(plan[r])
        wanted(d) == Cardinality({t \in DOMAIN match : match[t] = p /\ depth[t] = d})
    IN  Min({MaxParallel, Max({wanted(depth[t]) : t \in DOMAIN match})})

Missing(r, match, p) ==
    Demand(r, match, p) - Cardinality({a \in Live(r) : agents[a].profile = p})

\* wanted[p] agents of each profile p; in which order is nobody's business.
Recruits(r, wanted) ==
    LET places == SetToSeq({x \in (DOMAIN wanted) \X (1..MaxParallel) : x[2] <= wanted[x[1]]})
    IN  [i \in DOMAIN places |-> NewAgent(r, places[i][1], 0)]

\* Mutant: the agents that live are not counted.
CreatedAnew(r, match) == Recruits(r, [p \in ToSet(match) |-> Demand(r, match, p)])

\* The agents that are missing: those that live count.
Created(r, match) == Recruits(r, [p \in ToSet(match) |-> Missing(r, match, p)])

BuildTeam(r) ==
    /\ phase[r] = "planned"
    /\ \E match \in [DOMAIN plan[r] -> DOMAIN registered] :
         /\ \A t \in DOMAIN plan[r] : match[t] \in Matches(r, Needs(r, t))
         /\ agents' = agents \o Created(r, match)
    /\ call' = [a \in DOMAIN agents' |-> IF a \in Ids THEN call[a] ELSE NoCall]
    /\ phase' = [phase EXCEPT ![r] = "staffed"]
    /\ UNCHANGED <<registered, links, vetoed, plan, done, disturbed, process>>

\* no_matching_worker: the run fails before it starts.
BuildFails(r) ==
    /\ phase[r] = "planned"
    /\ \E t \in DOMAIN plan[r] : Matches(r, Needs(r, t)) = {}
    /\ phase' = [phase EXCEPT ![r] = "unstaffed"]
    /\ UNCHANGED <<registry, plan, done, disturbed, process>>

-----------------------------------------------------------------------------
\* Mutant: the scheduler has no fallback.
CanServeWhole(a, needs) == needs \subseteq CapsOf(agents[a].profile)

\* _agent_can_serve: the scheduler sets tool capabilities aside, other labels not.
CanServe(a, needs) ==
    LET caps == CapsOf(agents[a].profile)
    IN  \/ needs \subseteq caps
        \/ needs \ Tooling # {} /\ needs \ Tooling \subseteq caps

\* reserve_idle_agent: an agent that has all, else one that has the roles.
Reservable(r, needs) ==
    LET idle == {a \in Idle : agents[a].run = r}
        whole == {a \in idle : needs \subseteq CapsOf(agents[a].profile)}
        roles == needs \cap Primary
    IN  IF whole # {} THEN whole
        ELSE IF roles \in {{}, needs} THEN {}
        ELSE {a \in idle : roles \subseteq CapsOf(agents[a].profile)}

Taken(r) == {agents[a].task : a \in {b \in Busy : agents[b].run = r}} \ {"none"}

Due(r) == {t \in DOMAIN plan[r] \ (done[r] \cup Taken(r)) : plan[r][t].after \subseteq done[r]}

Serviceable(r) ==
    {t \in Due(r) : \E a \in Idle : agents[a].run = r /\ CanServe(a, Needs(r, t))}

Assign(r, t) ==
    /\ phase[r] = "staffed"
    /\ t \in Serviceable(r)
    /\ \E a \in Reservable(r, Needs(r, t)) :
         agents' = [agents EXCEPT ![a].status = "claiming", ![a].task = t]
    /\ UNCHANGED <<registered, links, call, vetoed, plan, done, phase, disturbed, process>>

\* The executor: the agent's profile if the process knows it, else the best of
\* those that match.
Profiles(a) ==
    LET needs == Needs(agents[a].run, agents[a].task)
        roles == needs \cap Primary
    IN  IF agents[a].profile \in DOMAIN registered THEN {agents[a].profile}
        ELSE IF FindBest(needs) # {} THEN FindBest(needs)
        ELSE IF roles \notin {{}, needs} THEN FindBest(roles) ELSE {}

Begin(a) ==
    /\ a \in Ids /\ agents[a].status = "claiming"
    /\ \E p \in {q \in Profiles(a) : Needs(agents[a].run, agents[a].task) \subseteq CapsOf(q)} :
         agents' = [agents EXCEPT ![a].status = "running", ![a].as = {p}]
    /\ UNCHANGED <<registered, links, call, vetoed, plan, done, phase, disturbed, process>>

\* Mutant: whoever returns is idle again.
FreedAnyway(a) == [agents[a] EXCEPT !.status = "idle", !.task = "none", !.as = {}]

\* release_reservation.
Freed(a) == [agents[a] EXCEPT !.status = IF @ = "stopping" THEN "stopped" ELSE "idle",
                              !.task = "none", !.as = {}]

\* The assignment returns, is refused for want of a match, or is given up while
\* its thread goes on; the task has ended, or is tried again.
Return(a) ==
    /\ a \in Busy /\ agents[a].task # "none"
    /\ agents' = [agents EXCEPT ![a] = Freed(a)]
    /\ \/ agents[a].as # {}
          /\ done' = [done EXCEPT ![agents[a].run] = @ \cup {agents[a].task}]
       \/ UNCHANGED done
    /\ UNCHANGED <<registered, links, call, vetoed, plan, phase, disturbed, process>>

\* The scheduler returns: all is done, or it finds nobody for what is due.
RunEnds(r) ==
    /\ phase[r] = "staffed" /\ Taken(r) = {}
    /\ \/ done[r] = DOMAIN plan[r] /\ phase' = [phase EXCEPT ![r] = "ended"]
       \/ /\ Due(r) # {} /\ Serviceable(r) = {}
          /\ phase' = [phase EXCEPT ![r] = "stuck"]
    /\ UNCHANGED <<registry, plan, done, disturbed, process>>

\* Verification rejects a task: a repair with the same needs takes its place, and
\* the team is built again around the agents there are.
Repair(r) ==
    /\ Event
    /\ phase[r] = "ended"
    /\ \E t \in done[r] : done' = [done EXCEPT ![r] = @ \ {t}]
    /\ phase' = [phase EXCEPT ![r] = "planned"]
    /\ UNCHANGED <<registry, plan, disturbed, unsaved, restarts>>

-----------------------------------------------------------------------------
\* What a worker under a profile is given (_build_restricted_tools).
Offered(p) == registered[p] \cap {"read_file", "list_dir", "create_file", "edit_file", "execute"}

\* allow_team_tools; a child keeps its base's.
HasTeamTools(p) == p.role # "reviewer"

\* DynamicTeamManager.spawn, called by a working agent a: budget and depth are
\* looked at, then the profile is cut down and the agent created, then its link is
\* stored, then the hooks are asked.
SpawnChecks(a) ==
    /\ Event
    /\ a \in Ids
    /\ \E p \in agents[a].as : HasTeamTools(p)
    /\ call[a] = NoCall
    /\ Cardinality(Members(agents[a].run)) < MaxTeamSize
    /\ LET depth == 1 + (IF a \in DOMAIN links THEN links[a] ELSE 0)
       IN  /\ depth <= MaxSpawnDepth
           /\ \E needs \in Requests :
                call' = [call EXCEPT ![a] = [at |-> "checked", needs |-> needs,
                                             depth |-> depth, child |-> 0]]
    /\ UNCHANGED <<registered, agents, links, vetoed, plan, done, phase, disturbed,
                   unsaved, restarts>>

\* Mutant: the child keeps the tools of the profile it was made from.
RestrictedNot(base, parent) == registered[base]

\* _restrict_to_parent: of the tools of the base, those the parent has.
Restricted(base, parent) == registered[base] \cap registered[parent]

\* The cut-down profile is registered for everybody.
SpawnCreates(a) ==
    /\ a \in Ids /\ call[a].at = "checked"
    /\ agents[a].profile \in DOMAIN registered
    /\ \E base \in FindBest(call[a].needs) :
         LET child == Profile(base.role, Append(base.under, a))
         IN  /\ registered' = Put(registered, child, Restricted(base, agents[a].profile))
             /\ agents' = Append(agents, NewAgent(agents[a].run, child, a))
    /\ call' = Append([call EXCEPT ![a].at = "created", ![a].child = Len(agents) + 1], NoCall)
    /\ UNCHANGED <<links, vetoed, plan, done, phase, disturbed, process>>

SpawnLinks(a) ==
    /\ a \in Ids /\ call[a].at = "created"
    /\ links' = Put(links, call[a].child, call[a].depth)
    /\ call' = [call EXCEPT ![a].at = "linked"]
    /\ UNCHANGED <<registered, agents, vetoed, plan, done, phase, disturbed, process>>

\* stop(): a busy agent ends when its assignment returns.
Stopped(a) == [agents[a] EXCEPT !.status = IF a \in Busy THEN "stopping" ELSE "stopped"]

SpawnAnnounces(a) ==
    /\ a \in Ids /\ call[a].at = "linked"
    /\ \/ UNCHANGED <<agents, vetoed>>
       \/ /\ vetoed' = Put(vetoed, call[a].child, restarts)
          /\ agents' = IF agents[call[a].child].status \in {"stopping", "stopped"} THEN agents
                       ELSE [agents EXCEPT ![call[a].child] = Stopped(call[a].child)]
    /\ call' = [call EXCEPT ![a] = NoCall]
    /\ UNCHANGED <<registered, links, plan, done, phase, disturbed, process>>

\* no_matching_profile, or a parent whose profile this process does not know.
SpawnFails(a) ==
    /\ a \in Ids /\ call[a].at = "checked"
    /\ FindBest(call[a].needs) = {} \/ agents[a].profile \notin DOMAIN registered
    /\ call' = [call EXCEPT ![a] = NoCall]
    /\ UNCHANGED <<registered, agents, links, vetoed, plan, done, phase, disturbed, process>>

-----------------------------------------------------------------------------
\* An agent is stopped through the API, or by a teammate.
StopAgent(a) ==
    /\ Event
    /\ a \in Ids /\ agents[a].status \notin {"stopping", "stopped", "gone"}
    /\ agents' = [agents EXCEPT ![a] = Stopped(a)]
    /\ unsaved' = unsaved \ {a}
    /\ disturbed' = disturbed \cup {agents[a].run}
    /\ UNCHANGED <<registered, links, call, vetoed, plan, done, phase, restarts>>

\* pause_agent, of an idle one.
PauseAgent(a) ==
    /\ Event
    /\ a \in Idle
    /\ agents' = [agents EXCEPT ![a].status = "blocked"]
    /\ disturbed' = disturbed \cup {agents[a].run}
    /\ UNCHANGED <<registered, links, call, vetoed, plan, done, phase, unsaved, restarts>>

\* resume_agent.
ResumeAgent(a) ==
    /\ a \in Ids /\ agents[a].status = "blocked"
    /\ agents' = [agents EXCEPT ![a].status = "idle"]
    /\ unsaved' = unsaved \ {a}
    /\ UNCHANGED <<registered, links, call, vetoed, plan, done, phase, disturbed, restarts,
                   events>>

\* cleanup_expired, in the loop of whichever run goes on: an agent that was restored
\* as stopping has no assignment whose heartbeat would keep its lease.
ReapStopping(a) ==
    /\ a \in Ids /\ agents[a].status = "stopping" /\ agents[a].task = "none"
    /\ \E r \in Runs : phase[r] = "staffed"
    /\ agents' = [agents EXCEPT ![a].status = "stopped"]
    /\ unsaved' = unsaved \ {a}
    /\ UNCHANGED <<registered, links, call, vetoed, plan, done, phase, disturbed, restarts,
                   events>>

\* The status an agent is restored with: rows of stopped ones are passed over, and
\* whoever worked is idle.
Restored(a) ==
    IF agents[a].status \in {"stopped", "gone"} THEN "gone"
    ELSE IF agents[a].status \in {"claiming", "running"} \/ a \in unsaved THEN "idle"
    ELSE agents[a].status

\* The process dies and resumes its runs: agents come back from their rows, profiles
\* do not.  create_agent saves everybody as idle; that an agent was stopping or
\* paused is set afterwards, in memory alone.
Restart ==
    /\ restarts < MaxRestarts /\ restarts' = restarts + 1
    /\ registered' = [p \in Defaults |-> Tools[p.role]]
    /\ call' = [a \in Ids |-> NoCall]
    /\ agents' = [a \in Ids |->
          [agents[a] EXCEPT !.status = Restored(a), !.task = "none", !.as = {}]]
    /\ unsaved' = {a \in Ids : Restored(a) \in {"stopping", "blocked"}}
    /\ UNCHANGED <<links, vetoed, plan, done, phase, disturbed, events>>

-----------------------------------------------------------------------------
StaffInit ==
    /\ registered = [p \in Defaults |-> Tools[p.role]]
    /\ agents = <<>> /\ links = <<>> /\ call = <<>>
    /\ plan = [r \in Runs |-> <<>>]
    /\ done = [r \in Runs |-> {}]
    /\ phase = [r \in Runs |-> "new"]
    /\ vetoed = <<>> /\ disturbed = {} /\ unsaved = {}
    /\ restarts = 0 /\ events = 0

Run(r) ==
    \/ TeamSupervisor(r)
    \/ SinglePlan(r)
    \/ BuildTeam(r)
    \/ BuildFails(r)
    \/ \E t \in DOMAIN plan[r] : Assign(r, t)
    \/ RunEnds(r)
    \/ Repair(r)

Agent(a) ==
    \/ Begin(a)
    \/ Return(a)
    \/ SpawnChecks(a)
    \/ SpawnCreates(a)
    \/ SpawnLinks(a)
    \/ SpawnAnnounces(a)
    \/ SpawnFails(a)
    \/ StopAgent(a)
    \/ PauseAgent(a)
    \/ ResumeAgent(a)
    \/ ReapStopping(a)

StaffNext ==
    \/ \E r \in Runs : Run(r)
    \/ \E a \in Ids : Agent(a)
    \/ Restart

StaffSpec == StaffInit /\ [][StaffNext]_staffVars

-----------------------------------------------------------------------------
AgentStatus == {"idle", "claiming", "running", "blocked", "stopping", "stopped", "gone"}

ProfileRow == [role : Roles, under : Seq(Nat)]
TaskNames == DOMAIN Fallback \cup UNION {DOMAIN p : p \in Answers}

AgentRow == [run : Runs, profile : ProfileRow, status : AgentStatus,
             task : TaskNames \cup {"none"}, as : SUBSET ProfileRow, parent : Nat]

CallRow == [at : {"none", "checked", "created", "linked"}, needs : Requests \cup {{}},
            depth : Nat, child : Nat]

\* Who there is: an assignment runs under a profile only while the agent works, and
\* whoever was spawned came after its parent.
AgentTypes ==
    /\ agents \in Seq(AgentRow)
    /\ \A a \in Ids : /\ agents[a].as # {} => /\ agents[a].status \in {"running", "stopping"}
                                              /\ agents[a].task # "none"
                      /\ agents[a].parent \in 0..(a - 1)
                      /\ agents[a].task \in DOMAIN plan[agents[a].run] \cup {"none"}

\* What is known of profiles; the default ones never leave the process.
ProfileTypes ==
    /\ Defaults \subseteq DOMAIN registered /\ DOMAIN registered \subseteq ProfileRow
    /\ \A p \in DOMAIN registered : registered[p] \subseteq Tools[p.role]

\* Calls of spawn: between its creation and the answer a child has its parent.
CallTypes ==
    /\ call \in Seq(CallRow) /\ DOMAIN call = Ids
    /\ \A a \in Ids : call[a].at \in {"created", "linked"} =>
                         call[a].child \in Ids /\ agents[call[a].child].parent = a
    /\ DOMAIN links \subseteq Ids /\ \A a \in DOMAIN links : links[a] \in Nat

\* Vetoes and restarts: only who stops or pauses has a row that says otherwise.
RestartTypes ==
    /\ restarts \in Nat /\ events \in Nat
    /\ DOMAIN vetoed \subseteq Ids /\ \A a \in DOMAIN vetoed : vetoed[a] \in 0..restarts
    /\ unsaved \subseteq {a \in Ids : /\ agents[a].status \in {"stopping", "blocked"}
                                     /\ agents[a].task = "none"}

PlanTypes ==
    /\ DOMAIN plan = Runs
    /\ \A r \in Runs : DOMAIN plan[r] \subseteq TaskNames /\ IsFiniteSet(DOMAIN plan[r])
    /\ done \in [Runs -> SUBSET TaskNames]
    /\ \A r \in Runs : done[r] \subseteq DOMAIN plan[r]
    /\ phase \in [Runs -> {"new", "planned", "staffed", "unstaffed", "ended", "stuck"}]
    /\ disturbed \subseteq Runs

StaffTypes == AgentTypes /\ ProfileTypes /\ CallTypes /\ PlanTypes /\ RestartTypes

\* A teammate a hook objected to takes no further task, although it may have been
\* reserved between its creation and the objection, may return from that task, and may
\* be restored from its row once (dynamic_team.py:96-119, agent_registry.py:189-210,
\* resume_coordinator.py:107-141).
VetoedChildrenEnd ==
    \A a \in DOMAIN vetoed : \/ agents[a].status \in {"stopping", "stopped", "gone"}
                             \/ restarts >= vetoed[a] + 2

\* Types, and what a veto means.
StaffSafety == StaffTypes /\ VetoedChildrenEnd

\* TeamBuilder gives a run up only over a task whose roles nobody in its team has:
\* neither tool capabilities nor labels that models add make it fail.
BuilderStaffs ==
    \A r \in Runs : phase[r] = "unstaffed" =>
        \E t \in DOMAIN plan[r] :
            LET roles == Needs(r, t) \cap Primary
            IN  \/ roles = {}
                \/ \A role \in Teams[TeamOf[r]] : ~(roles \subseteq Caps[role])

\* If any profile has all that a task lists, whoever the registry reserves for it has
\* all that the executor will ask for.
WorkersBegin ==
    \A a \in Ids : agents[a].status = "claiming" =>
        LET needs == Needs(agents[a].run, agents[a].task)
        IN  \/ \A role \in Roles : ~(needs \subseteq Caps[role])
            \/ \A p \in Profiles(a) : needs \subseteq CapsOf(p)

\* The builder at one end and the registry and the executor at the other match tasks
\* by rules of their own, over profiles that were cut down or forgotten, and still
\* a task that lists roles of the team is staffed, and one that some profile has all
\* of begins (planner.py:90-120, team_builder.py:95-136, agent_registry.py:152-187,
\* executor.py:1506-1532).
RolesAreStaffed == BuilderStaffs /\ WorkersBegin

Known(r) == \A t \in DOMAIN plan[r] : Needs(r, t) \subseteq Primary \cup Tooling

\* A team that was built has a worker for every task, by the scheduler's own
\* reckoning, whatever repairs, spawned profiles and restarts do: a run is given up
\* for want of a worker only if an agent was stopped or paused or a label is unknown
\* (team_builder.py:95-226, parallel_scheduler.py:517-535, agent_registry.py:139-187).
TeamsServe ==
    \A r \in Runs : phase[r] = "stuck" => r \in disturbed \/ ~Known(r)

\* The agents every set has that goes from a to its parent, and on to parents.
Ancestors(a) ==
    {b \in 1..(a - 1) : \A line \in SUBSET (1..(a - 1)) :
        /\ agents[a].parent \in line
        /\ \A c \in line : agents[c].parent \in line \cup {0}
        => b \in line}

WithinParents ==
    \A a \in Ids : \A p \in agents[a].as :
        agents[a].parent # 0 => \A b \in Ancestors(a) :
            agents[b].profile \in DOMAIN registered =>
                Offered(p) \subseteq Offered(agents[b].profile)

\* As long as the process lives, a spawned agent works with no tool that one of its
\* ancestors lacks, whoever registers which profile in the meantime
\* (dynamic_team.py:130-151, executor.py:1506-1532).
ChildrenAreRestricted == restarts = 0 => WithinParents

\* Building the team again, for a repair or after a restart, creates no lookalikes:
\* of a profile there are never more built agents alive than tasks that could run at
\* the same time, and never more than the limit (team_builder.py:26-31, 155-196).
NoLookalikes ==
    \A r \in Runs : \A b \in {a \in Live(r) : agents[a].parent = 0} :
        LET built == {a \in Live(r) : /\ agents[a].parent = 0
                                      /\ agents[a].profile = agents[b].profile}
            depth == Depth(plan[r])
        IN  /\ Cardinality(built) <= MaxParallel
            /\ \E t \in DOMAIN plan[r] :
                 Cardinality(built) <= Cardinality({u \in DOMAIN plan[r] : depth[u] = depth[t]})

-----------------------------------------------------------------------------
\* Promises the code does not keep.

\* parallel_scheduler.py:519: the scheduler mirrors the registry's fallback.
SchedulerMirrorsRegistry == \A r \in Runs : phase[r] = "stuck" => r \in disturbed

\* agent_registry.py:157: the registry's fallback agrees with the executor's.
ReservedAgentsMayBegin ==
    \A a \in Ids : agents[a].status = "claiming" =>
        \E p \in Profiles(a) : Needs(agents[a].run, agents[a].task) \subseteq CapsOf(p)

\* planner.py:472: the fallback plan can be assigned.
FallbackIsStaffed == \A r \in Runs : phase[r] = "unstaffed" => plan[r] # Fallback

\* dynamic_team.py:112: a spawn that a hook objects to is taken back, for good.
VetoIsFinal == \A a \in DOMAIN vetoed : agents[a].status # "idle"

\* executor.py:1509: a missing profile is no reason for a broader one.
ChildrenStayRestricted == WithinParents
=============================================================================
