---------------------------- MODULE Discussion ----------------------------
(*****************************************************************************)
(* The legacy discussion team: one runner thread takes turns among agents    *)
(* that talk through a message bus, and HTTP requests touch the same room.   *)
(* src/app/multiagent/team_runner.py drives round_executor.py; the turn is   *)
(* chosen by speaker_selector.py, filtered by action_guard.py, delivered by  *)
(* bus.py, applied to state.py by round_executor.py and review_repair.py,    *)
(* and judged by termination.py.  team_graph.py drives the same rounds from  *)
(* a LangGraph.  The room's row is in store.py; routes_team.py loads a room  *)
(* object of its own for every request and writes the whole state back.      *)
(*                                                                           *)
(* A message is abstracted to its type, its addressees and whether it asks   *)
(* for an answer; texts, artifacts, plans and memories are left out.         *)
(*****************************************************************************)
EXTENDS Naturals, Sequences, FiniteSets

CONSTANTS
    Team,            \* the agents, in the order of the team's list; a name is its role
    Watched,         \* agent -> the message types its subscription names
    Hears,           \* agent -> the senders it listens to, {} for anyone
    Alias,           \* the names agents are also called by -> the agent
    Synonym,         \* the message types agents invent -> the type
    Turns,           \* the action lists a model may answer with, <<>> for no usable answer
    Requests,        \* the requests on the room, each served once
    Kinds,           \* what they ask: a subset of "cancel", "inject", "resolve"
    MaxRounds,       \* state.max_rounds
    MaxCycles,       \* team_spec.max_review_cycles
    MaxStale         \* max_stale_rounds, 2 in the code

Agents == {Team[i] : i \in DOMAIN Team}

ASSUME TeamAssumption ==
    /\ Team \in Seq(Agents) /\ Len(Team) > 0
    /\ \A a \in DOMAIN Alias : Alias[a] \in Agents
    /\ MaxRounds \in Nat \ {0} /\ MaxCycles \in Nat /\ MaxStale \in Nat \ {0}
    /\ <<>> \in Turns /\ \A t \in Turns : t \in Seq({t[i] : i \in DOMAIN t})

Terminal == {"completed", "failed", "cancelled", "incomplete", "timed_out"}
Working  == {"planning", "discussing", "executing", "reviewing", "repairing", "finalizing"}
Phases   == Terminal \cup Working \cup {"created"}
Reviews  == {"none", "pending", "passed", "failed", "max_retries_exceeded"}

\* SharedTeamState, as far as the loop looks at it: blocked says that an open
\* issue is severe, cancel is metadata["cancel_requested"].
State == [phase : Phases, review : Reviews, cycles : Nat,
          final : BOOLEAN, blocked : BOOLEAN, cancel : BOOLEAN]

VARIABLES
    driver,          \* "loop" (TeamRunner.run) or "graph" (run_via_graph)
    required,        \* the effective policy's review_required
    pc, st,          \* where the runner thread is; its own SharedTeamState
    round, last,     \* its round counter and the previous speaker
    speaker, seen,   \* this round's speaker, how many unread messages its prompt showed
    turn, next,      \* the actions of the turn and the one to publish or process next
    stale, noops,    \* TerminationChecker's two counters
    outcome,         \* what the driver returned
    unread,          \* agent -> its unread rows, oldest first, by urgency
    row,             \* the room's row: state_json, status, terminated
    req,             \* request -> what it does and the state it loaded
    asked            \* how an open run was asked to stop: "no", "own" (by the
                     \* runner's cancel()), "api" (by a request)

loopVars == <<pc, st, round, last, speaker, seen, turn, next, stale, noops, outcome>>
roomVars == <<driver, required, loopVars, unread, row, req, asked>>

Fresh == [phase |-> "created", review |-> "none", cycles |-> 0,
          final |-> FALSE, blocked |-> FALSE, cancel |-> FALSE]

-----------------------------------------------------------------------------
(* Phases and roles *)

\* (Mutant: a late call reopens the room.)
UpdatePhaseAnyway(s, p) == [s EXCEPT !.phase = p]

\* update_phase: a terminal phase is final, and "created" may not complete.  What
\* a model writes that is not a phase is ignored, and so is "created".
UpdatePhase(s, p) ==
    IF \/ s.phase \in Terminal \/ p \notin Terminal \cup Working
       \/ s.phase = "created" /\ p = "completed"
    THEN s ELSE [s EXCEPT !.phase = p]

\* DEFAULT_ROLE_ALLOWED_ACTIONS.
Allowed(a) ==
    {"send_message", "no_op"} \cup
    CASE a = "Planner"       -> {"update_state", "handoff"}
      [] a = "Coder"         -> {"create_artifact", "request_review", "handoff"}
      [] a = "ReviewerAgent" -> {"request_review", "respond_critique"}
      [] a = "Finalizer"     -> {"update_state", "respond_critique", "mark_done"}
      [] OTHER               -> {"create_artifact", "handoff"}

NoOp == [type |-> "no_op", as |-> "", to |-> {}, asks |-> FALSE, arg |-> ""]

\* An action of an answer: its type, the type of message it declares, the names
\* it addresses, whether it asks for an answer, and a phase or a verdict.
Action == {NoOp} \cup UNION {{t[i] : i \in DOMAIN t} : t \in Turns}

\* adapter.run: no usable answer becomes a no_op, and so does every action the
\* role may not take.
Filtered(a, t) ==
    IF t = <<>> THEN <<NoOp>>
    ELSE [i \in DOMAIN t |-> IF t[i].type \in Allowed(a) THEN t[i] ELSE NoOp]

-----------------------------------------------------------------------------
(* The bus *)

\* The type of the message an action becomes: the one the model declared,
\* normalised, or the action's own.
TypeOf(x) ==
    IF x.as \in DOMAIN Synonym THEN Synonym[x.as]
    ELSE IF x.as # "" THEN x.as
    ELSE CASE x.type = "update_state"    -> "state_update"
           [] x.type = "create_artifact" -> "artifact_created"
           [] x.type = "request_review"  -> "review_request"
           [] x.type = "mark_done"       -> "final"
           [] x.type \in {"handoff", "no_op"} -> x.type
           [] OTHER                      -> "observation"

\* The message is direct when it names somebody.
MessageOf(a, x) ==
    [type |-> TypeOf(x), from |-> a, to |-> x.to, asks |-> x.asks,
     direct |-> x.to # {} /\ x.type # "no_op"]

UserRequest ==
    [type |-> "user_request", from |-> "system", to |-> {}, asks |-> FALSE, direct |-> FALSE]

\* The critique of a failed review names its owner but is broadcast.
Critique(owner) ==
    [type |-> "critique", from |-> "ReviewerAgent", to |-> owner, asks |-> TRUE, direct |-> FALSE]

Resolve(n) == IF n \in DOMAIN Alias THEN Alias[n] ELSE n

Watchers(m) ==
    {a \in Agents : m.type \in Watched[a] /\ (Hears[a] = {} \/ m.from \in Hears[a])}

\* One unknown addressee sends a direct message to the dead letters.
Recipients(m) ==
    IF ~m.direct THEN Watchers(m)
    ELSE {Resolve(n) : n \in {k \in m.to : \A j \in m.to : Resolve(j) \in Agents}}

MustAct == {"user_request", "review_request", "test_request", "critique",
            "question", "revision_plan", "decision"}

\* What a stored row means to the selector.  The row keeps the name the sender
\* wrote: an alias is rewritten only in memory, so it does not count as asked.
Urgency(m, a) ==
    IF m.asks /\ (m.to = {} \/ m.to = {a}) THEN "ask"
    ELSE IF m.type \in MustAct THEN "act" ELSE "info"

Deliver(inboxes, m) ==
    [a \in Agents |-> IF a \in Recipients(m) THEN Append(inboxes[a], Urgency(m, a))
                                             ELSE inboxes[a]]

\* _check_productive_delivery, of one message: a broadcast that nobody watches
\* counts as delivered.
Productive(m) ==
    \/ m.type \in {"state_update", "artifact_created"}
    \/ /\ m.type # "no_op"
       /\ IF Cardinality(m.to) = 1 THEN \E n \in m.to : Resolve(n) \in Agents
          ELSE Watchers(m) = {} \/ \E a \in Watchers(m) : a # m.from

-----------------------------------------------------------------------------
(* Choosing the speaker: the first of these groups that is not empty, and in *)
(* it the first agent of the team's list                                     *)

PhaseRole(p) ==
    CASE p = "planning" -> {"Planner"}
      [] p \in {"executing", "repairing"} -> {"Coder"}
      [] p = "reviewing" -> {"ReviewerAgent"}
      [] p = "finalizing" -> {"Finalizer"}
      [] OTHER -> {}

Has(a, urgency) == \E i \in DOMAIN unread[a] : unread[a][i] = urgency

Candidates ==
    LET fit == Agents \cap PhaseRole(st.phase)
        some == {a \in Agents : unread[a] # <<>>}
    IN << {a \in Agents : Has(a, "ask")},
          {a \in Agents : Has(a, "ask") \/ Has(a, "act")},
          fit \cap some, fit \ {last}, some \ {last},
          IF some # {} THEN fit ELSE {},
          IF last \in Agents THEN Agents \ {last} ELSE {},
          Agents >>

First(s) == CHOOSE i \in s : \A j \in s : i <= j

Selected ==
    LET group == Candidates[First({i \in DOMAIN Candidates : Candidates[i] # {}})]
    IN Team[First({i \in DOMAIN Team : Team[i] \in group})]

-----------------------------------------------------------------------------
(* What an action does to the state *)

\* process_review_result of a review that did not pass.
Failed(s, severe) ==
    LET c == s.cycles + 1
    IN UpdatePhase([s EXCEPT !.cycles = c,
                             !.review = IF c > MaxCycles THEN "max_retries_exceeded" ELSE "failed",
                             !.blocked = @ \/ (severe /\ c <= MaxCycles)], "repairing")

\* (Mutant: the handlers trust the action filter, which lets every role send messages.)
FinalizedByAnyone(a, s) == UpdatePhase([s EXCEPT !.final = TRUE], "finalizing")

\* mark_done and a final message write the result, of the Finalizer only.
Finalized(a, s) ==
    IF a = "Finalizer" THEN UpdatePhase([s EXCEPT !.final = TRUE], "finalizing") ELSE s

\* _handle_send_message looks at the type as the model wrote it.
Said(a, x, s) ==
    CASE x.as = "review_result" /\ a = "ReviewerAgent" ->
            IF x.arg = "pass" THEN UpdatePhase([s EXCEPT !.review = "passed"], "finalizing")
                              ELSE Failed(s, x.arg = "severe")
      [] x.as = "plan" /\ s.phase = "planning" -> UpdatePhase(s, "executing")
      [] x.as = "delegation" /\ s.phase \in {"planning", "discussing"} -> UpdatePhase(s, "executing")
      [] x.as = "final" -> Finalized(a, s)
      [] OTHER -> s

Applied(a, x, s) ==
    IF x.type \notin Allowed(a) THEN s
    ELSE CASE x.type = "update_state"   -> UpdatePhase(s, x.arg)
           [] x.type = "request_review" -> UpdatePhase([s EXCEPT !.review = "pending"], "reviewing")
           [] x.type = "mark_done"      -> Finalized(a, s)
           [] x.type = "handoff" /\ x.to # {} -> UpdatePhase(s, "executing")
           [] x.type = "send_message"   -> Said(a, x, s)
           [] OTHER                     -> s

IsReview(a, x) == a = "ReviewerAgent" /\ x.type = "send_message" /\ x.as = "review_result"

\* An unknown severity makes IssueSeverity() raise in the middle of the handler.
Raises(a, x) == IsReview(a, x) /\ x.arg = "malformed" /\ st.cycles < MaxCycles

\* The critiques a failed review sends, while the budget lasts.
Orders(a, x, s) == IsReview(a, x) /\ x.arg # "pass" /\ s.review = "failed"

-----------------------------------------------------------------------------
(* When to stop *)

Approved(s) == s.review = "passed" /\ s.phase \in {"reviewing", "finalizing"}
Spoken(type) == \E i \in DOMAIN turn : TypeOf(turn[i]) = type
OnlyNoOps == turn # <<>> /\ \A i \in DOMAIN turn : TypeOf(turn[i]) = "no_op"
Reached == \E i \in DOMAIN turn : Productive(MessageOf(speaker, turn[i]))

\* The rules of TerminationChecker.check in their order; the graph's second
\* check does not know what was delivered, so "idle" is FALSE there.
Rules(s, idle) ==
    << <<s.phase \in {"completed", "failed", "cancelled"}, s.phase>>,
       <<s.cancel, "cancelled">>,
       <<round >= MaxRounds /\ (s.final \/ Approved(s)), "completed">>,
       <<round >= MaxRounds, "incomplete">>,
       <<s.final \/ Spoken("final"), "completed">>,
       <<required /\ Approved(s), "completed">>,
       <<required /\ s.cycles > MaxCycles, "failed">>,
       <<idle /\ stale + 1 >= MaxStale, "failed">>,
       <<OnlyNoOps /\ noops + 1 >= MaxStale, "failed">>,
       <<Spoken("error"), "failed">>,
       <<s.blocked /\ s.cycles > MaxCycles, "failed">>,
       <<TRUE, "continue">> >>

Check(s, idle) ==
    LET rules == Rules(s, idle) IN rules[First({i \in DOMAIN rules : rules[i][1]})][2]

-----------------------------------------------------------------------------
(* The runner *)

RoomInit ==
    /\ driver \in {"loop", "graph"} /\ required \in BOOLEAN
    /\ pc = "new" /\ st = Fresh /\ round = 0 /\ last = "" /\ speaker = "" /\ seen = 0
    /\ turn = <<>> /\ next = 1 /\ stale = 0 /\ noops = 0 /\ outcome = "none"
    /\ unread = [a \in Agents |-> <<>>]
    /\ row = [state |-> Fresh, status |-> "created", terminated |-> FALSE]
    /\ req = [q \in Requests |-> [kind |-> "none", copy |-> Fresh]]
    /\ asked = "no"

\* save_state and save_room_meta_timestamp write the whole state.
Saved(s) == [row EXCEPT !.state = s, !.status = s.phase]

\* run(): enter PLANNING and broadcast the user's goal.  The graph does neither.
StartRoom ==
    /\ pc = "new" /\ pc' = "top"
    /\ IF driver = "loop"
       THEN /\ st' = UpdatePhase(st, "planning")
            /\ unread' = Deliver(unread, UserRequest)
            /\ row' = Saved(st')
       ELSE UNCHANGED <<st, unread, row>>
    /\ UNCHANGED <<driver, required, round, last, speaker, seen, turn, next, stale, noops,
                   outcome, req, asked>>

\* The top of the loop and of execute_round: stop if this object was cancelled.
Stop ==
    /\ pc = "top" /\ st.cancel
    /\ st' = UpdatePhase(st, "cancelled") /\ pc' = "finish"
    /\ UNCHANGED <<driver, required, round, last, speaker, seen, turn, next, stale, noops,
                   outcome, unread, row, req, asked>>

\* Otherwise choose the speaker and put its unread messages into the prompt.
Select ==
    /\ pc = "top" /\ ~st.cancel
    /\ round' = round + 1 /\ speaker' = Selected /\ seen' = Len(unread[Selected])
    /\ pc' = "think"
    /\ UNCHANGED <<driver, required, st, last, turn, next, stale, noops, outcome,
                   unread, row, req, asked>>

\* The model answers; requests may have come in the meantime.
Think ==
    /\ pc = "think"
    /\ \E t \in Turns : turn' = Filtered(speaker, t)
    /\ next' = 1 /\ pc' = "publish"
    /\ UNCHANGED <<driver, required, st, round, last, speaker, seen, stale, noops, outcome,
                   unread, row, req, asked>>

\* room.publish of one message: deliver it and write the row.
Publish ==
    /\ pc = "publish"
    /\ unread' = Deliver(unread, MessageOf(speaker, turn[next]))
    /\ row' = Saved(st)
    /\ IF next = Len(turn) THEN next' = 1 /\ pc' = "process"
                           ELSE next' = next + 1 /\ pc' = "publish"
    /\ UNCHANGED <<driver, required, st, round, last, speaker, seen, turn, stale, noops, outcome,
                   req, asked>>

\* One action takes effect; a failed review orders repairs; after the last
\* action the state is saved.
Process ==
    /\ pc = "process" /\ ~Raises(speaker, turn[next])
    /\ st' = Applied(speaker, turn[next], st)
    /\ IF Orders(speaker, turn[next], st')
       THEN unread' = Deliver(unread, Critique(turn[next].to)) /\ row' = Saved(st')
       ELSE UNCHANGED unread /\ row' = IF next = Len(turn) THEN Saved(st') ELSE row
    /\ IF next = Len(turn) THEN next' = 1 /\ pc' = "decide"
                           ELSE next' = next + 1 /\ pc' = "process"
    /\ UNCHANGED <<driver, required, round, last, speaker, seen, turn, stale, noops, outcome,
                   req, asked>>

\* (Mutant: the graph's node tries the handler again after the exception.)
RaiseAgain ==
    /\ pc = "process" /\ Raises(speaker, turn[next])
    /\ pc' = IF driver = "loop" THEN "broken" ELSE "process"
    /\ UNCHANGED <<driver, required, st, round, last, speaker, seen, turn, next, stale, noops,
                   outcome, unread, row, req, asked>>

\* The handler raises: the loop's thread dies with the row as it was; the graph
\* catches the exception and goes to its own check with no messages.
HandlerRaises ==
    /\ pc = "process" /\ Raises(speaker, turn[next])
    /\ st' = Failed(st, FALSE)
    /\ IF driver = "loop" THEN pc' = "broken" /\ UNCHANGED turn
                          ELSE pc' = "recheck" /\ turn' = <<>>
    /\ next' = 1
    /\ UNCHANGED <<driver, required, round, last, speaker, seen, stale, noops, outcome,
                   unread, row, req, asked>>

\* (Mutant: mark_all_read, which the inbox also offers.)
AckedAll(rows, n) == <<>>

\* The messages of the prompt are read, those that came later are not.
Acked(rows, n) == SubSeq(rows, n + 1, Len(rows))

\* Mark the prompt's messages, judge the round and set the phase it ends in.
\* The graph's next node loses should_terminate, so it always checks again.
Decide ==
    /\ pc = "decide"
    /\ unread' = [unread EXCEPT ![speaker] = Acked(@, seen)]
    /\ last' = speaker
    /\ LET d == Check(st, ~Reached)
       IN /\ st' = IF d = "continue" THEN st ELSE UpdatePhase(st, d)
          /\ pc' = IF driver = "graph" THEN "recheck" ELSE
                   IF d = "continue" THEN "top" ELSE "finish"
    /\ stale' = IF Reached THEN 0 ELSE stale + 1
    /\ noops' = IF OnlyNoOps THEN noops + 1 ELSE 0
    /\ UNCHANGED <<driver, required, round, speaker, seen, turn, next, outcome, row, req, asked>>

\* node_decide_terminate checks the round a second time, and its decision
\* sets no phase.
Recheck ==
    /\ pc = "recheck"
    /\ pc' = IF Check(st, FALSE) = "continue" /\ round < MaxRounds THEN "top" ELSE "finish"
    /\ noops' = IF OnlyNoOps THEN noops + 1 ELSE 0
    /\ UNCHANGED <<driver, required, st, round, last, speaker, seen, turn, next, stale, outcome,
                   unread, row, req, asked>>

\* The loop writes the row and calls only "completed" a success; the graph
\* writes nothing and calls everything a success that did not fail.
Finish ==
    /\ pc = "finish" /\ pc' = "done"
    /\ row' = IF driver = "loop"
              THEN [state |-> st, status |-> st.phase, terminated |-> TRUE] ELSE row
    /\ outcome' = IF st.phase \in {"cancelled", "completed"} THEN st.phase
                  ELSE IF driver = "graph" /\ st.phase \notin {"failed", "incomplete"}
                       THEN "completed" ELSE "failed"
    /\ UNCHANGED <<driver, required, st, round, last, speaker, seen, turn, next, stale, noops,
                   unread, req, asked>>

Runner ==
    \/ StartRoom \/ Stop \/ Select \/ Think \/ Publish \/ Process \/ HandlerRaises \/ Decide
    \/ Recheck \/ Finish

-----------------------------------------------------------------------------
(* Others *)

Open == pc \notin {"done", "broken"} /\ st.phase \notin Terminal

\* runner.cancel() on the object that runs.
CancelOwn ==
    /\ ~st.cancel
    /\ st' = UpdatePhase([st EXCEPT !.cancel = TRUE], "cancelled")
    /\ row' = [state |-> st', status |-> "cancelled", terminated |-> TRUE]
    /\ asked' = IF Open THEN "own" ELSE asked
    /\ UNCHANGED <<driver, required, pc, round, last, speaker, seen, turn, next, stale, noops,
                   outcome, unread, req>>

\* A request loads a room object of its own ...
Load(q) ==
    /\ req[q].kind = "none"
    /\ \E k \in Kinds : req' = [req EXCEPT ![q] = [kind |-> k, copy |-> row.state]]
    /\ UNCHANGED <<driver, required, loopVars, unread, row, asked>>

Served(q) == req' = [req EXCEPT ![q] = [kind |-> "served", copy |-> Fresh]]

\* ... cancels that object, and answers "cancelled" ...
CancelLoaded(q) ==
    /\ req[q].kind = "cancel" /\ Served(q)
    /\ row' = [state |-> UpdatePhase([req[q].copy EXCEPT !.cancel = TRUE], "cancelled"),
               status |-> "cancelled", terminated |-> TRUE]
    /\ asked' = IF Open /\ asked = "no" THEN "api" ELSE asked
    /\ UNCHANGED <<driver, required, loopVars, unread>>

\* ... or sends the user's message through it ...
Inject(q) ==
    /\ req[q].kind = "inject" /\ Served(q)
    /\ unread' = Deliver(unread, UserRequest)
    /\ row' = Saved(req[q].copy)
    /\ UNCHANGED <<driver, required, loopVars, asked>>

\* ... or closes the severe issue in it (hitl-resolve).
ResolveIssue(q) ==
    /\ req[q].kind = "resolve" /\ Served(q)
    /\ row' = Saved([req[q].copy EXCEPT !.blocked = FALSE])
    /\ UNCHANGED <<driver, required, loopVars, unread, asked>>

RoomNext ==
    \/ Runner
    \/ CancelOwn
    \/ \E q \in Requests : Load(q) \/ CancelLoaded(q) \/ Inject(q) \/ ResolveIssue(q)

\* The runner's thread goes on as long as it lives; nobody has to send requests.
RoomSpec == RoomInit /\ [][RoomNext]_roomVars /\ WF_roomVars(Runner)

-----------------------------------------------------------------------------
(* Properties *)

\* Where the runner is, and what it counts.
LoopTypes ==
    /\ pc \in {"new", "top", "think", "publish", "process", "decide", "recheck",
               "finish", "done", "broken"}
    /\ st \in State /\ round \in 0 .. MaxRounds
    /\ last \in Agents \cup {""} /\ speaker \in Agents \cup {""}
    /\ stale \in Nat /\ noops \in Nat
    /\ outcome \in {"none", "completed", "failed", "cancelled"}

\* The turn it goes through.
TurnTypes ==
    /\ turn \in Seq(Action) /\ next \in Nat \ {0}
    /\ pc \in {"publish", "process"} => next <= Len(turn)

\* The prompt, which never holds more than the inbox.
PromptTypes ==
    /\ seen \in Nat
    /\ unread \in [Agents -> Seq({"ask", "act", "info"})]
    /\ pc \in {"think", "publish", "process", "decide"} => seen <= Len(unread[speaker])

\* Every variable has its type, and the rounds are counted within their budget.
RoomTypes ==
    /\ driver \in {"loop", "graph"} /\ required \in BOOLEAN
    /\ asked \in {"no", "own", "api"}
    /\ LoopTypes /\ TurnTypes /\ PromptTypes
    /\ row \in [state : State, status : Phases, terminated : BOOLEAN]
    /\ req \in [Requests -> [kind : Kinds \cup {"none", "served"}, copy : State]]

\* A run that was cancelled through its own runner while it was open is
\* reported as cancelled, wherever in the round the call came: the model's
\* answer that arrives afterwards, a final message or a passed review in it,
\* and the round limit do not turn it into another outcome
\* (team_runner.py cancel, state.py update_phase, termination.py check).
OwnCancelHolds == asked = "own" => outcome \in {"none", "cancelled"}

\* The same of every accepted cancellation.  A request cancels the room object
\* it loaded, which the running loop never looks at, although the loop's
\* comment says that it reads the request from the persisted state
\* (team_runner.py run, routes_team.py cancel_team_task).
CancelHolds == asked # "no" => outcome \in {"none", "cancelled"}

\* The room is in a state its code can be in, its cancellation included
\* (state.py, team_runner.py).
RoomSafety == RoomTypes /\ OwnCancelHolds

\* A result is written only in the Finalizer's turn and a review passes only
\* in the reviewer's, although every role may send messages of any type and
\* the action filter does not look at them (round_executor.py handlers).
DoneByItsRole ==
    [][/\ st'.final /\ ~st.final => speaker = "Finalizer"
       /\ st'.review = "passed" /\ st.review # "passed" => speaker = "ReviewerAgent"]_roomVars

\* A message leaves an inbox only if it was in the prompt of the agent whose
\* round it was: one that a request or the agent itself adds while the model
\* thinks stays unread (round_executor.py execute_round, inbox.py mark_read).
OnlyShownIsRead ==
    [][\A a \in Agents :
        \/ Len(unread[a]) <= Len(unread'[a])
        \/ a = speaker /\ Len(unread[a]) - Len(unread'[a]) = seen]_roomVars

\* A run that was started ends, whatever the agents say and whatever requests
\* come: by the round limit at the latest, or because a handler raised
\* (termination.py check, team_graph.py node_decide_terminate).
RunEnds == <>(pc \in {"done", "broken"})

=============================================================================
