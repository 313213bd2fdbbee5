--------------------------- MODULE ToolGateProofs ---------------------------
(***************************************************************************)
(* Proofs about module ToolGate.  The argument is one about threads: of    *)
(* all attempts whose worker still runs, the one the scheduler waits for is *)
(* the only one whose token is not cancelled, and a cancelled call neither  *)
(* passes the gate nor starts a command.  So what counts for the budget and *)
(* for the journal are the calls of one attempt, and the database carries   *)
(* the rest from one attempt to the next.                                   *)
(***************************************************************************)
EXTENDS ToolGate, FiniteSetTheorems, SequenceTheorems, TLAPS

-----------------------------------------------------------------------------
(* The inductive invariant.                                                *)

Exceptions == {"none", "stop", "permission", "error"}

\* TypeOK by what a step changes together.
CallTypes ==
    /\ pc \in [Calls -> Step]
    /\ of \in [Calls -> 0 .. MaxAttempts]
    /\ command \in [Calls -> Commands]
    /\ claim \in [Calls -> Nat]

WorkerTypes ==
    /\ worker \in [Attempts -> {"off", "first", "reprompt"}]
    /\ agent \in [Attempts -> Agents]
    /\ used \in [Attempts -> Nat]
    /\ reused \in [Attempts -> Nat]

SignalTypes ==
    /\ cancelled \in [Attempts -> BOOLEAN]
    /\ over \in BOOLEAN /\ up \in BOOLEAN

ExceptionTypes == raised \in [Attempts -> Exceptions]

CounterTypes ==
    /\ attempt \in 0 .. MaxAttempts /\ awaited \in 0 .. MaxAttempts
    /\ consumed \in Nat /\ lost \in Nat /\ passed \in Nat
    /\ faults \in Nat /\ restarts \in Nat

RowTypes ==
    /\ journal \in [Agents \X Commands -> RowStatus \cup {"absent"}]
    /\ ran \in [Agents \X Commands -> SUBSET Attempts]

RequestTypes == requests \in Seq(Request)

Types ==
    /\ CallTypes /\ WorkerTypes /\ SignalTypes /\ ExceptionTypes
    /\ CounterTypes /\ RowTypes /\ RequestTypes

\* Workers and their calls.
Threads ==
    /\ awaited \in {0, attempt}
    /\ \A a \in Attempts :
          worker[a] # "off" => a <= attempt /\ up /\ (a = awaited \/ cancelled[a])
    /\ \A t \in Calls : of[t] # 0 <=> pc[t] # "idle"
    /\ \A t \in Calls : of[t] # 0 => worker[of[t]] # "off"

\* The awaited attempt is in its first invoke, which has the task's budget.
First == awaited # 0 /\ worker[awaited] = "first"

\* Its calls that stand at one of these steps.
At(steps) == {t \in Calls : First /\ of[t] = awaited /\ pc[t] \in steps}

Uncounted == At({"counted", "gate"})
Unpassed == At({"gate"})

\* What was let through, and what may still be, was counted.
Counted ==
    /\ First => passed + Cardinality(Uncounted) <= used[awaited] + lost
    /\ passed + Cardinality(Uncounted) <= MaxCalls + lost
    /\ passed + Cardinality(Unpassed) <= consumed + lost

\* The steps of a call that has stored a row, if it has one.
Attending == {"asking", "marking", "requesting", "ready", "running", "refused", "denied"}

\* Only a journaled command has a row, and a call for it.
Rows ==
    /\ \A t \in Calls :
          pc[t] \in {"reading", "saving", "refused", "denied"} => Journaled(command[t])
    /\ \A g \in Agents, c \in Commands : journal[<<g, c>>] = "started" => Journaled(c)
    /\ StartedRowsAreAttended

Live(t) == of[t] # 0 /\ ~cancelled[of[t]]

\* The steps after the journal has found no row and before the effect.
Starting == {"saving", "asking", "marking", "requesting", "ready"}

\* A command whose row is missing has not run, and one that has run is about to
\* be started by no live call of another attempt.
Effects ==
    \A k \in Agents \X Commands :
        Journaled(k[2]) =>
            /\ journal[k] = "absent" => ran[k] = {}
            /\ \A t \in Calls : /\ pc[t] \in Attending /\ Key(t) = k => journal[k] # "absent"
                                /\ pc[t] \in Starting /\ Live(t) /\ Key(t) = k
                                       => ran[k] \subseteq {of[t]}
            /\ \E a \in Nat : ran[k] \subseteq {a}

IInv == Types /\ Threads /\ Counted /\ Rows /\ Effects

-----------------------------------------------------------------------------
(* Types.                                                                  *)

LEMMA AnyCommandIsOne == AnyCommand \in Commands
  BY ToolGateAssumption DEF AnyCommand

LEMMA GotoTyped ==
    ASSUME CallTypes, NEW t \in Calls, NEW step \in Step, Goto(t, step)
    PROVE  pc' \in [Calls -> Step]
  BY DEF CallTypes, Goto

LEMMA IdleTyped ==
    ASSUME CallTypes, NEW t \in Calls, Idle(t)
    PROVE  CallTypes'
<1>1. pc' \in [Calls -> Step]
  BY DEF Idle, Goto, CallTypes, Step
<1>2. of' \in [Calls -> 0 .. MaxAttempts]
  BY ToolGateAssumption DEF Idle, CallTypes
<1>3. command' \in [Calls -> Commands]
  BY AnyCommandIsOne DEF Idle, CallTypes
<1>4. claim' \in [Calls -> Nat]
  BY DEF Idle, CallTypes
<1> QED
  BY <1>1, <1>2, <1>3, <1>4 DEF CallTypes

LEMMA RaisesTyped ==
    ASSUME CallTypes, ExceptionTypes, NEW t \in Calls, NEW e \in Exceptions, Raises(t, e)
    PROVE  CallTypes' /\ ExceptionTypes'
<1>1. CallTypes'
  BY IdleTyped DEF Raises
<1>2. of[t] \in 0 .. MaxAttempts
  BY DEF CallTypes
<1>3. ExceptionTypes'
  BY <1>2 DEF Raises, ExceptionTypes, Exceptions, Attempts
<1> QED
  BY <1>1, <1>3

LEMMA LeavesTyped ==
    ASSUME CallTypes, ExceptionTypes, NEW t \in Calls, Leaves(t)
    PROVE  CallTypes' /\ ExceptionTypes'
  BY IdleTyped, RaisesTyped DEF Leaves, Answers, Exceptions, ExceptionTypes

LEMMA QuitsTyped ==
    ASSUME CallTypes, ExceptionTypes, NEW t \in Calls, NEW e \in Exceptions, Quits(t, e)
    PROVE  CallTypes' /\ ExceptionTypes'
  BY RaisesTyped DEF Quits, Exceptions

LEMMA DecidedTyped ==
    ASSUME RequestTypes, NEW i \in Nat, NEW s \in RequestStatus
    PROVE  [requests EXCEPT ![i].status = s] \in Seq(Request)
<1> DEFINE R == [requests EXCEPT ![i].status = s]
<1>1. /\ Len(requests) \in Nat
      /\ \A j \in 1 .. Len(requests) : requests[j] \in Request
      /\ requests = [j \in 1 .. Len(requests) |-> requests[j]]
  BY DEF RequestTypes
<1>2. DOMAIN R = 1 .. Len(requests)
  BY <1>1
<1>3. ASSUME NEW j \in 1 .. Len(requests) PROVE R[j] \in Request
  <2>1. R[j] = IF j = i THEN [requests[j] EXCEPT !.status = s] ELSE requests[j]
    BY <1>1
  <2>2. ASSUME NEW r \in Request PROVE [r EXCEPT !.status = s] \in Request
    BY DEF Request
  <2> QED
    BY <2>1, <2>2, <1>1
<1>4. R \in [1 .. Len(requests) -> Request]
  <2>1. R = [j \in DOMAIN R |-> R[j]]
    OBVIOUS
  <2> HIDE DEF R
  <2> QED
    BY <1>2, <1>3, <2>1
<1> HIDE DEF R
<1>5. R \in UNION {[1 .. n -> Request] : n \in Nat}
  BY <1>1, <1>4
<1>6. Seq(Request) = UNION {[1 .. n -> Request] : n \in Nat}
  BY SeqDef, Zenon
<1> QED
  BY <1>5, <1>6, Zenon DEF R

\* The calls.
LEMMA CallsTyped ==
    ASSUME CallTypes, ExceptionTypes, RequestTypes, [Next]_vars
    PROVE  CallTypes'
<1>1. CASE UNCHANGED vars
  BY <1>1 DEF CallTypes, call, vars, call
<1>2. ASSUME NEW t \in Calls, NEW a \in Attempts, NEW c \in Commands, Count(t, a, c)
      PROVE  CallTypes'
  <2>1. pc' \in [Calls -> Step]
    BY <1>2, GotoTyped DEF Count, Step
  <2>2. of' \in [Calls -> 0 .. MaxAttempts] /\ command' \in [Calls -> Commands]
    BY <1>2, ToolGateAssumption DEF CallTypes, Count, Attempts
  <2> QED
    BY <1>2, <2>1, <2>2 DEF CallTypes, Count
<1>3. ASSUME NEW t \in Calls, NEW a \in Attempts, NEW c \in Commands, CountReprompt(t, a, c)
      PROVE  CallTypes'
  <2>1. pc' \in [Calls -> Step]
    BY <1>3, GotoTyped DEF CountReprompt, Step
  <2>2. of' \in [Calls -> 0 .. MaxAttempts] /\ command' \in [Calls -> Commands]
    BY <1>3, ToolGateAssumption DEF CallTypes, CountReprompt, Attempts
  <2> QED
    BY <1>3, <2>1, <2>2 DEF CallTypes, CountReprompt
<1>4. ASSUME NEW t \in Calls, Record(t) PROVE CallTypes'
  BY <1>4, GotoTyped DEF CallTypes, call, Record, Step
<1>5. ASSUME NEW t \in Calls, Gate(t) PROVE CallTypes'
  BY <1>5, GotoTyped, RaisesTyped DEF CallTypes, call, Gate, Step, Exceptions
<1>6. ASSUME NEW t \in Calls, ReadRow(t) PROVE CallTypes'
  BY <1>6, GotoTyped, LeavesTyped DEF CallTypes, call, ReadRow, Step
<1>7. ASSUME NEW t \in Calls, SaveRow(t) PROVE CallTypes'
  BY <1>7, GotoTyped DEF CallTypes, call, SaveRow, Step
<1>8. ASSUME NEW t \in Calls, Ask(t) PROVE CallTypes'
  <2>1. pc' \in [Calls -> Step]
    BY <1>8, GotoTyped DEF Ask, Step
  <2>2. claim' \in [Calls -> Nat]
    <3>1. Len(requests) \in Nat
      BY DEF RequestTypes
    <3>2. PICK i \in Nat : claim' = [claim EXCEPT ![t] = i]
      BY <1>8, <3>1 DEF Ask, Newest, Grants
    <3> QED
      BY <3>2 DEF CallTypes
  <2> QED
    BY <1>8, <2>1, <2>2 DEF CallTypes, Ask
<1>9. ASSUME NEW t \in Calls, Mark(t) PROVE CallTypes'
  BY <1>9, GotoTyped DEF CallTypes, call, Mark, Step
<1>10. ASSUME NEW t \in Calls, Requested(t) PROVE CallTypes'
  BY <1>10, GotoTyped, RaisesTyped DEF CallTypes, call, Requested, Step, Exceptions
<1>11. ASSUME NEW t \in Calls, Refused(t) PROVE CallTypes'
  BY <1>11, LeavesTyped, QuitsTyped DEF CallTypes, call, Refused, Exceptions
<1>12. ASSUME NEW t \in Calls, Run(t) PROVE CallTypes'
  BY <1>12, GotoTyped, LeavesTyped, QuitsTyped DEF CallTypes, call, Run, RunCommand,
     RunFile, RunTeam, Begins, Step, Exceptions
<1>13. ASSUME NEW t \in Calls, Finish(t) PROVE CallTypes'
  BY <1>13, IdleTyped, LeavesTyped, QuitsTyped DEF CallTypes, call, Finish, EndCommand,
     EndFile, EndTeam, Answers, Exceptions
<1>14. ASSUME NEW a \in Attempts, Exceeded(a) PROVE CallTypes'
  BY <1>14 DEF CallTypes, call, Exceeded
<1>15. ASSUME NEW a \in Attempts, EndInvoke(a) PROVE CallTypes'
  BY <1>15 DEF CallTypes, call, EndInvoke
<1>16. ASSUME NEW g \in Agents, Start(g) PROVE CallTypes'
  BY <1>16 DEF CallTypes, call, Start
<1>17. CASE Stop
  BY <1>17 DEF CallTypes, call, Stop
<1>18. CASE TimeOut
  BY <1>18 DEF CallTypes, call, TimeOut
<1>19. ASSUME NEW i \in 1 .. Len(requests), NEW s \in {"once", "run", "denied"}, Decide(i, s)
      PROVE  CallTypes'
  BY <1>19 DEF CallTypes, call, Decide
<1>20. CASE Crash
  <2>1. pc' \in [Calls -> Step] /\ claim' \in [Calls -> Nat]
    BY <1>20 DEF Crash, Step
  <2>2. of' \in [Calls -> 0 .. MaxAttempts]
    BY <1>20, ToolGateAssumption DEF Crash
  <2>3. command' \in [Calls -> Commands]
    BY <1>20, AnyCommandIsOne DEF Crash
  <2> QED
    BY <2>1, <2>2, <2>3 DEF CallTypes
<1>21. CASE Resume
  BY <1>21 DEF CallTypes, call, Resume
<1> QED
  BY <1>1, <1>2, <1>3, <1>4, <1>5, <1>6, <1>7, <1>8, <1>9, <1>10, <1>11, <1>12, <1>13,
     <1>14, <1>15, <1>16, <1>17, <1>18, <1>19, <1>20, <1>21 DEF Next, Advance

\* The attempts.
LEMMA WorkersTyped ==
    ASSUME WorkerTypes, CounterTypes, [Next]_vars
    PROVE  WorkerTypes'
<1>1. CASE UNCHANGED vars
  BY <1>1 DEF WorkerTypes, attempts, threads, vars, attempts, threads
<1>2. ASSUME NEW t \in Calls, NEW a \in Attempts, NEW c \in Commands, Count(t, a, c)
      PROVE  WorkerTypes'
  <2>1. used' \in [Attempts -> Nat]
    BY <1>2 DEF WorkerTypes, Count
  <2> QED
    BY <1>2, <2>1 DEF WorkerTypes, Count
<1>3. ASSUME NEW t \in Calls, NEW a \in Attempts, NEW c \in Commands, CountReprompt(t, a, c)
      PROVE  WorkerTypes'
  <2>1. reused' \in [Attempts -> Nat]
    BY <1>3 DEF WorkerTypes, CountReprompt
  <2> QED
    BY <1>3, <2>1 DEF WorkerTypes, CountReprompt
<1>4. ASSUME NEW t \in Calls, Record(t) PROVE WorkerTypes'
  BY <1>4 DEF WorkerTypes, attempts, threads, Record
<1>5. ASSUME NEW t \in Calls, Gate(t) PROVE WorkerTypes'
  BY <1>5 DEF WorkerTypes, attempts, threads, Gate
<1>6. ASSUME NEW t \in Calls, ReadRow(t) PROVE WorkerTypes'
  BY <1>6 DEF WorkerTypes, attempts, threads, ReadRow
<1>7. ASSUME NEW t \in Calls, SaveRow(t) PROVE WorkerTypes'
  BY <1>7 DEF WorkerTypes, attempts, threads, SaveRow
<1>8. ASSUME NEW t \in Calls, Ask(t) PROVE WorkerTypes'
  BY <1>8 DEF WorkerTypes, attempts, threads, Ask
<1>9. ASSUME NEW t \in Calls, Mark(t) PROVE WorkerTypes'
  BY <1>9 DEF WorkerTypes, attempts, threads, Mark
<1>10. ASSUME NEW t \in Calls, Requested(t) PROVE WorkerTypes'
  BY <1>10 DEF WorkerTypes, attempts, threads, Requested
<1>11. ASSUME NEW t \in Calls, Refused(t) PROVE WorkerTypes'
  BY <1>11 DEF WorkerTypes, attempts, threads, Refused
<1>12. ASSUME NEW t \in Calls, Run(t) PROVE WorkerTypes'
  BY <1>12 DEF WorkerTypes, attempts, threads, Run
<1>13. ASSUME NEW t \in Calls, Finish(t) PROVE WorkerTypes'
  BY <1>13 DEF WorkerTypes, attempts, threads, Finish
<1>14. ASSUME NEW a \in Attempts, Exceeded(a) PROVE WorkerTypes'
  BY <1>14 DEF WorkerTypes, attempts, threads, Exceeded
<1>15. ASSUME NEW a \in Attempts, EndInvoke(a) PROVE WorkerTypes'
  <2>1. worker' \in [Attempts -> {"off", "first", "reprompt"}]
    BY <1>15 DEF WorkerTypes, EndInvoke, Return, Succeeds, Reprompts
  <2>2. used' \in [Attempts -> Nat] /\ reused' \in [Attempts -> Nat]
    BY <1>15 DEF WorkerTypes, EndInvoke, Return, Succeeds, Reprompts
  <2> QED
    BY <1>15, <2>1, <2>2 DEF WorkerTypes, EndInvoke
<1>16. ASSUME NEW g \in Agents, Start(g) PROVE WorkerTypes'
  <2>1. attempt + 1 \in Attempts
    BY <1>16, ToolGateAssumption DEF Start, CounterTypes, Attempts
  <2>2. worker' \in [Attempts -> {"off", "first", "reprompt"}]
    BY <1>16, <2>1 DEF WorkerTypes, Start, Invoke
  <2>3. used' \in [Attempts -> Nat]
    BY <1>16, <2>1 DEF WorkerTypes, CounterTypes, Start, Invoke, Restore
  <2> QED
    BY <1>16, <2>1, <2>2, <2>3 DEF WorkerTypes, Start
<1>17. CASE Stop
  BY <1>17 DEF WorkerTypes, attempts, threads, Stop
<1>18. CASE TimeOut
  BY <1>18 DEF WorkerTypes, attempts, threads, TimeOut
<1>19. ASSUME NEW i \in 1 .. Len(requests), NEW s \in {"once", "run", "denied"}, Decide(i, s)
      PROVE  WorkerTypes'
  BY <1>19 DEF WorkerTypes, attempts, threads, Decide
<1>20. CASE Crash
  BY <1>20 DEF WorkerTypes, attempts, threads, Crash
<1>21. CASE Resume
  BY <1>21 DEF WorkerTypes, attempts, threads, Resume
<1> QED
  BY <1>1, <1>2, <1>3, <1>4, <1>5, <1>6, <1>7, <1>8, <1>9, <1>10, <1>11, <1>12, <1>13,
     <1>14, <1>15, <1>16, <1>17, <1>18, <1>19, <1>20, <1>21 DEF Next, Advance

\* The tokens and flags.
LEMMA SignalsTyped ==
    ASSUME SignalTypes, CounterTypes, [Next]_vars
    PROVE  SignalTypes'
<1>1. CASE UNCHANGED vars
  BY <1>1 DEF SignalTypes, attempts, task, threads, vars, attempts, task, threads
<1>2. ASSUME NEW t \in Calls, NEW a \in Attempts, NEW c \in Commands, Count(t, a, c)
      PROVE  SignalTypes'
  BY <1>2 DEF SignalTypes, attempts, task, threads, Count
<1>3. ASSUME NEW t \in Calls, NEW a \in Attempts, NEW c \in Commands, CountReprompt(t, a, c)
      PROVE  SignalTypes'
  BY <1>3 DEF SignalTypes, attempts, task, threads, CountReprompt
<1>4. ASSUME NEW t \in Calls, Record(t) PROVE SignalTypes'
  BY <1>4 DEF SignalTypes, attempts, task, threads, Record
<1>5. ASSUME NEW t \in Calls, Gate(t) PROVE SignalTypes'
  BY <1>5 DEF SignalTypes, attempts, task, threads, Gate
<1>6. ASSUME NEW t \in Calls, ReadRow(t) PROVE SignalTypes'
  BY <1>6 DEF SignalTypes, attempts, task, threads, ReadRow
<1>7. ASSUME NEW t \in Calls, SaveRow(t) PROVE SignalTypes'
  BY <1>7 DEF SignalTypes, attempts, task, threads, SaveRow
<1>8. ASSUME NEW t \in Calls, Ask(t) PROVE SignalTypes'
  BY <1>8 DEF SignalTypes, attempts, task, threads, Ask
<1>9. ASSUME NEW t \in Calls, Mark(t) PROVE SignalTypes'
  BY <1>9 DEF SignalTypes, attempts, task, threads, Mark
<1>10. ASSUME NEW t \in Calls, Requested(t) PROVE SignalTypes'
  BY <1>10 DEF SignalTypes, attempts, task, threads, Requested
<1>11. ASSUME NEW t \in Calls, Refused(t) PROVE SignalTypes'
  BY <1>11 DEF SignalTypes, attempts, task, threads, Refused
<1>12. ASSUME NEW t \in Calls, Run(t) PROVE SignalTypes'
  BY <1>12 DEF SignalTypes, attempts, task, threads, Run
<1>13. ASSUME NEW t \in Calls, Finish(t) PROVE SignalTypes'
  BY <1>13 DEF SignalTypes, attempts, task, threads, Finish
<1>14. ASSUME NEW a \in Attempts, Exceeded(a) PROVE SignalTypes'
  BY <1>14 DEF SignalTypes, attempts, task, threads, Exceeded
<1>15. ASSUME NEW a \in Attempts, EndInvoke(a) PROVE SignalTypes'
  BY <1>15 DEF SignalTypes, attempts, task, threads, EndInvoke, Return, Succeeds, Reprompts
<1>16. ASSUME NEW g \in Agents, Start(g) PROVE SignalTypes'
  BY <1>16 DEF SignalTypes, attempts, task, threads, Start
<1>17. CASE Stop
  BY <1>17 DEF SignalTypes, attempts, task, threads, Stop
<1>18. CASE TimeOut
  BY <1>18 DEF SignalTypes, attempts, task, threads, TimeOut
<1>19. ASSUME NEW i \in 1 .. Len(requests), NEW s \in {"once", "run", "denied"}, Decide(i, s)
      PROVE  SignalTypes'
  BY <1>19 DEF SignalTypes, attempts, task, threads, Decide
<1>20. CASE Crash
  BY <1>20 DEF SignalTypes, attempts, task, threads, Crash
<1>21. CASE Resume
  BY <1>21 DEF SignalTypes, attempts, task, threads, Resume
<1> QED
  BY <1>1, <1>2, <1>3, <1>4, <1>5, <1>6, <1>7, <1>8, <1>9, <1>10, <1>11, <1>12, <1>13,
     <1>14, <1>15, <1>16, <1>17, <1>18, <1>19, <1>20, <1>21 DEF Next, Advance

\* The exceptions.
LEMMA ExceptionsTyped ==
    ASSUME CallTypes, ExceptionTypes, [Next]_vars
    PROVE  ExceptionTypes'
<1>1. CASE UNCHANGED vars
  BY <1>1 DEF ExceptionTypes, attempts, vars, attempts
<1>2. ASSUME NEW t \in Calls, NEW a \in Attempts, NEW c \in Commands, Count(t, a, c)
      PROVE  ExceptionTypes'
  BY <1>2 DEF ExceptionTypes, attempts, Count
<1>3. ASSUME NEW t \in Calls, NEW a \in Attempts, NEW c \in Commands, CountReprompt(t, a, c)
      PROVE  ExceptionTypes'
  BY <1>3 DEF ExceptionTypes, attempts, CountReprompt
<1>4. ASSUME NEW t \in Calls, Record(t) PROVE ExceptionTypes'
  BY <1>4 DEF ExceptionTypes, attempts, Record
<1>5. ASSUME NEW t \in Calls, Gate(t) PROVE ExceptionTypes'
  BY <1>5, RaisesTyped DEF ExceptionTypes, attempts, Gate, Exceptions
<1>6. ASSUME NEW t \in Calls, ReadRow(t) PROVE ExceptionTypes'
  BY <1>6, LeavesTyped DEF ExceptionTypes, attempts, ReadRow
<1>7. ASSUME NEW t \in Calls, SaveRow(t) PROVE ExceptionTypes'
  BY <1>7 DEF ExceptionTypes, attempts, SaveRow
<1>8. ASSUME NEW t \in Calls, Ask(t) PROVE ExceptionTypes'
  BY <1>8 DEF ExceptionTypes, attempts, Ask
<1>9. ASSUME NEW t \in Calls, Mark(t) PROVE ExceptionTypes'
  BY <1>9 DEF ExceptionTypes, attempts, Mark
<1>10. ASSUME NEW t \in Calls, Requested(t) PROVE ExceptionTypes'
  BY <1>10, RaisesTyped DEF ExceptionTypes, attempts, Requested, Exceptions
<1>11. ASSUME NEW t \in Calls, Refused(t) PROVE ExceptionTypes'
  BY <1>11, LeavesTyped, QuitsTyped DEF ExceptionTypes, attempts, Refused, Exceptions
<1>12. ASSUME NEW t \in Calls, Run(t) PROVE ExceptionTypes'
  BY <1>12, LeavesTyped, QuitsTyped DEF ExceptionTypes, attempts, Run, RunCommand, RunFile,
     RunTeam, Begins, Exceptions
<1>13. ASSUME NEW t \in Calls, Finish(t) PROVE ExceptionTypes'
  BY <1>13, LeavesTyped, QuitsTyped DEF ExceptionTypes, attempts, Finish, EndCommand,
     EndFile, EndTeam, Answers, Exceptions
<1>14. ASSUME NEW a \in Attempts, Exceeded(a) PROVE ExceptionTypes'
  BY <1>14 DEF ExceptionTypes, attempts, Exceeded, Exceptions
<1>15. ASSUME NEW a \in Attempts, EndInvoke(a) PROVE ExceptionTypes'
  BY <1>15 DEF ExceptionTypes, attempts, EndInvoke, Return, Succeeds, Reprompts, Exceptions
<1>16. ASSUME NEW g \in Agents, Start(g) PROVE ExceptionTypes'
  BY <1>16 DEF ExceptionTypes, attempts, Start
<1>17. CASE Stop
  BY <1>17 DEF ExceptionTypes, attempts, Stop
<1>18. CASE TimeOut
  BY <1>18 DEF ExceptionTypes, attempts, TimeOut
<1>19. ASSUME NEW i \in 1 .. Len(requests), NEW s \in {"once", "run", "denied"}, Decide(i, s)
      PROVE  ExceptionTypes'
  BY <1>19 DEF ExceptionTypes, attempts, Decide
<1>20. CASE Crash
  BY <1>20 DEF ExceptionTypes, attempts, Crash, Exceptions
<1>21. CASE Resume
  BY <1>21 DEF ExceptionTypes, attempts, Resume
<1> QED
  BY <1>1, <1>2, <1>3, <1>4, <1>5, <1>6, <1>7, <1>8, <1>9, <1>10, <1>11, <1>12, <1>13,
     <1>14, <1>15, <1>16, <1>17, <1>18, <1>19, <1>20, <1>21 DEF Next, Advance

\* The counters.
LEMMA CountersTyped ==
    ASSUME CounterTypes, [Next]_vars
    PROVE  CounterTypes'
<1>1. CASE UNCHANGED vars
  BY <1>1 DEF CounterTypes, task, stored, history, bounds, vars, task, stored, history,
     bounds
<1>2. ASSUME NEW t \in Calls, NEW a \in Attempts, NEW c \in Commands, Count(t, a, c)
      PROVE  CounterTypes'
  BY <1>2 DEF CounterTypes, task, stored, history, bounds, Count
<1>3. ASSUME NEW t \in Calls, NEW a \in Attempts, NEW c \in Commands, CountReprompt(t, a, c)
      PROVE  CounterTypes'
  BY <1>3 DEF CounterTypes, task, stored, history, bounds, CountReprompt
<1>4. ASSUME NEW t \in Calls, Record(t) PROVE CounterTypes'
  BY <1>4 DEF CounterTypes, task, stored, history, bounds, Record
<1>5. ASSUME NEW t \in Calls, Gate(t) PROVE CounterTypes'
  BY <1>5 DEF CounterTypes, task, stored, history, bounds, Gate
<1>6. ASSUME NEW t \in Calls, ReadRow(t) PROVE CounterTypes'
  BY <1>6 DEF CounterTypes, task, stored, history, bounds, ReadRow
<1>7. ASSUME NEW t \in Calls, SaveRow(t) PROVE CounterTypes'
  BY <1>7 DEF CounterTypes, task, stored, history, bounds, SaveRow
<1>8. ASSUME NEW t \in Calls, Ask(t) PROVE CounterTypes'
  BY <1>8 DEF CounterTypes, task, stored, history, bounds, Ask
<1>9. ASSUME NEW t \in Calls, Mark(t) PROVE CounterTypes'
  BY <1>9 DEF CounterTypes, task, stored, history, bounds, Mark
<1>10. ASSUME NEW t \in Calls, Requested(t) PROVE CounterTypes'
  BY <1>10 DEF CounterTypes, task, stored, history, bounds, Requested
<1>11. ASSUME NEW t \in Calls, Refused(t) PROVE CounterTypes'
  BY <1>11 DEF CounterTypes, task, stored, history, bounds, Refused
<1>12. ASSUME NEW t \in Calls, Run(t) PROVE CounterTypes'
  BY <1>12 DEF CounterTypes, task, stored, history, bounds, Run
<1>13. ASSUME NEW t \in Calls, Finish(t) PROVE CounterTypes'
  BY <1>13 DEF CounterTypes, task, stored, history, bounds, Finish
<1>14. ASSUME NEW a \in Attempts, Exceeded(a) PROVE CounterTypes'
  BY <1>14 DEF CounterTypes, task, stored, history, bounds, Exceeded
<1>15. ASSUME NEW a \in Attempts, EndInvoke(a) PROVE CounterTypes'
  BY <1>15, ToolGateAssumption DEF CounterTypes, task, stored, history, bounds, EndInvoke,
     Return, Succeeds, Reprompts, Attempts
<1>16. ASSUME NEW g \in Agents, Start(g) PROVE CounterTypes'
  BY <1>16, ToolGateAssumption DEF CounterTypes, task, stored, history, bounds, Start,
     Invoke, Restore
<1>17. CASE Stop
  BY <1>17 DEF CounterTypes, task, stored, history, bounds, Stop
<1>18. CASE TimeOut
  BY <1>18, ToolGateAssumption DEF CounterTypes, task, stored, history, bounds, TimeOut
<1>19. ASSUME NEW i \in 1 .. Len(requests), NEW s \in {"once", "run", "denied"}, Decide(i, s)
      PROVE  CounterTypes'
  BY <1>19 DEF CounterTypes, task, stored, history, bounds, Decide
<1>20. CASE Crash
  BY <1>20, ToolGateAssumption DEF CounterTypes, task, stored, history, bounds, Crash
<1>21. CASE Resume
  BY <1>21 DEF CounterTypes, task, stored, history, bounds, Resume
<1> QED
  BY <1>1, <1>2, <1>3, <1>4, <1>5, <1>6, <1>7, <1>8, <1>9, <1>10, <1>11, <1>12, <1>13,
     <1>14, <1>15, <1>16, <1>17, <1>18, <1>19, <1>20, <1>21 DEF Next, Advance

\* The journal and its history.
LEMMA RowsTyped ==
    ASSUME RowTypes, CallTypes, Threads, [Next]_vars
    PROVE  RowTypes'
<1>1. CASE UNCHANGED vars
  BY <1>1 DEF RowTypes, stored, history, vars, stored, history
<1>2. ASSUME NEW t \in Calls, NEW a \in Attempts, NEW c \in Commands, Count(t, a, c)
      PROVE  RowTypes'
  BY <1>2 DEF RowTypes, stored, history, Count
<1>3. ASSUME NEW t \in Calls, NEW a \in Attempts, NEW c \in Commands, CountReprompt(t, a, c)
      PROVE  RowTypes'
  BY <1>3 DEF RowTypes, stored, history, CountReprompt
<1>4. ASSUME NEW t \in Calls, Record(t) PROVE RowTypes'
  BY <1>4 DEF RowTypes, stored, history, Record
<1>5. ASSUME NEW t \in Calls, Gate(t) PROVE RowTypes'
  BY <1>5 DEF RowTypes, stored, history, Gate
<1>6. ASSUME NEW t \in Calls, ReadRow(t) PROVE RowTypes'
  BY <1>6 DEF RowTypes, stored, history, ReadRow
<1>7. ASSUME NEW t \in Calls, SaveRow(t) PROVE RowTypes'
  BY <1>7 DEF RowTypes, stored, history, SaveRow, WriteRow, RowStatus
<1>8. ASSUME NEW t \in Calls, Ask(t) PROVE RowTypes'
  BY <1>8 DEF RowTypes, stored, history, Ask
<1>9. ASSUME NEW t \in Calls, Mark(t) PROVE RowTypes'
  BY <1>9 DEF RowTypes, stored, history, Mark
<1>10. ASSUME NEW t \in Calls, Requested(t) PROVE RowTypes'
  BY <1>10 DEF RowTypes, stored, history, Requested
<1>11. ASSUME NEW t \in Calls, Refused(t) PROVE RowTypes'
  BY <1>11 DEF RowTypes, stored, history, Refused, FailRow, WriteRow, RowStatus
<1>12. ASSUME NEW t \in Calls, Run(t) PROVE RowTypes'
  <2>1. journal' \in [Agents \X Commands -> RowStatus \cup {"absent"}]
    BY <1>12 DEF RowTypes, Run, RunCommand, RunFile, RunTeam, Begins, WriteRow, RowStatus
  <2>2. ran' \in [Agents \X Commands -> SUBSET Attempts]
    <3>1. of[t] \in Attempts
      BY <1>12 DEF Run, Threads, CallTypes, Attempts
    <3> QED
      BY <1>12, <3>1 DEF RowTypes, Run, RunCommand, RunFile, RunTeam, Begins
  <2> QED
    BY <2>1, <2>2 DEF RowTypes
<1>13. ASSUME NEW t \in Calls, Finish(t) PROVE RowTypes'
  BY <1>13 DEF RowTypes, stored, history, Finish, EndCommand, EndFile, EndTeam, FailRow,
     WriteRow, RowStatus
<1>14. ASSUME NEW a \in Attempts, Exceeded(a) PROVE RowTypes'
  BY <1>14 DEF RowTypes, stored, history, Exceeded
<1>15. ASSUME NEW a \in Attempts, EndInvoke(a) PROVE RowTypes'
  BY <1>15 DEF RowTypes, stored, history, EndInvoke
<1>16. ASSUME NEW g \in Agents, Start(g) PROVE RowTypes'
  BY <1>16 DEF RowTypes, stored, history, Start
<1>17. CASE Stop
  BY <1>17 DEF RowTypes, stored, history, Stop
<1>18. CASE TimeOut
  BY <1>18 DEF RowTypes, stored, history, TimeOut
<1>19. ASSUME NEW i \in 1 .. Len(requests), NEW s \in {"once", "run", "denied"}, Decide(i, s)
      PROVE  RowTypes'
  BY <1>19 DEF RowTypes, stored, history, Decide
<1>20. CASE Crash
  BY <1>20 DEF RowTypes, stored, history, Crash
<1>21. CASE Resume
  BY <1>21 DEF RowTypes, stored, history, Resume, Recovered, RowStatus
<1> QED
  BY <1>1, <1>2, <1>3, <1>4, <1>5, <1>6, <1>7, <1>8, <1>9, <1>10, <1>11, <1>12, <1>13,
     <1>14, <1>15, <1>16, <1>17, <1>18, <1>19, <1>20, <1>21 DEF Next, Advance

\* The requests.
LEMMA RequestsTyped ==
    ASSUME RequestTypes, CallTypes, WorkerTypes, Threads, [Next]_vars
    PROVE  RequestTypes'
<1>1. CASE UNCHANGED vars
  BY <1>1 DEF RequestTypes, stored, vars, stored
<1>2. ASSUME NEW t \in Calls, NEW a \in Attempts, NEW c \in Commands, Count(t, a, c)
      PROVE  RequestTypes'
  BY <1>2 DEF RequestTypes, stored, Count
<1>3. ASSUME NEW t \in Calls, NEW a \in Attempts, NEW c \in Commands, CountReprompt(t, a, c)
      PROVE  RequestTypes'
  BY <1>3 DEF RequestTypes, stored, CountReprompt
<1>4. ASSUME NEW t \in Calls, Record(t) PROVE RequestTypes'
  BY <1>4 DEF RequestTypes, stored, Record
<1>5. ASSUME NEW t \in Calls, Gate(t) PROVE RequestTypes'
  BY <1>5 DEF RequestTypes, stored, Gate
<1>6. ASSUME NEW t \in Calls, ReadRow(t) PROVE RequestTypes'
  BY <1>6 DEF RequestTypes, stored, ReadRow
<1>7. ASSUME NEW t \in Calls, SaveRow(t) PROVE RequestTypes'
  BY <1>7 DEF RequestTypes, stored, SaveRow
<1>8. ASSUME NEW t \in Calls, Ask(t) PROVE RequestTypes'
  <2>1. CASE requests' = requests
    BY <2>1 DEF RequestTypes
  <2>2. CASE requests' = Append(requests, [key |-> Fingerprint(of[t], command[t]),
                                           status |-> "pending"])
    <3>1. Fingerprint(of[t], command[t])
              \in [agent : Agents, command : Commands, place : 0 .. MaxAttempts]
      <4>1. of[t] \in Attempts
        BY <1>8 DEF Ask, Threads, CallTypes, Attempts
      <4> QED
        BY <4>1, ToolGateAssumption DEF Fingerprint, Place, CallTypes, WorkerTypes, Attempts
    <3>2. [key |-> Fingerprint(of[t], command[t]), status |-> "pending"] \in Request
      BY <3>1 DEF Request, RequestStatus
    <3> QED
      BY <2>2, <3>2 DEF RequestTypes
  <2> QED
    BY <1>8, <2>1, <2>2 DEF Ask
<1>9. ASSUME NEW t \in Calls, Mark(t) PROVE RequestTypes'
  BY <1>9, DecidedTyped DEF RequestTypes, stored, Mark, CallTypes, RequestStatus
<1>10. ASSUME NEW t \in Calls, Requested(t) PROVE RequestTypes'
  <2>1. [requests EXCEPT ![claim[t]].status = "denied"] \in Seq(Request)
    BY DecidedTyped DEF CallTypes, RequestStatus
  <2> QED
    BY <1>10, <2>1 DEF RequestTypes, Requested
<1>11. ASSUME NEW t \in Calls, Refused(t) PROVE RequestTypes'
  BY <1>11 DEF RequestTypes, stored, Refused
<1>12. ASSUME NEW t \in Calls, Run(t) PROVE RequestTypes'
  BY <1>12 DEF RequestTypes, stored, Run
<1>13. ASSUME NEW t \in Calls, Finish(t) PROVE RequestTypes'
  BY <1>13 DEF RequestTypes, stored, Finish
<1>14. ASSUME NEW a \in Attempts, Exceeded(a) PROVE RequestTypes'
  BY <1>14 DEF RequestTypes, stored, Exceeded
<1>15. ASSUME NEW a \in Attempts, EndInvoke(a) PROVE RequestTypes'
  BY <1>15 DEF RequestTypes, stored, EndInvoke
<1>16. ASSUME NEW g \in Agents, Start(g) PROVE RequestTypes'
  BY <1>16 DEF RequestTypes, stored, Start
<1>17. CASE Stop
  BY <1>17 DEF RequestTypes, stored, Stop
<1>18. CASE TimeOut
  BY <1>18 DEF RequestTypes, stored, TimeOut
<1>19. ASSUME NEW i \in 1 .. Len(requests), NEW s \in {"once", "run", "denied"}, Decide(i, s)
      PROVE  RequestTypes'
  <2>1. Len(requests) \in Nat
    BY DEF RequestTypes
  <2>2. i \in Nat /\ s \in RequestStatus
    BY <2>1 DEF RequestStatus
  <2>3. [requests EXCEPT ![i].status = s] \in Seq(Request)
    BY <2>2, DecidedTyped
  <2> QED
    BY <1>19, <2>3 DEF RequestTypes, Decide
<1>20. CASE Crash
  BY <1>20 DEF RequestTypes, stored, Crash
<1>21. CASE Resume
  BY <1>21 DEF RequestTypes, stored, Resume
<1> QED
  BY <1>1, <1>2, <1>3, <1>4, <1>5, <1>6, <1>7, <1>8, <1>9, <1>10, <1>11, <1>12, <1>13,
     <1>14, <1>15, <1>16, <1>17, <1>18, <1>19, <1>20, <1>21 DEF Next, Advance

LEMMA TypesAreTypeOK == Types <=> TypeOK
  BY DEF Types, CallTypes, WorkerTypes, SignalTypes, ExceptionTypes, CounterTypes, RowTypes,
         RequestTypes, TypeOK, Exceptions

LEMMA TypesKept ==
    ASSUME Types, Threads, [Next]_vars
    PROVE  Types'
  BY CallsTyped, WorkersTyped, SignalsTyped, ExceptionsTyped, CountersTyped, RowsTyped,
     RequestsTyped DEF Types

-----------------------------------------------------------------------------
(* Threads.                                                                *)

\* A step of a call leaves the other calls, and the attempts, as they are; the
\* call goes on or is over.
CallStep(t) ==
    /\ \A s \in Calls \ {t} : pc'[s] = pc[s] /\ of'[s] = of[s] /\ command'[s] = command[s]
    /\ \/ pc'[t] # "idle" /\ of'[t] = of[t] /\ command'[t] = command[t]
       \/ pc'[t] = "idle" /\ of'[t] = 0
    /\ pc[t] # "idle"
    /\ UNCHANGED <<worker, agent, cancelled, used, attempt, awaited, up>>

LEMMA IdleSteps ==
    ASSUME CallTypes, NEW t \in Calls, Idle(t)
    PROVE  /\ \A s \in Calls \ {t} : pc'[s] = pc[s] /\ of'[s] = of[s] /\ command'[s] = command[s]
           /\ pc'[t] = "idle" /\ of'[t] = 0
  BY DEF Idle, Goto, CallTypes

LEMMA GotoSteps ==
    ASSUME CallTypes, NEW t \in Calls, NEW step \in Step \ {"idle"}, Goto(t, step),
           UNCHANGED <<of, command>>
    PROVE  /\ \A s \in Calls \ {t} : pc'[s] = pc[s] /\ of'[s] = of[s] /\ command'[s] = command[s]
           /\ pc'[t] = step /\ of'[t] = of[t] /\ command'[t] = command[t]
  BY DEF Goto, CallTypes

LEMMA CallsStep ==
    ASSUME CallTypes, NEW t \in Calls, Advance(t)
    PROVE  CallStep(t)
<1> USE DEF CallStep, threads, attempts, task
<1>1. CASE Record(t)
  BY <1>1, GotoSteps DEF Record, Step
<1>2. CASE Gate(t)
  BY <1>2, GotoSteps, IdleSteps DEF Gate, Raises, Step
<1>3. CASE ReadRow(t)
  BY <1>3, GotoSteps, IdleSteps DEF ReadRow, Leaves, Answers, Raises, Step
<1>4. CASE SaveRow(t)
  BY <1>4, GotoSteps DEF SaveRow, Step
<1>5. CASE Ask(t)
  BY <1>5, GotoSteps DEF Ask, Step
<1>6. CASE Mark(t)
  BY <1>6, GotoSteps DEF Mark, Step
<1>7. CASE Requested(t)
  BY <1>7, GotoSteps, IdleSteps DEF Requested, Raises, Step
<1>8. CASE Refused(t)
  BY <1>8, IdleSteps DEF Refused, Leaves, Quits, Answers, Raises
<1>9. CASE Run(t)
  BY <1>9, GotoSteps, IdleSteps
     DEF Run, RunCommand, RunFile, RunTeam, Begins, Leaves, Quits, Answers, Raises, Step
<1>10. CASE Finish(t)
  BY <1>10, IdleSteps
     DEF Finish, EndCommand, EndFile, EndTeam, Leaves, Quits, Answers, Raises
<1> QED
  BY <1>1, <1>2, <1>3, <1>4, <1>5, <1>6, <1>7, <1>8, <1>9, <1>10 DEF Advance

\* Of all attempts, only the awaited one can have a worker that is not cancelled.
LEMMA ThreadsKept ==
    ASSUME Types, Threads, [Next]_vars
    PROVE  Threads'
<1> USE DEF Types
<1>1. CASE UNCHANGED vars
  BY <1>1 DEF Threads, vars, call, attempts, task
<1>2. ASSUME NEW t \in Calls, NEW a \in Attempts, NEW c \in Commands, Count(t, a, c)
      PROVE  Threads'
  <2>1. /\ \A s \in Calls \ {t} : pc'[s] = pc[s] /\ of'[s] = of[s]
        /\ pc'[t] = "counted" /\ of'[t] = a /\ a # 0 /\ worker[a] = "first"
    BY <1>2 DEF Count, Goto, CallTypes, Attempts
  <2>2. UNCHANGED <<worker, cancelled, attempt, awaited, up>>
    BY <1>2 DEF Count, task
  <2> QED
    BY <2>1, <2>2 DEF Threads
<1>3. ASSUME NEW t \in Calls, NEW a \in Attempts, NEW c \in Commands, CountReprompt(t, a, c)
      PROVE  Threads'
  <2>1. /\ \A s \in Calls \ {t} : pc'[s] = pc[s] /\ of'[s] = of[s]
        /\ pc'[t] = "gate" /\ of'[t] = a /\ a # 0 /\ worker[a] = "reprompt"
    BY <1>3 DEF CountReprompt, Goto, CallTypes, Attempts
  <2>2. UNCHANGED <<worker, cancelled, attempt, awaited, up>>
    BY <1>3 DEF CountReprompt, task
  <2> QED
    BY <2>1, <2>2 DEF Threads
<1>4. ASSUME NEW t \in Calls, Advance(t) PROVE Threads'
  <2>1. CallStep(t)
    BY <1>4, CallsStep
  <2> QED
    BY <2>1 DEF CallStep, Threads
<1>5. ASSUME NEW a \in Attempts, Exceeded(a) PROVE Threads'
  BY <1>5 DEF Exceeded, Threads, call, task
<1>6. ASSUME NEW a \in Attempts, EndInvoke(a) PROVE Threads'
  <2>1. \A t \in Calls : of[t] # a
    BY <1>6 DEF EndInvoke
  <2>2. /\ \A b \in Attempts \ {a} : worker'[b] = worker[b] /\ cancelled'[b] = cancelled[b]
        /\ \/ worker'[a] = "off"
           \/ worker[a] # "off" /\ ~cancelled[a] /\ UNCHANGED <<cancelled, awaited>>
        /\ awaited' = awaited \/ (awaited = a /\ awaited' = 0)
        /\ worker'[a] = "off" \/ awaited' = awaited
        /\ awaited = a => worker'[a] = "off" \/ awaited' = a
    BY <1>6 DEF EndInvoke, Return, Succeeds, Reprompts, WorkerTypes, SignalTypes
  <2>3. UNCHANGED <<pc, of, attempt, up>>
    BY <1>6 DEF EndInvoke, call
  <2>4. \A t \in Calls : of[t] # 0 => of[t] \in Attempts
    BY DEF CallTypes, Attempts
  <2> QED
    BY <2>1, <2>2, <2>3, <2>4 DEF Threads
<1>7. ASSUME NEW g \in Agents, Start(g) PROVE Threads'
  <2>1. /\ awaited = 0 /\ up /\ attempt' = attempt + 1 /\ awaited' = attempt + 1
        /\ attempt + 1 \in Attempts /\ worker'[attempt + 1] = "first"
        /\ \A b \in Attempts \ {attempt + 1} : worker'[b] = worker[b]
        /\ UNCHANGED <<pc, of, cancelled, up>>
    BY <1>7, ToolGateAssumption
       DEF Start, Invoke, call, WorkerTypes, CounterTypes, Attempts
  <2>2. \A t \in Calls : of[t] # 0 => of[t] \in Attempts
    BY DEF CallTypes, Attempts
  <2>3. attempt \in Nat /\ \A b \in Attempts : b \in Nat
    BY ToolGateAssumption DEF Attempts, CounterTypes
  <2>4. ASSUME NEW b \in Attempts, worker'[b] # "off"
        PROVE  b <= attempt' /\ up' /\ (b = awaited' \/ cancelled'[b])
    <3>1. CASE b = attempt + 1
      BY <2>1, <2>3, <3>1
    <3>2. CASE b # attempt + 1
      BY <2>1, <2>3, <2>4, <3>2 DEF Threads, Attempts
    <3> QED
      BY <3>1, <3>2
  <2>5. ASSUME NEW t \in Calls, of[t] # 0 PROVE worker'[of[t]] # "off"
    BY <2>1, <2>2, <2>5 DEF Threads
  <2> QED
    BY <2>1, <2>4, <2>5 DEF Threads
<1>8. CASE Stop
  <2>1. \A b \in Attempts : cancelled[b] => cancelled'[b]
    BY <1>8 DEF Stop, SignalTypes
  <2> QED
    BY <1>8, <2>1 DEF Stop, Threads, call, task
<1>9. CASE TimeOut
  <2>1. awaited \in Attempts => cancelled'[awaited]
    BY <1>9 DEF TimeOut, SignalTypes
  <2>2. \A b \in Attempts : cancelled[b] => cancelled'[b]
    BY <1>9 DEF TimeOut, SignalTypes
  <2> QED
    BY <1>9, <2>1, <2>2 DEF TimeOut, Threads, call
<1>10. ASSUME NEW i \in 1 .. Len(requests), NEW s \in {"once", "run", "denied"}, Decide(i, s)
       PROVE  Threads'
  BY <1>10 DEF Decide, Threads, call, attempts, task
<1>11. CASE Crash
  BY <1>11 DEF Crash, Threads
<1>12. CASE Resume
  <2>1. \A b \in Attempts : worker'[b] = worker[b]
    BY <1>12 DEF Resume, attempts
  <2> QED
    BY <1>12, <2>1 DEF Resume, Threads, call, attempts, task
<1> QED
  BY <1>1, <1>2, <1>3, <1>4, <1>5, <1>6, <1>7, <1>8, <1>9, <1>10, <1>11, <1>12 DEF Next

\* Calls that are not cancelled are of one attempt.
LEMMA OneIsLive ==
    ASSUME CallTypes, Threads, NEW t \in Calls, NEW u \in Calls, Live(t), Live(u)
    PROVE  of[t] = of[u] /\ of[t] = awaited /\ of[t] \in Attempts
<1>1. of[t] \in Attempts /\ of[u] \in Attempts
  BY DEF CallTypes, Live, Attempts
<1> QED
  BY <1>1 DEF Live, Threads

-----------------------------------------------------------------------------
(* The budget.                                                             *)

LEMMA AtIsFinite ==
    ASSUME NEW steps
    PROVE  /\ IsFiniteSet(At(steps)) /\ Cardinality(At(steps)) \in Nat
           /\ IsFiniteSet(At(steps)') /\ Cardinality(At(steps)') \in Nat
<1>1. At(steps) \subseteq Calls /\ At(steps)' \subseteq Calls
  BY DEF At
<1>2. IsFiniteSet(At(steps)) /\ IsFiniteSet(At(steps)')
  BY <1>1, ToolGateAssumption, FS_Subset
<1> QED
  BY <1>2, FS_CardinalityType

LEMMA OneMore ==
    ASSUME NEW S, NEW x, IsFiniteSet(S)
    PROVE  /\ IsFiniteSet(S \cup {x}) /\ Cardinality(S \cup {x}) \in Nat
           /\ Cardinality(S \cup {x}) <= Cardinality(S) + 1
<1>1. Cardinality(S) \in Nat
  BY FS_CardinalityType
<1>2. CASE x \in S
  <2>1. S \cup {x} = S
    BY <1>2
  <2>2. Cardinality(S \cup {x}) = Cardinality(S)
    BY <2>1, Zenon
  <2>3. IsFiniteSet(S \cup {x})
    BY <2>1, Zenon
  <2> QED
    BY <1>1, <2>2, <2>3
<1>3. CASE x \notin S
  <2>1. IsFiniteSet(S \cup {x}) /\ Cardinality(S \cup {x}) = Cardinality(S) + 1
    BY <1>3, FS_AddElement
  <2> QED
    BY <1>1, <2>1
<1> QED
  BY <1>2, <1>3

\* The count stays where it is when no call comes to the gate and nothing is
\* let through.
LEMMA CountedStays ==
    ASSUME Types, Counted,
           Uncounted' \subseteq Uncounted, Unpassed' \subseteq Unpassed,
           passed' = passed, consumed' \in Nat, consumed' >= consumed,
           lost' \in Nat, lost' >= lost,
           First' => First /\ used'[awaited'] \in Nat /\ used'[awaited'] >= used[awaited]
    PROVE  Counted'
<1>1. /\ Cardinality(Uncounted') <= Cardinality(Uncounted)
      /\ Cardinality(Unpassed') <= Cardinality(Unpassed)
  BY AtIsFinite, FS_Subset DEF Uncounted, Unpassed
<1>2. /\ Cardinality(Uncounted) \in Nat /\ Cardinality(Uncounted') \in Nat
      /\ Cardinality(Unpassed) \in Nat /\ Cardinality(Unpassed') \in Nat
  BY AtIsFinite DEF Uncounted, Unpassed
<1>3. /\ passed \in Nat /\ consumed \in Nat /\ lost \in Nat /\ MaxCalls \in Nat
      /\ First => awaited \in Attempts /\ used[awaited] \in Nat
  BY ToolGateAssumption DEF Types, CounterTypes, WorkerTypes, First, Attempts
<1> QED
  BY <1>1, <1>2, <1>3 DEF Counted

\* A call of the awaited attempt is counted: the guard had room for it.
LEMMA CountKeepsCount ==
    ASSUME Types, Threads, Counted, NEW t \in Calls, NEW a \in Attempts, NEW c \in Commands,
           Count(t, a, c)
    PROVE  Counted'
<1> USE DEF Types
<1>1. /\ \A s \in Calls \ {t} : pc'[s] = pc[s] /\ of'[s] = of[s]
      /\ pc[t] = "idle" /\ pc'[t] = "counted" /\ of'[t] = a /\ worker[a] = "first"
      /\ used[a] < MaxCalls /\ used'[a] = used[a] + 1
      /\ \A b \in Attempts \ {a} : used'[b] = used[b]
  BY DEF Count, Goto, CallTypes, WorkerTypes
<1>2. UNCHANGED <<worker, awaited, passed, consumed, lost>>
  BY DEF Count, task, stored, history
<1>3. Unpassed' = Unpassed
  BY <1>1, <1>2 DEF Unpassed, At, First
<1>4. a \in Nat /\ a # 0
  BY DEF Attempts
<1>5. CASE awaited = a
  <2>1. First /\ First'
    BY <1>1, <1>2, <1>4, <1>5 DEF First
  <2>2. Uncounted' = Uncounted \cup {t} /\ t \notin Uncounted
    BY <1>1, <1>2, <1>5, <2>1 DEF Uncounted, At
  <2>3. Cardinality(Uncounted') = Cardinality(Uncounted) + 1
    BY <2>2, AtIsFinite, FS_AddElement DEF Uncounted
  <2>4. /\ Cardinality(Uncounted) \in Nat
        /\ passed \in Nat /\ lost \in Nat /\ used[a] \in Nat /\ MaxCalls \in Nat
    BY AtIsFinite, ToolGateAssumption DEF Uncounted, CounterTypes, WorkerTypes
  <2> QED
    BY <1>1, <1>2, <1>3, <1>5, <2>1, <2>3, <2>4 DEF Counted
<1>6. CASE awaited # a
  <2>1. Uncounted' = Uncounted
    BY <1>1, <1>2, <1>6 DEF Uncounted, At, First
  <2>2. First' => First /\ awaited \in Attempts
    BY <1>2, ToolGateAssumption DEF First, CounterTypes, Attempts
  <2>3. used'[awaited] = used[awaited] \/ ~First
    BY <1>1, <1>6, <2>2, <1>2 DEF First
  <2> QED
    BY <1>2, <1>3, <2>1, <2>2, <2>3 DEF Counted, First
<1> QED
  BY <1>5, <1>6

\* Its event is stored or missed, and the call comes to the gate.
LEMMA RecordKeepsCount ==
    ASSUME Types, Threads, Counted, NEW t \in Calls, Record(t)
    PROVE  Counted'
<1> USE DEF Types
<1>1. CallStep(t) /\ pc[t] = "counted" /\ pc'[t] = "gate"
  BY CallsStep DEF Advance, Record, Goto, CallTypes
<1>2. /\ passed' = passed /\ UNCHANGED <<worker, awaited, used>>
      /\ \/ consumed' = consumed + 1 /\ lost' = lost
         \/ consumed' = consumed /\ lost' = lost + 1
  BY DEF Record, attempts, task
<1>3. Uncounted' = Uncounted
  BY <1>1, <1>2 DEF CallStep, Uncounted, At, First
<1>4. Unpassed' \subseteq Unpassed \cup {t}
  BY <1>1, <1>2 DEF CallStep, Unpassed, At, First
<1>5. Cardinality(Unpassed') <= Cardinality(Unpassed) + 1
  <2>1. /\ IsFiniteSet(Unpassed \cup {t})
        /\ Cardinality(Unpassed \cup {t}) <= Cardinality(Unpassed) + 1
    BY AtIsFinite, OneMore DEF Unpassed
  <2>2. Cardinality(Unpassed') <= Cardinality(Unpassed \cup {t})
    BY <1>4, <2>1, FS_Subset
  <2>3. /\ Cardinality(Unpassed) \in Nat /\ Cardinality(Unpassed') \in Nat
        /\ Cardinality(Unpassed \cup {t}) \in Nat
    BY <2>1, AtIsFinite, FS_CardinalityType DEF Unpassed
  <2> QED
    BY <2>1, <2>2, <2>3
<1>6. /\ Cardinality(Uncounted) \in Nat /\ Cardinality(Unpassed) \in Nat
      /\ Cardinality(Unpassed') \in Nat
      /\ passed \in Nat /\ lost \in Nat /\ consumed \in Nat /\ MaxCalls \in Nat
      /\ First => used[awaited] \in Nat
      /\ First' = First
  <2>1. First => awaited \in Attempts
    BY ToolGateAssumption DEF First, CounterTypes, Attempts
  <2>2. First' <=> First
    BY <1>2 DEF First
  <2> QED
    BY <2>1, <2>2, AtIsFinite, ToolGateAssumption
       DEF Uncounted, Unpassed, CounterTypes, WorkerTypes, First
<1> QED
  BY <1>2, <1>3, <1>5, <1>6 DEF Counted

\* A call that is let through was at the gate, and so was counted.
LEMMA GateKeepsCount ==
    ASSUME Types, Threads, Counted, NEW t \in Calls, Gate(t)
    PROVE  Counted'
<1> USE DEF Types
<1>1. CallStep(t) /\ pc[t] = "gate"
  BY CallsStep DEF Advance, Gate
<1>2. pc'[t] \notin {"counted", "gate"}
  BY DEF Gate, Goto, Raises, Idle, CallTypes
<1>3. UNCHANGED <<worker, awaited, used, consumed, lost>>
  BY DEF Gate, threads, task, stored
<1>4. Uncounted' = Uncounted \ {t} /\ Unpassed' = Unpassed \ {t}
  BY <1>1, <1>2, <1>3 DEF CallStep, Uncounted, Unpassed, At, First
<1>5. First => awaited \in Attempts /\ used[awaited] \in Nat
  BY ToolGateAssumption DEF First, CounterTypes, WorkerTypes, Attempts
<1>6. First' <=> First
  BY <1>3 DEF First
<1>7. CASE passed' = passed
  BY <1>3, <1>4, <1>5, <1>6, <1>7, CountedStays DEF CounterTypes, First
<1>8. CASE passed' # passed
  <2>1. passed' = passed + 1 /\ ~cancelled[of[t]] /\ worker[of[t]] = "first"
    BY <1>8 DEF Gate, CounterTypes
  <2>2. of[t] \in Attempts /\ of[t] = awaited /\ of[t] # 0
    BY <1>1, <2>1 DEF Threads, CallTypes, Attempts
  <2>3. First /\ t \in Uncounted /\ t \in Unpassed
    BY <1>1, <2>1, <2>2 DEF First, Uncounted, Unpassed, At
  <2>4. /\ Cardinality(Uncounted') = Cardinality(Uncounted) - 1
        /\ Cardinality(Unpassed') = Cardinality(Unpassed) - 1
    BY <1>4, <2>3, AtIsFinite, FS_RemoveElement DEF Uncounted, Unpassed
  <2>5. /\ Cardinality(Uncounted) \in Nat /\ Cardinality(Unpassed) \in Nat
        /\ passed \in Nat /\ lost \in Nat /\ consumed \in Nat /\ MaxCalls \in Nat
    BY AtIsFinite, ToolGateAssumption DEF Uncounted, Unpassed, CounterTypes
  <2> QED
    BY <1>3, <1>5, <1>6, <2>1, <2>4, <2>5 DEF Counted, First
<1> QED
  BY <1>7, <1>8

\* An attempt that begins starts from the events stored, or misses them all.
LEMMA StartKeepsCount ==
    ASSUME Types, Threads, Counted, NEW g \in Agents, Start(g)
    PROVE  Counted'
<1> USE DEF Types
<1>1. /\ awaited = 0 /\ awaited' = attempt + 1 /\ attempt + 1 \in Attempts
      /\ UNCHANGED <<pc, of, passed, consumed>>
      /\ \/ used'[attempt + 1] = consumed /\ lost' = lost
         \/ used'[attempt + 1] \in Nat /\ lost' = lost + consumed
  BY ToolGateAssumption
     DEF Start, Invoke, Restore, call, stored, WorkerTypes, CounterTypes, Attempts
<1>2. \A t \in Calls : of[t] # attempt + 1
  BY <1>1, ToolGateAssumption DEF Threads, CallTypes, CounterTypes, Attempts
<1>3. Uncounted' = {} /\ Unpassed' = {} /\ Uncounted = {} /\ Unpassed = {}
  BY <1>1, <1>2 DEF Uncounted, Unpassed, At, First
<1>4. Cardinality({}) = 0
  BY FS_EmptySet
<1>5. passed \in Nat /\ lost \in Nat /\ consumed \in Nat /\ MaxCalls \in Nat
  BY ToolGateAssumption DEF CounterTypes
<1> QED
  BY <1>1, <1>3, <1>4, <1>5 DEF Counted

\* What is let through and what may still be stays within what was counted.
LEMMA CountedKept ==
    ASSUME Types, Threads, Counted, [Next]_vars
    PROVE  Counted'
<1> USE DEF Types
<1> DEFINE Same == UNCHANGED <<passed, consumed, lost>>
<1>0. /\ passed \in Nat /\ lost \in Nat /\ consumed \in Nat
      /\ First => awaited \in Attempts /\ used[awaited] \in Nat
  BY ToolGateAssumption DEF First, CounterTypes, WorkerTypes, Attempts
<1>1. CASE UNCHANGED vars
  <2>1. UNCHANGED <<pc, of, worker, awaited, used, passed, consumed, lost>>
    BY <1>1 DEF vars, call, attempts, task, stored, history
  <2> QED
    BY <1>0, <2>1, CountedStays DEF Uncounted, Unpassed, At, First
<1>2. ASSUME NEW t \in Calls, NEW a \in Attempts, NEW c \in Commands, Count(t, a, c)
      PROVE  Counted'
  BY <1>2, CountKeepsCount
<1>3. ASSUME NEW t \in Calls, NEW a \in Attempts, NEW c \in Commands, CountReprompt(t, a, c)
      PROVE  Counted'
  <2>1. /\ \A s \in Calls \ {t} : pc'[s] = pc[s] /\ of'[s] = of[s]
        /\ of'[t] = a /\ worker[a] = "reprompt"
    BY <1>3 DEF CountReprompt, Goto, CallTypes
  <2>2. UNCHANGED <<worker, awaited, used, passed, consumed, lost>>
    BY <1>3 DEF CountReprompt, task, stored, history
  <2>3. Uncounted' \subseteq Uncounted /\ Unpassed' \subseteq Unpassed
    BY <2>1, <2>2 DEF Uncounted, Unpassed, At, First
  <2> QED
    BY <1>0, <2>2, <2>3, CountedStays DEF First
<1>4. ASSUME NEW t \in Calls, Advance(t) PROVE Counted'
  <2>1. CASE Record(t)
    BY <2>1, RecordKeepsCount
  <2>2. CASE Gate(t)
    BY <2>2, GateKeepsCount
  <2>3. CASE ~Record(t) /\ ~Gate(t)
    <3>1. CallStep(t)
      BY <1>4, CallsStep
    <3>2. Same
      BY <1>4, <2>3
         DEF Advance, ReadRow, SaveRow, Ask, Mark, Requested, Refused, Run, Finish,
             stored, history
    <3>3. pc[t] \notin {"counted", "gate"}
      BY <1>4, <2>3
         DEF Advance, ReadRow, SaveRow, Ask, Mark, Requested, Refused, Run, Finish
    <3>4. pc'[t] \notin {"counted", "gate"}
      <4>1. pc'[t] \in {"saving", "idle", "asking", "ready", "marking", "requesting",
                        "denied", "refused", "running"}
        BY <1>4, <2>3, GotoSteps, IdleSteps
           DEF Advance, ReadRow, SaveRow, Ask, Mark, Requested, Refused, Run, Finish, Step,
               RunCommand, RunFile, RunTeam, Begins, EndCommand, EndFile, EndTeam,
               Leaves, Quits, Answers, Raises, Goto, CallTypes
      <4> QED
        BY <4>1
    <3>5. Uncounted' \subseteq Uncounted /\ Unpassed' \subseteq Unpassed
      BY <3>1, <3>3, <3>4 DEF CallStep, Uncounted, Unpassed, At, First
    <3> QED
      BY <1>0, <3>1, <3>2, <3>5, CountedStays DEF CallStep, First
  <2> QED
    BY <2>1, <2>2, <2>3
<1>5. ASSUME NEW a \in Attempts, Exceeded(a) PROVE Counted'
  <2>1. UNCHANGED <<pc, of, worker, awaited, used, passed, consumed, lost>>
    BY <1>5 DEF Exceeded, call, task, stored, history
  <2> QED
    BY <1>0, <2>1, CountedStays DEF Uncounted, Unpassed, At, First
<1>6. ASSUME NEW a \in Attempts, EndInvoke(a) PROVE Counted'
  <2>1. /\ \A b \in Attempts \ {a} : worker'[b] = worker[b] /\ used'[b] = used[b]
        /\ worker'[a] # "first"
        /\ awaited' \in {awaited, 0}
    BY <1>6 DEF EndInvoke, Return, Succeeds, Reprompts, WorkerTypes
  <2>2. Same /\ UNCHANGED <<pc, of>>
    BY <1>6 DEF EndInvoke, call, stored, history
  <2>3. First' => First /\ awaited' = awaited /\ awaited # a
    <3>1. awaited # 0 => awaited \in Attempts
      BY ToolGateAssumption DEF CounterTypes, Attempts
    <3> QED
      BY <2>1, <3>1 DEF First
  <2>4. Uncounted' \subseteq Uncounted /\ Unpassed' \subseteq Unpassed
    BY <2>2, <2>3 DEF Uncounted, Unpassed, At
  <2> QED
    BY <1>0, <2>1, <2>2, <2>3, <2>4, CountedStays
<1>7. ASSUME NEW g \in Agents, Start(g) PROVE Counted'
  BY <1>7, StartKeepsCount
<1>8. CASE Stop
  <2>1. UNCHANGED <<pc, of, worker, awaited, used, passed, consumed, lost>>
    BY <1>8 DEF Stop, call, task, stored, history
  <2> QED
    BY <1>0, <2>1, CountedStays DEF Uncounted, Unpassed, At, First
<1>9. CASE TimeOut
  <2>1. Same /\ awaited' = 0
    BY <1>9 DEF TimeOut, stored, history
  <2>2. ~First' /\ Uncounted' = {} /\ Unpassed' = {}
    BY <2>1 DEF Uncounted, Unpassed, At, First
  <2> QED
    BY <1>0, <2>1, <2>2, CountedStays
<1>10. ASSUME NEW i \in 1 .. Len(requests), NEW s \in {"once", "run", "denied"}, Decide(i, s)
       PROVE  Counted'
  <2>1. UNCHANGED <<pc, of, worker, awaited, used, passed, consumed, lost>>
    BY <1>10 DEF Decide, call, attempts, task, history
  <2> QED
    BY <1>0, <2>1, CountedStays DEF Uncounted, Unpassed, At, First
<1>11. CASE Crash
  <2>1. Same /\ awaited' = 0
    BY <1>11 DEF Crash, stored, history
  <2>2. ~First' /\ Uncounted' = {} /\ Unpassed' = {}
    BY <2>1 DEF Uncounted, Unpassed, At, First
  <2> QED
    BY <1>0, <2>1, <2>2, CountedStays
<1>12. CASE Resume
  <2>1. UNCHANGED <<pc, of, worker, awaited, used, passed, consumed, lost>>
    BY <1>12 DEF Resume, call, attempts, task, history
  <2> QED
    BY <1>0, <2>1, CountedStays DEF Uncounted, Unpassed, At, First
<1> QED
  BY <1>1, <1>2, <1>3, <1>4, <1>5, <1>6, <1>7, <1>8, <1>9, <1>10, <1>11, <1>12 DEF Next

-----------------------------------------------------------------------------
(* The journal.                                                            *)

\* A call that goes on keeps its key and its token.
LEMMA KeysStay ==
    ASSUME NEW t \in Calls, CallStep(t), NEW s \in Calls, s # t \/ pc'[t] # "idle"
    PROVE  /\ of'[s] = of[s] /\ command'[s] = command[s] /\ Key(s)' = Key(s)
           /\ Live(s)' <=> Live(s)
  BY DEF CallStep, Key, Live

LEMMA KeysTyped ==
    ASSUME CallTypes, WorkerTypes, Threads, NEW t \in Calls, pc[t] # "idle"
    PROVE  of[t] \in Attempts /\ Key(t) \in Agents \X Commands /\ Key(t)[2] = command[t]
<1>1. of[t] \in Attempts
  BY DEF Threads, CallTypes, Attempts
<1> QED
  BY <1>1 DEF Key, CallTypes, WorkerTypes

\* What a step of a call does to the journal: a row is started by a call that is
\* at it, or closed; nobody clears one.
LEMMA JournalStep ==
    ASSUME Types, Threads, Rows, NEW t \in Calls, Advance(t)
    PROVE  \/ /\ journal' = journal
              /\ pc[t] \in Attending /\ Journaled(command[t]) => pc'[t] \in Attending
              /\ pc'[t] \in Attending \ {"refused", "denied"} /\ Journaled(command[t])
                     => pc[t] \in Attending
           \/ /\ pc[t] = "saving" /\ pc'[t] \in Attending
              /\ journal' = [journal EXCEPT ![Key(t)] = "started"]
           \/ /\ pc[t] \in Attending /\ Journaled(command[t]) /\ pc'[t] = "idle"
              /\ \E s \in {"completed", "failed", "cancelled"} :
                     journal' = [journal EXCEPT ![Key(t)] = s]
<1> USE DEF Types, Attending, stored
<1>1. CASE Record(t)
  BY <1>1, GotoSteps DEF Record, Step
<1>2. CASE Gate(t)
  <2>1. journal' = journal /\ pc[t] = "gate"
    BY <1>2 DEF Gate
  <2>2. ASSUME Journaled(command[t]) PROVE pc'[t] \in {"reading", "idle"}
    <3>1. Goto(t, "reading") \/ Idle(t)
      BY <1>2, <2>2 DEF Gate, Raises
    <3> QED
      BY <3>1 DEF Goto, Idle, CallTypes
  <2> QED
    BY <2>1, <2>2
<1>3. CASE ReadRow(t)
  BY <1>3, GotoSteps, IdleSteps DEF ReadRow, Leaves, Answers, Raises, Step
<1>4. CASE SaveRow(t)
  BY <1>4, GotoSteps DEF SaveRow, WriteRow, Step
<1>5. CASE Ask(t)
  BY <1>5, GotoSteps DEF Ask, Step
<1>6. CASE Mark(t)
  BY <1>6, GotoSteps DEF Mark, Step
<1>7. CASE Requested(t)
  BY <1>7, GotoSteps DEF Requested, Raises, Step
<1>8. CASE Refused(t)
  BY <1>8, IdleSteps DEF Refused, Rows, FailRow, WriteRow, Leaves, Quits, Answers, Raises
<1>9. CASE Run(t)
  BY <1>9, GotoSteps, IdleSteps
     DEF Run, RunCommand, RunFile, RunTeam, Begins, WriteRow, Leaves, Quits, Answers, Raises,
         Step, Journaled
<1>10. CASE Finish(t)
  BY <1>10, IdleSteps
     DEF Finish, EndCommand, EndFile, EndTeam, FailRow, WriteRow, Leaves, Quits, Answers,
         Raises, Journaled
<1> QED
  BY <1>1, <1>2, <1>3, <1>4, <1>5, <1>6, <1>7, <1>8, <1>9, <1>10 DEF Advance

\* Rows keep to their commands over a step of a call.
LEMMA CallKeepsRows ==
    ASSUME Types, Threads, Rows, NEW t \in Calls, Advance(t)
    PROVE  Rows'
<1> USE DEF Types
<1>1. CallStep(t)
  BY CallsStep
<1>2. ASSUME NEW s \in Calls, pc'[s] \in {"reading", "saving", "refused", "denied"}
      PROVE  Journaled(command'[s])
  <2>1. CASE s # t
    BY <1>1, <1>2, <2>1 DEF CallStep, Rows
  <2>2. CASE s = t
    <3>1. command'[t] = command[t]
      BY <1>1, <1>2, <2>2 DEF CallStep
    <3>2. Journaled(command[t])
      <4>1. CASE Gate(t)
        BY <4>1, <1>2, <2>2 DEF Gate, Goto, Raises, Idle, CallTypes
      <4>2. CASE ReadRow(t) \/ SaveRow(t)
        BY <4>2 DEF ReadRow, SaveRow, Rows
      <4>3. CASE Requested(t)
        BY <4>3, <1>2, <2>2 DEF Requested, Raises, Idle, Goto, CallTypes
      <4>4. CASE Record(t) \/ Ask(t) \/ Mark(t)
        BY <4>4, <1>2, <2>2 DEF Record, Ask, Mark, Goto, CallTypes
      <4>5. CASE Refused(t)
        BY <4>5, <1>2, <2>2, IdleSteps DEF Refused, Leaves, Quits, Answers, Raises
      <4>6. CASE Run(t)
        BY <4>6, <1>2, <2>2, IdleSteps
           DEF Run, RunCommand, RunFile, RunTeam, Begins, Goto, Leaves, Quits, Answers,
               Raises, CallTypes
      <4>7. CASE Finish(t)
        BY <4>7, <1>2, <2>2, IdleSteps
           DEF Finish, EndCommand, EndFile, EndTeam, Leaves, Quits, Answers, Raises
      <4> QED
        BY <4>1, <4>2, <4>3, <4>4, <4>5, <4>6, <4>7 DEF Advance
    <3> QED
      BY <2>2, <3>1, <3>2
  <2> QED
    BY <2>1, <2>2
<1>3. Key(t) \in Agents \X Commands /\ Key(t)[2] = command[t]
  BY <1>1, KeysTyped DEF CallStep
<1>4. \A k \in Agents \X Commands \ {Key(t)} : journal'[k] = journal[k]
  BY <1>3, JournalStep DEF RowTypes
<1>5. journal'[Key(t)] = "started" => Journaled(command[t])
  <2>1. CASE journal' = journal
    BY <1>3, <2>1 DEF Rows, Key, CallTypes
  <2>2. CASE pc[t] = "saving"
    BY <2>2 DEF Rows
  <2>3. CASE \E s \in {"completed", "failed", "cancelled"} :
                 journal' = [journal EXCEPT ![Key(t)] = s]
    BY <1>3, <2>3 DEF RowTypes
  <2> QED
    BY <2>1, <2>2, <2>3, JournalStep
<1>6. ASSUME NEW g \in Agents, NEW c \in Commands, journal'[<<g, c>>] = "started"
      PROVE  Journaled(c)
  <2>1. CASE <<g, c>> = Key(t)
    BY <1>3, <1>5, <1>6, <2>1
  <2>2. CASE <<g, c>> # Key(t)
    BY <1>4, <1>6, <2>2 DEF Rows
  <2> QED
    BY <2>1, <2>2
<1>7. ASSUME up', NEW g \in Agents, NEW c \in Commands, journal'[<<g, c>>] = "started"
      PROVE  \E s \in Calls : pc'[s] \in Attending /\ Key(s)' = <<g, c>>
  <2> DEFINE k == <<g, c>>
  <2>1. k \in Agents \X Commands /\ Journaled(c)
    BY <1>6, <1>7
  <2>2. CASE journal' = journal
    <3>1. PICK s \in Calls : pc[s] \in Attending /\ Key(s) = k
      BY <1>1, <1>7, <2>2 DEF CallStep, Rows, StartedRowsAreAttended, Attending
    <3>2. CASE s # t
      BY <1>1, <3>1, <3>2, KeysStay DEF CallStep
    <3>3. CASE s = t
      <4>1. pc'[t] \in Attending
        <5>1. Journaled(command[t])
          BY <1>3, <2>1, <3>1, <3>3
        <5>2. pc[t] # "saving"
          BY <3>1, <3>3 DEF Attending
        <5>3. ~\E x \in {"completed", "failed", "cancelled"} :
                   journal' = [journal EXCEPT ![Key(t)] = x]
          BY <1>3, <1>7, <2>2, <3>1, <3>3 DEF RowTypes
        <5> QED
          BY <3>1, <3>3, <5>1, <5>2, <5>3, JournalStep
      <4> QED
        BY <1>1, <3>1, <3>3, <4>1, KeysStay DEF Attending
    <3> QED
      BY <3>2, <3>3
  <2>3. CASE pc[t] = "saving" /\ pc'[t] \in Attending
             /\ journal' = [journal EXCEPT ![Key(t)] = "started"]
    <3>1. CASE k = Key(t)
      BY <1>1, <2>3, <3>1, KeysStay DEF Attending
    <3>2. CASE k # Key(t)
      <4>1. journal[k] = "started"
        BY <1>4, <1>7, <2>1, <3>2
      <4>2. PICK s \in Calls : pc[s] \in Attending /\ Key(s) = k
        BY <1>1, <1>7, <4>1 DEF CallStep, Rows, StartedRowsAreAttended, Attending
      <4>3. s # t
        BY <2>3, <4>2 DEF Attending
      <4> QED
        BY <1>1, <4>2, <4>3, KeysStay DEF CallStep
    <3> QED
      BY <3>1, <3>2
  <2>4. CASE \E x \in {"completed", "failed", "cancelled"} :
                 journal' = [journal EXCEPT ![Key(t)] = x]
    <3>1. k # Key(t)
      BY <1>3, <1>7, <2>4 DEF RowTypes
    <3>2. journal[k] = "started"
      BY <1>4, <1>7, <2>1, <3>1
    <3>3. PICK s \in Calls : pc[s] \in Attending /\ Key(s) = k
      BY <1>1, <1>7, <3>2 DEF CallStep, Rows, StartedRowsAreAttended, Attending
    <3> QED
      BY <1>1, <3>1, <3>3, KeysStay DEF CallStep
  <2> QED
    BY <2>2, <2>3, <2>4, JournalStep
<1> QED
  BY <1>2, <1>6, <1>7 DEF Rows, StartedRowsAreAttended, Attending

\* Rows, journaled commands and attending calls stay together.
LEMMA RowsKept ==
    ASSUME Types, Threads, Rows, [Next]_vars
    PROVE  Rows'
<1> USE DEF Types
<1> DEFINE Same == UNCHANGED <<pc, of, command, agent, journal, up>>
<1>0. ASSUME Same PROVE Rows'
  <2>1. \A s \in Calls : Key(s)' = Key(s)
    BY <1>0 DEF Key
  <2> QED
    BY <1>0, <2>1 DEF Rows, StartedRowsAreAttended
<1>1. CASE UNCHANGED vars
  BY <1>0, <1>1 DEF vars, call, attempts, stored
<1>2. ASSUME NEW t \in Calls, NEW a \in Attempts, NEW c \in Commands,
             Count(t, a, c) \/ CountReprompt(t, a, c)
      PROVE  Rows'
  <2>1. /\ \A s \in Calls \ {t} : pc'[s] = pc[s] /\ of'[s] = of[s] /\ command'[s] = command[s]
        /\ pc[t] = "idle" /\ pc'[t] \in {"counted", "gate"}
        /\ UNCHANGED <<agent, journal, up>>
    BY <1>2 DEF Count, CountReprompt, Goto, CallTypes, stored
  <2>2. \A s \in Calls \ {t} : Key(s)' = Key(s)
    BY <2>1 DEF Key
  <2> QED
    BY <2>1, <2>2 DEF Rows, StartedRowsAreAttended
<1>3. ASSUME NEW t \in Calls, Advance(t) PROVE Rows'
  BY <1>3, CallKeepsRows
<1>4. ASSUME NEW a \in Attempts, Exceeded(a) PROVE Rows'
  BY <1>0, <1>4 DEF Exceeded, call, stored
<1>5. ASSUME NEW a \in Attempts, EndInvoke(a) PROVE Rows'
  BY <1>0, <1>5 DEF EndInvoke, call, stored
<1>6. ASSUME NEW g \in Agents, Start(g) PROVE Rows'
  <2>1. \A s \in Calls : pc[s] # "idle" => Key(s)' = Key(s)
    <3> SUFFICES ASSUME NEW s \in Calls, pc[s] # "idle" PROVE Key(s)' = Key(s)
      OBVIOUS
    <3>1. of[s] \in Attempts /\ of[s] <= attempt
      BY DEF Threads, CallTypes, Attempts
    <3>2. agent'[of[s]] = agent[of[s]] /\ UNCHANGED <<of, command>>
      BY <1>6, <3>1, ToolGateAssumption DEF Start, WorkerTypes, CounterTypes, Attempts, call
    <3> QED
      BY <3>2 DEF Key
  <2>2. UNCHANGED <<pc, command, journal, up>>
    BY <1>6 DEF Start, call, stored
  <2> QED
    BY <2>1, <2>2 DEF Rows, StartedRowsAreAttended
<1>7. CASE Stop
  BY <1>0, <1>7 DEF Stop, call, stored
<1>8. CASE TimeOut
  BY <1>0, <1>8 DEF TimeOut, call, stored
<1>9. ASSUME NEW i \in 1 .. Len(requests), NEW s \in {"once", "run", "denied"}, Decide(i, s)
      PROVE  Rows'
  BY <1>0, <1>9 DEF Decide, call, attempts
<1>10. CASE Crash
  BY <1>10 DEF Crash, Rows, StartedRowsAreAttended, stored
<1>11. CASE Resume
  <2>1. \A k \in Agents \X Commands : journal'[k] # "started"
    BY <1>11 DEF Resume, Recovered
  <2> QED
    BY <1>11, <2>1 DEF Resume, Rows, StartedRowsAreAttended, call
<1> QED
  BY <1>1, <1>2, <1>3, <1>4, <1>5, <1>6, <1>7, <1>8, <1>9, <1>10, <1>11 DEF Next

\* What a step of a call does to what ran: one command is started, from "ready",
\* and a journaled one only by a call that is not cancelled.
LEMMA RanStep ==
    ASSUME Types, Threads, NEW t \in Calls, Advance(t)
    PROVE  \/ ran' = ran
           \/ /\ pc[t] = "ready" /\ pc'[t] = "running"
              /\ ran' = [ran EXCEPT ![Key(t)] = @ \cup {of[t]}]
              /\ Journaled(command[t]) => ~cancelled[of[t]]
<1>1. CASE Run(t)
  BY <1>1 DEF Run, RunCommand, RunFile, RunTeam, Begins, Goto, Journaled, Types, CallTypes
<1>2. CASE ~Run(t)
  BY <1>2 DEF Advance, Record, Gate, ReadRow, SaveRow, Ask, Mark, Requested, Refused, Finish,
              history
<1> QED
  BY <1>1, <1>2

\* A journaled call comes to its command by way of a missing row.
LEMMA StartingStep ==
    ASSUME Types, Threads, NEW t \in Calls, Advance(t), Journaled(command[t]), pc'[t] \in Starting
    PROVE  \/ pc[t] \in Starting
           \/ pc[t] = "reading" /\ journal[Key(t)] = "absent" /\ ran' = ran
<1> USE DEF Types, Starting
<1>1. CASE Record(t)
  BY <1>1, GotoSteps DEF Record, Step
<1>2. CASE Gate(t)
  <2>1. Goto(t, "reading") \/ Idle(t)
    BY <1>2 DEF Gate, Raises
  <2> QED
    BY <2>1 DEF Goto, Idle, CallTypes
<1>3. CASE ReadRow(t)
  BY <1>3, IdleSteps DEF ReadRow, Leaves, Answers, Raises, history
<1>4. CASE SaveRow(t) \/ Ask(t) \/ Mark(t) \/ Requested(t)
  BY <1>4 DEF SaveRow, Ask, Mark, Requested
<1>5. CASE Refused(t)
  BY <1>5, IdleSteps DEF Refused, Leaves, Quits, Answers, Raises
<1>6. CASE Run(t)
  BY <1>6 DEF Run
<1>7. CASE Finish(t)
  BY <1>7, IdleSteps DEF Finish, EndCommand, EndFile, EndTeam, Leaves, Quits, Answers, Raises
<1> QED
  BY <1>1, <1>2, <1>3, <1>4, <1>5, <1>6, <1>7 DEF Advance

\* A step of a call starts no command a second time in another attempt.
LEMMA CallKeepsEffects ==
    ASSUME Types, Threads, Rows, Effects, NEW t \in Calls, Advance(t)
    PROVE  Effects'
<1> USE DEF Types
<1> SUFFICES ASSUME NEW k \in Agents \X Commands, Journaled(k[2])
             PROVE  /\ journal'[k] = "absent" => ran'[k] = {}
                    /\ \A s \in Calls :
                          /\ pc'[s] \in Attending /\ Key(s)' = k => journal'[k] # "absent"
                          /\ pc'[s] \in Starting /\ Live(s)' /\ Key(s)' = k
                                 => ran'[k] \subseteq {of'[s]}
                    /\ \E a \in Nat : ran'[k] \subseteq {a}
  BY DEF Effects
<1>1. CallStep(t)
  BY CallsStep
<1>2. /\ Key(t) \in Agents \X Commands /\ Key(t)[2] = command[t]
      /\ of[t] \in Attempts /\ of[t] \in Nat /\ of[t] # 0
  BY <1>1, KeysTyped DEF CallStep, Attempts
<1>3. journal'[k] = "absent" => journal[k] = "absent"
  BY <1>2, JournalStep DEF RowTypes
<1>4. ASSUME ran'[k] # ran[k]
      PROVE  /\ k = Key(t) /\ pc[t] = "ready" /\ Live(t)
             /\ ran'[k] = ran[k] \cup {of[t]}
  <2>1. /\ pc[t] = "ready"
        /\ ran' = [ran EXCEPT ![Key(t)] = @ \cup {of[t]}]
        /\ Journaled(command[t]) => ~cancelled[of[t]]
    BY <1>4, RanStep
  <2>2. k = Key(t)
    BY <1>2, <1>4, <2>1 DEF RowTypes
  <2>3. ran'[k] = ran[k] \cup {of[t]}
    BY <1>2, <2>1, <2>2 DEF RowTypes
  <2> QED
    BY <1>2, <2>1, <2>2, <2>3 DEF Live
<1>5. ran'[k] # ran[k] => ran'[k] \subseteq {of[t]}
  <2> SUFFICES ASSUME ran'[k] # ran[k]
               PROVE  ran[k] \subseteq {of[t]} /\ ran'[k] = ran[k] \cup {of[t]}
    OBVIOUS
  <2> QED
    BY <1>4 DEF Effects, Starting
<1>6. journal'[k] = "absent" => ran'[k] = {}
  <2> SUFFICES ASSUME journal'[k] = "absent" PROVE ran'[k] = {}
    OBVIOUS
  <2>1. journal[k] = "absent" /\ ran[k] = {}
    BY <1>3 DEF Effects
  <2>2. CASE ran'[k] # ran[k]
    <3>1. k = Key(t) /\ pc[t] = "ready"
      BY <1>4, <2>2
    <3>2. journal[k] # "absent"
      BY <3>1 DEF Effects, Attending
    <3> QED
      BY <2>1, <3>2
  <2> QED
    BY <2>1, <2>2
<1>7. ASSUME NEW s \in Calls, pc'[s] \in Attending, Key(s)' = k
      PROVE  journal'[k] # "absent"
  <2>1. Key(s) = k /\ (s = t => command'[t] = command[t])
    BY <1>1, <1>7, KeysStay DEF Attending
  <2>2. CASE s # t
    BY <1>1, <1>3, <1>7, <2>1, <2>2 DEF CallStep, Effects
  <2>3. CASE s = t
    <3>1. CASE pc[t] \in Attending
      BY <1>3, <2>1, <2>3, <3>1 DEF Effects
    <3>2. CASE pc[t] \notin Attending
      <4>1. \/ pc[t] = "saving" /\ journal' = [journal EXCEPT ![Key(t)] = "started"]
            \/ journal' = journal /\ pc'[t] \in {"refused", "denied"}
        BY <1>2, <1>7, <2>1, <2>3, <3>2, JournalStep
      <4>2. CASE pc[t] = "saving" /\ journal' = [journal EXCEPT ![Key(t)] = "started"]
        BY <1>2, <2>1, <2>3, <4>2 DEF RowTypes
      <4>3. CASE pc'[t] \in {"refused", "denied"}
        <5>1. Requested(t)
          BY <3>2, <4>3, GotoSteps, IdleSteps
             DEF Advance, Record, Gate, ReadRow, SaveRow, Ask, Mark, Refused, Run, Finish,
                 RunCommand, RunFile, RunTeam, Begins, EndCommand, EndFile, EndTeam,
                 Leaves, Quits, Answers, Raises, Goto, CallTypes, Attending
        <5> QED
          BY <3>2, <5>1 DEF Requested, Attending
      <4> QED
        BY <4>1, <4>2, <4>3
    <3> QED
      BY <3>1, <3>2
  <2> QED
    BY <2>2, <2>3
<1>8. ASSUME NEW s \in Calls, pc'[s] \in Starting, Live(s)', Key(s)' = k
      PROVE  ran'[k] \subseteq {of'[s]}
  <2>1. Key(s) = k /\ Live(s) /\ of'[s] = of[s] /\ command'[s] = command[s]
    BY <1>1, <1>8, KeysStay DEF Starting
  <2>2. CASE ran'[k] # ran[k]
    <3>1. Live(t) /\ of[s] = of[t]
      BY <1>4, <2>1, <2>2, OneIsLive
    <3> QED
      BY <1>5, <2>1, <2>2, <3>1
  <2>3. CASE ran'[k] = ran[k]
    <3>1. CASE s # t
      BY <1>1, <1>8, <2>1, <2>3, <3>1 DEF CallStep, Effects
    <3>2. CASE s = t
      <4>1. Journaled(command[t])
        BY <1>2, <2>1, <3>2
      <4>2. pc[t] \in Starting \/ journal[k] = "absent"
        BY <1>8, <2>1, <3>2, <4>1, StartingStep
      <4> QED
        BY <2>1, <2>3, <3>2, <4>2 DEF Effects
    <3> QED
      BY <3>1, <3>2
  <2> QED
    BY <2>2, <2>3
<1>9. \E a \in Nat : ran'[k] \subseteq {a}
  BY <1>2, <1>5 DEF Effects
<1> QED
  BY <1>6, <1>7, <1>8, <1>9

\* No command is started in two attempts.
LEMMA EffectsKept ==
    ASSUME Types, Threads, Rows, Effects, [Next]_vars
    PROVE  Effects'
<1> USE DEF Types
<1> DEFINE Quiet == /\ UNCHANGED <<journal, ran>>
                    /\ \A s \in Calls : pc'[s] \in Attending \cup Starting =>
                           /\ pc[s] = pc'[s] /\ of'[s] = of[s]
                           /\ Key(s)' = Key(s) /\ (Live(s)' => Live(s))
<1>0. ASSUME Quiet PROVE Effects'
  BY <1>0 DEF Effects
<1>1. CASE UNCHANGED vars
  BY <1>0, <1>1 DEF vars, call, attempts, stored, history, Key, Live
<1>2. ASSUME NEW t \in Calls, NEW a \in Attempts, NEW c \in Commands,
             Count(t, a, c) \/ CountReprompt(t, a, c)
      PROVE  Effects'
  <2>1. /\ \A s \in Calls \ {t} : pc'[s] = pc[s] /\ of'[s] = of[s] /\ command'[s] = command[s]
        /\ pc'[t] \in {"counted", "gate"}
        /\ UNCHANGED <<agent, cancelled, journal, ran>>
    BY <1>2 DEF Count, CountReprompt, Goto, CallTypes, stored, history
  <2>2. \A s \in Calls \ {t} : Key(s)' = Key(s) /\ (Live(s)' <=> Live(s))
    BY <2>1 DEF Key, Live
  <2> QED
    BY <1>0, <2>1, <2>2 DEF Attending, Starting
<1>3. ASSUME NEW t \in Calls, Advance(t) PROVE Effects'
  BY <1>3, CallKeepsEffects
<1>4. ASSUME NEW a \in Attempts, Exceeded(a) PROVE Effects'
  BY <1>0, <1>4 DEF Exceeded, call, stored, history, Key, Live
<1>5. ASSUME NEW a \in Attempts, EndInvoke(a) PROVE Effects'
  <2>1. UNCHANGED <<pc, of, command, agent, journal, ran>>
    BY <1>5 DEF EndInvoke, call, stored, history
  <2>2. \A s \in Calls : of[s] # 0 => of[s] \in Attempts \ {a}
    BY <1>5 DEF EndInvoke, CallTypes, Attempts
  <2>3. \A b \in Attempts \ {a} : cancelled'[b] = cancelled[b]
    BY <1>5 DEF EndInvoke, Return, Succeeds, Reprompts, SignalTypes
  <2>4. \A s \in Calls : Key(s)' = Key(s) /\ (Live(s)' => Live(s))
    BY <2>1, <2>2, <2>3 DEF Key, Live
  <2> QED
    BY <1>0, <2>1, <2>4
<1>6. ASSUME NEW g \in Agents, Start(g) PROVE Effects'
  <2>1. UNCHANGED <<pc, of, command, cancelled, journal, ran>>
    BY <1>6 DEF Start, call, stored
  <2>2. ASSUME NEW s \in Calls, pc[s] # "idle" PROVE Key(s)' = Key(s)
    <3>1. of[s] \in Attempts /\ of[s] <= attempt
      BY <2>2 DEF Threads, CallTypes, Attempts
    <3>2. agent'[of[s]] = agent[of[s]]
      BY <1>6, <3>1, ToolGateAssumption DEF Start, WorkerTypes, CounterTypes, Attempts
    <3> QED
      BY <2>1, <3>2 DEF Key
  <2>3. \A s \in Calls : Live(s)' <=> Live(s)
    BY <2>1 DEF Live
  <2> QED
    BY <1>0, <2>1, <2>2, <2>3 DEF Attending, Starting
<1>7. CASE Stop
  <2>1. UNCHANGED <<pc, of, command, agent, journal, ran>>
    BY <1>7 DEF Stop, call, stored, history
  <2>2. \A s \in Calls : Key(s)' = Key(s) /\ (Live(s)' => Live(s))
    BY <1>7, <2>1 DEF Stop, Key, Live, SignalTypes, CallTypes, Attempts
  <2> QED
    BY <1>0, <2>1, <2>2
<1>8. CASE TimeOut
  <2>1. UNCHANGED <<pc, of, command, agent, journal, ran>>
    BY <1>8 DEF TimeOut, call, stored, history
  <2>2. \A s \in Calls : Key(s)' = Key(s) /\ (Live(s)' => Live(s))
    BY <1>8, <2>1 DEF TimeOut, Key, Live, SignalTypes, CallTypes, Attempts
  <2> QED
    BY <1>0, <2>1, <2>2
<1>9. ASSUME NEW i \in 1 .. Len(requests), NEW s \in {"once", "run", "denied"}, Decide(i, s)
      PROVE  Effects'
  BY <1>0, <1>9 DEF Decide, call, attempts, history, Key, Live
<1>10. CASE Crash
  <2>1. \A s \in Calls : pc'[s] = "idle"
    BY <1>10 DEF Crash
  <2> QED
    BY <1>0, <1>10, <2>1 DEF Crash, Attending, Starting, stored, history
<1>11. CASE Resume
  <2>1. UNCHANGED <<pc, of, command, agent, cancelled, ran>>
    BY <1>11 DEF Resume, call, attempts, history
  <2>2. \A k \in Agents \X Commands : journal'[k] = "absent" <=> journal[k] = "absent"
    BY <1>11 DEF Resume, Recovered
  <2> QED
    BY <2>1, <2>2 DEF Effects, Key, Live
<1> QED
  BY <1>1, <1>2, <1>3, <1>4, <1>5, <1>6, <1>7, <1>8, <1>9, <1>10, <1>11 DEF Next

-----------------------------------------------------------------------------
(* Theorems.                                                               *)

LEMMA Begin == Init => IInv
<1> SUFFICES ASSUME Init PROVE IInv
  OBVIOUS
<1>1. Types
  <2>1. CallTypes
    BY AnyCommandIsOne, ToolGateAssumption DEF Init, CallTypes, Step
  <2>2. WorkerTypes /\ SignalTypes /\ ExceptionTypes
    BY ToolGateAssumption DEF Init, WorkerTypes, SignalTypes, ExceptionTypes, Exceptions
  <2>3. CounterTypes
    BY ToolGateAssumption DEF Init, CounterTypes
  <2>4. RowTypes /\ RequestTypes
    BY DEF Init, RowTypes, RequestTypes, RowStatus
  <2> QED
    BY <2>1, <2>2, <2>3, <2>4 DEF Types
<1>2. Threads
  BY DEF Init, Threads
<1>3. Counted
  <2>1. ~First /\ Uncounted = {} /\ Unpassed = {}
    BY DEF Init, First, Uncounted, Unpassed, At
  <2>2. Cardinality({}) = 0
    BY FS_EmptySet
  <2> QED
    BY <2>1, <2>2, ToolGateAssumption DEF Init, Counted
<1>4. Rows
  BY DEF Init, Rows, StartedRowsAreAttended
<1>5. Effects
  BY DEF Init, Effects, Attending, Starting
<1> QED
  BY <1>1, <1>2, <1>3, <1>4, <1>5 DEF IInv

\* The inductive invariant holds of every reachable state of the gate.
THEOREM GateInvariant == Spec => []IInv
<1>1. IInv /\ [Next]_vars => IInv'
  BY TypesKept, ThreadsKept, CountedKept, RowsKept, EffectsKept DEF IInv
<1> QED
  BY Begin, <1>1, PTL DEF Spec

\* Types of the gate's state.
THEOREM TypeCorrect == Spec => []TypeOK
<1>1. IInv => TypeOK
  BY TypesAreTypeOK DEF IInv
<1> QED
  BY <1>1, GateInvariant, PTL

\* All attempts of a task share one budget: no number of stale threads, retries
\* and restarts lets more calls through than max_tool_calls, but for events the
\* count has missed (_TaskToolBudgetGuard).
THEOREM BudgetIsShared == Spec => []WithinBudget
<1>1. IInv => WithinBudget
  <2> SUFFICES ASSUME IInv PROVE WithinBudget
    OBVIOUS
  <2>1. Cardinality(Uncounted) \in Nat
    BY AtIsFinite DEF Uncounted
  <2>2. passed \in Nat /\ lost \in Nat /\ MaxCalls \in Nat
    BY ToolGateAssumption DEF IInv, Types, CounterTypes
  <2> QED
    BY <2>1, <2>2 DEF IInv, Counted, WithinBudget
<1> QED
  BY <1>1, GateInvariant, PTL

\* Types, and the budget of calls that all attempts of the task share
\* (_TaskToolBudgetGuard, executor.py).
THEOREM GateIsSafe == Spec => []Safety
  BY TypeCorrect, BudgetIsShared, PTL DEF Safety

\* A journaled command is started in one attempt at most, however many there are
\* and whatever threads they leave behind (ToolSideEffectJournal.begin).
THEOREM EffectsAreNotRepeated == Spec => []EffectsStayInAttempt
<1>1. ASSUME NEW S, NEW x, S \subseteq {x} PROVE Cardinality(S) <= 1
  <2>1. CASE S = {}
    BY <2>1, FS_EmptySet
  <2>2. CASE S # {}
    <3>1. S = {x}
      BY <1>1, <2>2
    <3> QED
      BY <3>1, FS_Singleton
  <2> QED
    BY <2>1, <2>2
<1>2. IInv => EffectsStayInAttempt
  <2> SUFFICES ASSUME IInv, NEW g \in Agents, NEW c \in Commands, Journaled(c)
               PROVE  Cardinality(ran[<<g, c>>]) <= 1
    BY DEF EffectsStayInAttempt
  <2>1. PICK a \in Nat : ran[<<g, c>>] \subseteq {a}
    BY DEF IInv, Effects
  <2> QED
    BY <1>1, <2>1
<1> QED
  BY <1>2, GateInvariant, PTL

\* While the process runs, no row is left "started" without a call that will
\* close it (tool_runtime.py).
THEOREM NoRowIsForgotten == Spec => []StartedRowsAreAttended
<1>1. IInv => StartedRowsAreAttended
  BY DEF IInv, Rows
<1> QED
  BY <1>1, GateInvariant, PTL

=============================================================================
