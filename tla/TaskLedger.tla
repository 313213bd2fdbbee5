----------------------------- MODULE TaskLedger -----------------------------
(***************************************************************************)
(* What the task board promises about each durable task row, without the   *)
(* statuses, the retry counters, the cache or the lost writes: a row is    *)
(* posted, a worker takes it, and from then on only that worker is its     *)
(* holder until the row is handed back.  A writer with an outdated copy    *)
(* may revive a former holder; the ledger promises nothing of that task    *)
(* from then on.  TaskBoard implements this module.                        *)
(***************************************************************************)

CONSTANTS Tasks, Agents, NoAgent

VARIABLES
    phase,      \* "none" before the row exists, then open, held or settled
    holder,     \* the agent the row names, or NoAgent
    revived     \* the rows that an outdated copy was written over

ledgerVars == <<phase, holder, revived>>

LedgerTypeOK ==
    /\ phase \in [Tasks -> {"none", "open", "held", "settled"}]
    /\ holder \in [Tasks -> Agents \cup {NoAgent}]
    /\ revived \subseteq Tasks

LedgerInit ==
    /\ phase = [t \in Tasks |-> "none"]
    /\ holder = [t \in Tasks |-> NoAgent]
    /\ revived = {}

\* A row is written without a holder: a new task, a requeued one, or one that
\* was cancelled or fenced before anybody took it.
Post(t) ==
    /\ \E p \in {"open", "settled"} : phase' = [phase EXCEPT ![t] = p]
    /\ holder' = [holder EXCEPT ![t] = NoAgent]
    /\ UNCHANGED revived

\* An open row is taken by one agent.
Take(t, a) ==
    /\ phase[t] = "open"
    /\ holder[t] = NoAgent
    /\ phase' = [phase EXCEPT ![t] = "held"]
    /\ holder' = [holder EXCEPT ![t] = a]
    /\ UNCHANGED revived

\* The row of a holder moves on (started, produced, blocked) or is settled
\* (succeeded, failed, cancelled, fenced); the holder stays on record.
Advance(t) ==
    /\ holder[t] # NoAgent
    /\ \E p \in {"held", "settled"} : phase' = [phase EXCEPT ![t] = p]
    /\ UNCHANGED <<holder, revived>>

\* Many rows are handed back at once when a run is resumed.
Requeue(S) ==
    /\ phase' = [t \in Tasks |-> IF t \in S THEN "open" ELSE phase[t]]
    /\ holder' = [t \in Tasks |-> IF t \in S THEN NoAgent ELSE holder[t]]
    /\ UNCHANGED revived

\* The row of t becomes anything.
Rewritten(t) ==
    /\ \E p \in {"open", "held", "settled"} : phase' = [phase EXCEPT ![t] = p]
    /\ \E a \in Agents \cup {NoAgent} : holder' = [holder EXCEPT ![t] = a]

\* A row is given back to a former holder, or is about to be: the writer has
\* changed its memory, and its upsert may have been lost.
Revive(t) ==
    /\ revived' = revived \cup {t}
    /\ UNCHANGED <<phase, holder>> \/ Rewritten(t)

Drift(t) ==
    /\ t \in revived
    /\ Rewritten(t)
    /\ UNCHANGED revived

LedgerNext ==
    \/ \E t \in Tasks : Post(t) \/ Advance(t) \/ Revive(t) \/ Drift(t)
    \/ \E t \in Tasks, a \in Agents : Take(t, a)
    \/ \E S \in SUBSET Tasks : Requeue(S)

LedgerSpec == LedgerInit /\ [][LedgerNext]_ledgerVars
=============================================================================
