---------------------------- MODULE MCTaskService ----------------------------
(* A plan of two tasks and two ids for what tools, repairs and plans add. *)
EXTENDS TaskService, TLC

CONSTANTS a, b, n1, n2, c1, c2

MCIds == {a, b, n1, n2}

MCPlans == {[t \in {a} |-> {}], [t \in {a, b} |-> {}]}

Request(op, task, on, named) == [op |-> op, task |-> task, on |-> on, named |-> named]

MCRequests ==
    {Request("create", n1, {}, TRUE), Request("depend", a, {b}, TRUE),
     Request("depend", b, {a}, FALSE), Request("depend", b, {n1}, FALSE),
     Request("update", b, {}, FALSE)}

MCCallers == {c1, c2}

\* Bound: the scheduler works on copies of records in the first dispatch only.
FirstDispatchCopies == taken # {} => crashes = 0 /\ revisions = 0

CallerSymmetry == Permutations(MCCallers)

\* Kahn's algorithm against the definition, for every graph of three nodes.
ASSUME KahnIsExact ==
    \A deps \in [{a, b, n1} -> SUBSET {a, b, n1}] :
        HasCycle(deps) <=> Kahn(deps) # DOMAIN deps

=============================================================================
