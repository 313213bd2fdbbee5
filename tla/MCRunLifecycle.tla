--------------------------- MODULE MCRunLifecycle ---------------------------
(* One run on two API workers, for TLC: started on the first, resumed on both. *)
EXTENDS RunLifecycle

CONSTANTS w1, w2, start1, resume1, resume2, none, departed

MCWorkers == {w1, w2}

MCExecutions == {start1, resume1, resume2}

MCStarts == {start1}

MCHost == [e \in MCExecutions |-> IF e = resume2 THEN w2 ELSE w1]

=============================================================================
