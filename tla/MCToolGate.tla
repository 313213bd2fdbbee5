----------------------------- MODULE MCToolGate -----------------------------
(* One task, two calls at a time, for TLC. *)
EXTENDS ToolGate, TLC

CONSTANTS t1, t2, g1, deploy, write, spawn

MCCalls == {t1, t2}

MCAgents == {g1}

MCSymmetry == Permutations(MCCalls)

MCCommands == {deploy, write, spawn}

MCKindOf ==
    [c \in MCCommands |->
        CASE c = deploy -> "shell" [] c = write -> "file" [] c = spawn -> "team"]

=============================================================================
