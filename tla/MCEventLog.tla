----------------------------- MODULE MCEventLog -----------------------------
(* Instances of EventLog for TLC. *)
EXTENDS EventLog

CONSTANTS w1, w2, ra, rb, k1

MCWriters == {w1, w2}
MCRuns == {ra, rb}
MCKeys == {k1}
MCNoKeys == {}
=============================================================================
