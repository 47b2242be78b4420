--------------------------- MODULE MCAgentAutomation ---------------------------
(* Small instances of AgentAutomation for TLC.                                *)
EXTENDS AgentAutomation

CONSTANTS a1, t1, t2, q1

\* Bound: a fault, or an ownership or a draft that changes, not both.
OneDisturbance == flips + faults <= 1
================================================================================
