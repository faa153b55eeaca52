------------------------------ MODULE MCSCH51 ------------------------------
(* Small tables for TLC: the delays cover "due at the next tick" and "wait", *)
(* the periods a one-shot task and two reload values.                        *)
EXTENDS SCH51

MCDelays == {0, 1}
MCPeriods == {0, 1, 2}
=============================================================================
