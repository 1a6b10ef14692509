------------------------------ MODULE MCWorkflow ------------------------------
(***************************************************************************)
(* The legacy engine on its own: a plan that asks, a developer and a       *)
(* reviewer that sends work back, with no step invalidated by the host.    *)
(***************************************************************************)
EXTENDS WorkflowRun

CONSTANTS plan, dev, rev

MCOrder == <<plan, dev, rev>>
MCEnds == [n \in Node |-> IF n = dev THEN {rev} ELSE {dev}]
=============================================================================
