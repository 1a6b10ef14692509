--------------------------- MODULE MCRunExecution ---------------------------
(***************************************************************************)
(* Small workflows under RunExecution. Model values name the nodes: look   *)
(* reads, edit and other write, verify certifies, ask waits for a human,   *)
(* done ends the run.                                                      *)
(***************************************************************************)
EXTENDS RunExecution

CONSTANTS a, b, canceller, pauser, cancel, pause, look, edit, other, verify, ask, done, h1, h2

\* The compiler gives a node that requires a provider two attempts.
MCAttempts == [t \in Task |-> IF t \in AITask THEN 2 ELSE 1]

\* Orders of the nodes: a sequence, a map that reads and writes, a map that
\* reads and asks.
EditThenVerify == [t \in Task |-> CASE t = edit -> 0 [] t \in {verify, ask} -> 1 [] OTHER -> 2]
Together == [t \in Task |-> IF t \in {edit, other, look} THEN 0 ELSE 2]
AskBeside == [t \in Task |-> IF t \in {ask, look} THEN 1 ELSE 2]
=============================================================================
