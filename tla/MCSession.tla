----------------------------- MODULE MCSession -----------------------------
(***************************************************************************)
(* Instances of ActiveSession for TLC: a few inputs of the host, at most    *)
(* two the session writes itself, one native or delegated sub-agent, and    *)
(* the setups of a run.                                                     *)
(***************************************************************************)
EXTENDS ActiveSession, TLC

CONSTANTS u1, u2, u3, s1, s2, n1, d1

\* Claude is steered, updated and closed; Codex refuses requests and hands over.
WithSubagents == {
  [driver |-> "claude", has |-> {u1, u2, n1}, delivery |-> {"steer"}, resume |-> FALSE,
   event |-> {"stop", "update", "close", "crash"}],
  [driver |-> "codex", has |-> {u1, u2, n1}, delivery |-> {"queue"}, resume |-> TRUE,
   event |-> {"stop", "crash", "openFails", "writeFails"}]}

\* An executor whose session delegates.
Delegating == {
  [driver |-> "executor", has |-> {u1, u2, d1}, delivery |-> {"queue"}, resume |-> FALSE,
   event |-> {"interrupt", "close"}]}

\* An executor under every kind of stop, and as the parent of a delegated child.
OneTurnAtATime == {
  [driver |-> "executor", has |-> {u1, u2, u3}, delivery |-> {"queue", "interrupt"}, resume |-> FALSE,
   event |-> {"interrupt", "evict", "close", "shutdown", "restart"}]} \union Delegating

Interrupting == {
  [driver |-> "claude", has |-> {u1, u2}, delivery |-> {"queue", "interrupt"}, resume |-> FALSE, event |-> {}]}

\* Inputs of the host are interchangeable.
UserSymmetry == Permutations(User)
=============================================================================
