------------------------------ MODULE MCRuntime ------------------------------
(***************************************************************************)
(* The branches of one execution under their gates and token budget: a     *)
(* writer and two readers that call a provider.                            *)
(***************************************************************************)
EXTENDS RunInvocations, TLC

CONSTANTS w, r, q, effects, agents, c1, c2, c3

MCGatesOf == [b \in Branch |-> IF b \in AI THEN <<EffectGate, agents>> ELSE <<EffectGate>>]
MCCapacity == [g \in Gate |-> IF g = EffectGate THEN 9 ELSE 2]

\* Branches of a provider and calls are interchangeable.
MCSymmetry == Permutations(AI) \union Permutations(Call)
=============================================================================
