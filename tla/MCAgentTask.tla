----------------------------- MODULE MCAgentTask -----------------------------
(***************************************************************************)
(* Small instances of AgentTask for TLC.                                   *)
(***************************************************************************)
EXTENDS AgentTask, TLC

Call(tool, amount) == [tool |-> tool, amount |-> amount]
Recommend(amount) == Call("recommander_reglement", amount)

MCRegistry == {"lire_client", "calculer_prime", "recommander_reglement"}

\* An amount of 0 is no amount; 5 is the threshold.
MCToolCalls ==
  {Recommend(0), Recommend(5), Recommend(6), Call("calculer_prime", 0)}

Symmetry == Permutations(Callers)
=============================================================================
