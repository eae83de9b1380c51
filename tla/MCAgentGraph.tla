----------------------------- MODULE MCAgentGraph -----------------------------
(* Small instances of AgentGraph for TLC.                                  *)
EXTENDS AgentContract, TLC

\* The ids are uuids: nothing in the code compares them but for equality.
Ids == Permutations(Investigation) \cup Permutations(Approval)
           \cup Permutations(Report) \cup Permutations(Task)
=============================================================================
