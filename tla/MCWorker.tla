-------------------------------- MODULE MCWorker --------------------------------
(* Small instances of Worker for TLC.                                      *)
EXTENDS Worker, TLC

\* One investigation and every kind of job; several investigations and their
\* retrains; the same and one rollback.
AnyJob == [kind : Kind, inv : Investigation]
Retrains == [kind : {"retrain"}, inv : Investigation]
AnyRollback == CHOOSE k \in AnyJob : k.kind = "rollback"
RetrainsAndRollback == Retrains \cup {AnyRollback}

\* Ids of investigations are uuids.
Investigations == Permutations(Investigation)
=============================================================================
